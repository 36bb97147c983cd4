-------------------------- MODULE HfpVolumeProofs --------------------------
(***************************************************************************)
(* Proof that the two sides of an HFP link agree on the speaker volume     *)
(* when nothing is under way (hfp_volume_handler.c), for any kinds of AG   *)
(* that take the volume they are sent, and any number of changes.          *)
(***************************************************************************)
EXTENDS HfpAtProofs

(* No AG answers AT+VGS with ERROR: what it makes of a volume it refuses   *)
(* the library cannot know.                                                *)
TakesVgs == \A k \in AgKinds : "vgs" \notin k.refuses

(***************************************************************************)
(* The volumes on their way: reports of the AG in the lines b, settings    *)
(* of the hands-free unit in the commands a.                               *)
(***************************************************************************)
Reports(b) == {i \in DOMAIN b : b[i].line = "+VGS"}
Settings(a) == {i \in DOMAIN a : a[i].cmd = "vgs"}

(* A report will be read while a setting is under way. *)
Crossing(a, b) ==
  \E i \in Reports(b) : Settings(a) # {} \/ \E j \in DOMAIN b : j > i /\ b[j].of = "vgs"

LastOf(S, i) == i \in S /\ \A j \in S : j <= i

(* What is last on its way settles the volume v of the link or the volume  *)
(* g of the AG.                                                            *)
Agreed(a, b, v, g) ==
  \/ Reports(b) = {} /\ Settings(a) = {} /\ v = g
  \/ \E i \in DOMAIN b : LastOf(Reports(b), i) /\ b[i].vol = g
  \/ \E i \in DOMAIN a : LastOf(Settings(a), i) /\ a[i].vol = v

Settled(a, b, v, g) == Crossing(a, b) \/ Agreed(a, b, v, g)

(* AT+VGS is in the buffer of the channel. *)
HasVgs(l) == \E i \in DOMAIN l.buffer : l.buffer[i] = "vgs"

Steady(l) == l.open /\ ~crossed /\ ~ignored /\ l.dropped["vgs"] = 0 /\ ~l.volPending

Converging ==
  /\ Steady(link) => Settled(air, back, link.vol, ag.vol)
  /\ link.open /\ link.dropped["vgs"] = 0 /\ link.volPending => HasVgs(link)
  /\ link.slc = "connected" => Reports(back) = {}

(* A line is read that is no report. *)
LEMMA LineRead ==
  ASSUME NEW a, NEW b \in Seq(LineRecord), b # << >>, Head(b).line # "+VGS", NEW v, NEW g,
         Settled(a, b, v, g)
  PROVE  Settled(a, Tail(b), v, g)
<1> DEFINE t == Tail(b)
<1>1. /\ \A i \in DOMAIN t : i + 1 \in DOMAIN b /\ t[i] = b[i + 1] /\ i \in Nat
      /\ 1 \in DOMAIN b /\ Head(b) = b[1]
      /\ \A i \in DOMAIN b : i \in Nat /\ (i = 1 \/ (i - 1 \in DOMAIN t /\ b[i] = t[i - 1]))
  BY TailLines
<1> HIDE DEF t
<1>2. /\ \A i \in Reports(t) : i + 1 \in Reports(b)
      /\ \A i \in Reports(b) : i \in Nat /\ i - 1 \in Reports(t) /\ t[i - 1] = b[i] /\ i > 1
  BY <1>1 DEF Reports
<1>3. CASE Crossing(a, b)
  <2>1. PICK i \in Reports(b) :
          Settings(a) # {} \/ \E j \in DOMAIN b : j > i /\ b[j].of = "vgs"
    BY <1>3 DEF Crossing
  <2>2. CASE Settings(a) # {}
    BY <1>2, <2>1, <2>2 DEF Crossing, Settled, t
  <2>3. CASE \E j \in DOMAIN b : j > i /\ b[j].of = "vgs"
    <3>1. PICK j \in DOMAIN b : j > i /\ b[j].of = "vgs"
      BY <2>3
    <3>2. i - 1 \in Reports(t) /\ j - 1 \in DOMAIN t /\ j - 1 > i - 1 /\ t[j - 1].of = "vgs"
      BY <1>1, <1>2, <2>1, <3>1
    <3> QED BY <3>2 DEF Crossing, Settled, t
  <2> QED BY <2>1, <2>2, <2>3
<1>4. CASE Reports(b) = {} /\ Settings(a) = {} /\ v = g
  <2>1. Reports(t) = {}
    BY <1>2, <1>4
  <2> QED BY <1>4, <2>1 DEF Agreed, Settled, t
<1>5. CASE \E i \in DOMAIN b : LastOf(Reports(b), i) /\ b[i].vol = g
  <2>1. PICK i \in DOMAIN b : LastOf(Reports(b), i) /\ b[i].vol = g
    BY <1>5
  <2>2. i - 1 \in Reports(t) /\ t[i - 1] = b[i] /\ i - 1 \in DOMAIN t
    BY <1>2, <2>1 DEF LastOf, Reports
  <2>3. ASSUME NEW j \in Reports(t) PROVE j <= i - 1
    <3>1. j + 1 <= i /\ j \in Nat
      BY <1>1, <1>2, <2>1 DEF LastOf, Reports
    <3>2. i \in Nat
      BY <1>1
    <3> QED BY <3>1, <3>2
  <2> QED BY <2>1, <2>2, <2>3 DEF LastOf, Agreed, Settled, t
<1>6. CASE \E i \in DOMAIN a : LastOf(Settings(a), i) /\ a[i].vol = v
  BY <1>6 DEF Agreed, Settled
<1> QED BY <1>3, <1>4, <1>5, <1>6 DEF Settled, Agreed

(* A report is read, and nothing crosses it: its volume is taken.          *)
LEMMA ReportRead ==
  ASSUME NEW a, NEW b \in Seq(LineRecord), b # << >>, Head(b).line = "+VGS", NEW v, NEW g,
         Settings(a) = {}, \A j \in DOMAIN b : b[j].of # "vgs", Settled(a, b, v, g)
  PROVE  Settled(a, Tail(b), Head(b).vol, g)
<1> DEFINE t == Tail(b)
<1>1. /\ \A i \in DOMAIN t : i + 1 \in DOMAIN b /\ t[i] = b[i + 1] /\ i \in Nat \ {0}
      /\ 1 \in DOMAIN b /\ Head(b) = b[1]
      /\ \A i \in DOMAIN b : i \in Nat /\ (i = 1 \/ (i - 1 \in DOMAIN t /\ b[i] = t[i - 1]))
  BY TailLines
<1> HIDE DEF t
<1>2. 1 \in Reports(b)
  BY <1>1 DEF Reports
<1>3. PICK i \in DOMAIN b : LastOf(Reports(b), i) /\ b[i].vol = g
  BY <1>2 DEF Settled, Crossing, Agreed, LastOf
<1>4. ASSUME NEW j \in Reports(t) PROVE j \in Nat \ {0} /\ j + 1 <= i
  BY <1>1, <1>3 DEF LastOf, Reports
<1>5. CASE i = 1
  <2>1. Reports(t) = {}
    BY <1>4, <1>5
  <2>2. Head(b).vol = g
    BY <1>1, <1>3, <1>5
  <2> QED BY <2>1, <2>2 DEF Agreed, Settled, t
<1>6. CASE i # 1
  <2>1. i \in Nat /\ i - 1 \in DOMAIN t /\ t[i - 1] = b[i] /\ i \in Reports(b)
    BY <1>1, <1>3, <1>6 DEF LastOf
  <2>2. i - 1 \in Reports(t)
    BY <2>1 DEF Reports
  <2>3. \A j \in Reports(t) : j <= i - 1
    BY <1>4, <2>1
  <2> QED BY <1>3, <2>1, <2>2, <2>3 DEF LastOf, Agreed, Settled, t
<1> QED BY <1>5, <1>6

(* A command is sent; AT+VGS carries the volume of the link.               *)
LEMMA CommandSent ==
  ASSUME NEW a \in Seq(Transfer), NEW b, NEW v, NEW g, NEW x \in Transfer,
         IF x.cmd = "vgs" THEN x.vol = v ELSE Settled(a, b, v, g)
  PROVE  Settled(Append(a, x), b, v, g)
<1> DEFINE s == Append(a, x)
<1>1. /\ DOMAIN s = DOMAIN a \cup {Len(a) + 1}
      /\ s[Len(a) + 1] = x /\ Len(a) + 1 \notin DOMAIN a
      /\ \A i \in DOMAIN a : s[i] = a[i] /\ i <= Len(a) + 1
  <2>1. \A i \in DOMAIN a : i <= Len(a) + 1
    OBVIOUS
  <2> QED BY <2>1, AppendLines
<1> HIDE DEF s
<1>2. CASE x.cmd = "vgs"
  <2>1. Len(a) + 1 \in Settings(s) /\ s[Len(a) + 1].vol = v
    BY <1>1, <1>2 DEF Settings
  <2>2. Len(a) + 1 <= Len(a) + 1
    OBVIOUS
  <2>3. \A j \in Settings(s) : j <= Len(a) + 1
    BY <1>1, <2>2 DEF Settings
  <2> QED BY <1>1, <2>1, <2>3 DEF LastOf, Agreed, Settled, s
<1>3. CASE x.cmd # "vgs"
  <2>1. Settings(s) = Settings(a)
    BY <1>1, <1>3 DEF Settings
  <2>2. Settled(a, b, v, g)
    BY <1>3
  <2>3. Agreed(a, b, v, g) => Agreed(s, b, v, g)
    BY <1>1, <2>1 DEF Agreed
  <2>4. Crossing(a, b) => Crossing(s, b)
    BY <2>1 DEF Crossing
  <2> QED BY <2>2, <2>3, <2>4 DEF Settled, s
<1> QED BY <1>2, <1>3

(* The volume is turned at the AG. *)
LEMMA ReportSent ==
  ASSUME NEW a, NEW b \in Seq(LineRecord), NEW v, NEW x \in LineRecord, x.line = "+VGS"
  PROVE  Settled(a, Append(b, x), v, x.vol)
<1> DEFINE s == Append(b, x)
<1>1. /\ DOMAIN s = DOMAIN b \cup {Len(b) + 1} /\ s[Len(b) + 1] = x
      /\ \A i \in DOMAIN b : i <= Len(b) + 1
  <2>1. \A i \in DOMAIN b : i <= Len(b) + 1
    OBVIOUS
  <2> QED BY <2>1, AppendLines
<1>2. Len(b) + 1 <= Len(b) + 1
  OBVIOUS
<1> HIDE DEF s
<1>3. LastOf(Reports(s), Len(b) + 1)
  BY <1>1, <1>2 DEF LastOf, Reports
<1> QED BY <1>1, <1>3 DEF Agreed, Settled, s

(* The AG takes a command, and answers it with lines that are no reports.  *)
LEMMA CommandTaken ==
  ASSUME NEW a \in Seq(Transfer), a # << >>, NEW b \in Seq(LineRecord), NEW v, NEW g,
         Settled(a, b, v, g), NEW u \in Seq(LineRecord),
         \A i \in DOMAIN u : u[i].line # "+VGS",
         \E i \in DOMAIN u : u[i].of = Head(a).cmd,
         NEW h, h = IF Head(a).cmd = "vgs" THEN Head(a).vol ELSE g
  PROVE  Settled(Tail(a), b \o u, v, h)
<1> DEFINE t == Tail(a)
           s == b \o u
<1>1. /\ \A i \in DOMAIN t : i + 1 \in DOMAIN a /\ t[i] = a[i + 1] /\ i \in Nat \ {0}
      /\ 1 \in DOMAIN a /\ Head(a) = a[1]
      /\ \A i \in DOMAIN a : i \in Nat /\ (i = 1 \/ (i - 1 \in DOMAIN t /\ a[i] = t[i - 1]))
  BY TailLines
<1>2. /\ \A i \in DOMAIN b : i \in DOMAIN s /\ s[i] = b[i] /\ i \in Nat /\ i <= Len(b)
      /\ \A i \in DOMAIN u : Len(b) + i \in DOMAIN s /\ s[Len(b) + i] = u[i] /\ i \in Nat /\ i > 0
      /\ \A i \in DOMAIN s : i \in DOMAIN b \/ (i - Len(b) \in DOMAIN u /\ s[i] = u[i - Len(b)])
      /\ Len(b) \in Nat
  <2>1. DOMAIN s = 1 .. Len(b) + Len(u) /\ DOMAIN b = 1 .. Len(b) /\ DOMAIN u = 1 .. Len(u)
        /\ Len(b) \in Nat /\ Len(u) \in Nat
    OBVIOUS
  <2>2. \A i \in 1 .. Len(b) + Len(u) : s[i] = IF i <= Len(b) THEN b[i] ELSE u[i - Len(b)]
    OBVIOUS
  <2> HIDE DEF s
  <2>3. \A i \in DOMAIN b : i \in DOMAIN s /\ s[i] = b[i] /\ i \in Nat /\ i <= Len(b)
    BY <2>1, <2>2
  <2>4. \A i \in DOMAIN u : Len(b) + i \in DOMAIN s /\ s[Len(b) + i] = u[i] /\ i \in Nat /\ i > 0
    BY <2>1, <2>2
  <2>5. \A i \in DOMAIN s : i \in DOMAIN b \/ (i - Len(b) \in DOMAIN u /\ s[i] = u[i - Len(b)])
    BY <2>1, <2>2
  <2> QED BY <2>1, <2>3, <2>4, <2>5
<1> HIDE DEF t, s
<1>3. Reports(s) = Reports(b)
  BY <1>2 DEF Reports
<1>4. /\ \A i \in Settings(t) : i + 1 \in Settings(a) /\ i \in Nat \ {0}
      /\ \A i \in Settings(a) : i = 1 \/ (i - 1 \in Settings(t) /\ t[i - 1] = a[i] /\ i \in Nat)
  BY <1>1 DEF Settings
<1>5. PICK k \in DOMAIN s : s[k].of = Head(a).cmd /\ k \in Nat /\ k > Len(b)
  <2>1. PICK i \in DOMAIN u : u[i].of = Head(a).cmd
    OBVIOUS
  <2>2. Len(b) + i \in DOMAIN s /\ s[Len(b) + i].of = Head(a).cmd
        /\ Len(b) + i \in Nat /\ Len(b) + i > Len(b)
    BY <1>2, <2>1
  <2> QED BY <2>2
<1>6. CASE Crossing(a, b)
  <2>1. PICK i \in Reports(b) :
          Settings(a) # {} \/ \E j \in DOMAIN b : j > i /\ b[j].of = "vgs"
    BY <1>6 DEF Crossing
  <2>2. i \in Reports(s) /\ i \in Nat /\ i <= Len(b)
    BY <1>2, <1>3, <2>1 DEF Reports
  <2>3. CASE \E j \in DOMAIN b : j > i /\ b[j].of = "vgs"
    <3>1. \E j \in DOMAIN s : j > i /\ s[j].of = "vgs"
      BY <1>2, <2>3
    <3> QED BY <2>2, <3>1 DEF Crossing, Settled, s, t
  <2>4. CASE Settings(t) # {}
    BY <2>2, <2>4 DEF Crossing, Settled, s, t
  <2>5. CASE Settings(t) = {} /\ Settings(a) # {}
    <3>1. 1 \in Settings(a)
      BY <1>4, <2>5
    <3>2. Head(a).cmd = "vgs"
      BY <1>1, <3>1 DEF Settings
    <3>3. k > i /\ s[k].of = "vgs"
      BY <1>2, <1>5, <2>2, <3>2
    <3> QED BY <2>2, <3>3 DEF Crossing, Settled, s, t
  <2> QED BY <2>1, <2>3, <2>4, <2>5
<1>7. CASE ~Crossing(a, b) /\ Head(a).cmd = "vgs"
  <2>1. 1 \in Settings(a)
    BY <1>1, <1>7 DEF Settings
  <2>2. Reports(b) = {}
    BY <1>7, <2>1 DEF Crossing
  <2>3. PICK i \in DOMAIN a : LastOf(Settings(a), i) /\ a[i].vol = v
    BY <1>7, <2>1, <2>2 DEF Settled, Agreed, LastOf
  <2>4. ASSUME NEW j \in Settings(t) PROVE j \in Nat \ {0} /\ j + 1 <= i
    BY <1>4, <2>3 DEF LastOf
  <2>5. CASE i = 1
    <3>1. Settings(t) = {}
      BY <2>4, <2>5
    <3>2. h = v
      BY <1>1, <1>7, <2>3, <2>5
    <3> QED BY <1>3, <2>2, <3>1, <3>2 DEF Agreed, Settled, s, t
  <2>6. CASE i # 1
    <3>1. i - 1 \in Settings(t) /\ t[i - 1] = a[i] /\ i \in Nat
      BY <1>4, <2>3, <2>6 DEF LastOf
    <3>2. \A j \in Settings(t) : j <= i - 1
      BY <2>4, <3>1
    <3>3. i - 1 \in DOMAIN t
      BY <3>1 DEF Settings
    <3> QED BY <2>3, <3>1, <3>2, <3>3 DEF LastOf, Agreed, Settled, s, t
  <2> QED BY <2>5, <2>6
<1>8. CASE ~Crossing(a, b) /\ Head(a).cmd # "vgs"
  <2>1. h = g /\ Agreed(a, b, v, g) /\ 1 \notin Settings(a)
    BY <1>1, <1>8 DEF Settled, Settings
  <2>2. CASE Reports(b) = {} /\ Settings(a) = {} /\ v = g
    <3>1. Settings(t) = {}
      BY <1>4, <2>2
    <3> QED BY <1>3, <2>1, <2>2, <3>1 DEF Agreed, Settled, s, t
  <2>3. CASE \E i \in DOMAIN b : LastOf(Reports(b), i) /\ b[i].vol = g
    <3>1. PICK i \in DOMAIN b : LastOf(Reports(b), i) /\ b[i].vol = g
      BY <2>3
    <3>2. i \in DOMAIN s /\ s[i].vol = g
      BY <1>2, <3>1
    <3> QED BY <1>3, <2>1, <3>1, <3>2 DEF Agreed, Settled, s, t
  <2>4. CASE \E i \in DOMAIN a : LastOf(Settings(a), i) /\ a[i].vol = v
    <3>1. PICK i \in DOMAIN a : LastOf(Settings(a), i) /\ a[i].vol = v
      BY <2>4
    <3>2. i - 1 \in Settings(t) /\ t[i - 1] = a[i] /\ i \in Nat
      BY <1>4, <2>1, <3>1 DEF LastOf
    <3>3. ASSUME NEW j \in Settings(t) PROVE j <= i - 1
      <4>1. j \in Nat /\ j + 1 <= i
        BY <1>4, <3>1 DEF LastOf
      <4> QED BY <3>2, <4>1
    <3>4. i - 1 \in DOMAIN t
      BY <3>2 DEF Settings
    <3> QED BY <3>1, <3>2, <3>3, <3>4 DEF LastOf, Agreed, Settled, s, t
  <2> QED BY <2>1, <2>2, <2>3, <2>4 DEF Agreed
<1> QED BY <1>6, <1>7, <1>8

(***************************************************************************)
(* The handlers.                                                           *)
(***************************************************************************)
(* hfpSendNextAtCmd, for a link l made by a handler of the state before.   *)
LEMMA SendConverges ==
  ASSUME Types, NEW l \in LinkRecord, hfpSendNextAtCmd(l), NEW b, NEW g,
         Steady(l) => Settled(air, b, l.vol, g),
         l.open /\ l.dropped["vgs"] = 0 /\ l.volPending => HasVgs(l)
  PROVE  /\ Steady(link') => Settled(air', b, link'.vol, g)
         /\ link'.open /\ link'.dropped["vgs"] = 0 /\ link'.volPending => HasVgs(link')
<1>1. CASE CanSend(l)
  <2> DEFINE x == OnAir(l)
  <2>1. /\ link' = Flushed(l) /\ air' = Append(air, x)
    BY <1>1 DEF hfpSendNextAtCmd
  <2>2. /\ Alike(l, link') /\ link'.buffer = Tail(l.buffer) /\ link'.dropped = l.dropped
        /\ link'.volPending = (l.volPending /\ Head(l.buffer) # "vgs") /\ x \in Transfer
    BY <1>1, <2>1, FlushedLink
  <2>3. x.cmd = Head(l.buffer) /\ x.vol = l.vol
    BY DEF OnAir
  <2>4. link'.open = l.open /\ link'.vol = l.vol
    BY <2>2 DEF Alike
  <2> HIDE DEF x
  <2>5. ASSUME Steady(link') PROVE Settled(air', b, link'.vol, g)
    <3>1. CASE x.cmd = "vgs"
      BY <2>1, <2>2, <2>3, <2>4, <3>1, CommandSent DEF Types
    <3>2. CASE x.cmd # "vgs"
      <4>1. ~l.volPending
        BY <2>2, <2>3, <2>5, <3>2 DEF Steady
      <4>2. Settled(air, b, l.vol, g)
        BY <2>2, <2>4, <2>5, <4>1 DEF Steady
      <4> QED BY <2>1, <2>2, <2>4, <3>2, <4>2, CommandSent DEF Types
    <3> QED BY <3>1, <3>2
  <2>6. ASSUME link'.open, link'.dropped["vgs"] = 0, link'.volPending PROVE HasVgs(link')
    <3>1. l.volPending /\ Head(l.buffer) # "vgs"
      BY <2>2, <2>6
    <3>2. PICK i \in DOMAIN l.buffer : l.buffer[i] = "vgs"
      BY <2>2, <2>4, <2>6, <3>1 DEF HasVgs
    <3>3. l.buffer \in Seq(Command) /\ l.buffer # << >>
      BY <1>1 DEF CanSend, LinkRecord
    <3>4. i - 1 \in DOMAIN Tail(l.buffer) /\ Tail(l.buffer)[i - 1] = "vgs"
      BY <3>1, <3>2, <3>3, TailLines
    <3> QED BY <2>2, <3>4 DEF HasVgs
  <2> QED BY <2>5, <2>6
<1>2. CASE ~CanSend(l)
  BY <1>2 DEF hfpSendNextAtCmd
<1> QED BY <1>1, <1>2

(* What Queued does to the volume under way. *)
LEMMA QueuedPending ==
  ASSUME Types, NEW l \in LinkRecord, NEW c \in Command, NEW m, m = Queued(l, c)
  PROVE  /\ m \in LinkRecord /\ m.open = l.open /\ m.vol = l.vol /\ m.volPending = l.volPending
         /\ m.slc = l.slc
         /\ m.dropped["vgs"] = 0 => l.dropped["vgs"] = 0
         /\ HasVgs(l) => HasVgs(m)
         /\ m.open /\ m.dropped["vgs"] = 0 /\ c = "vgs" => HasVgs(m)
<1>1. QueuedAs(l, c, m)
  BY QueuedLink
<1>2. l.dropped["vgs"] \in Nat /\ l.dropped \in [Command -> Nat] /\ "vgs" \in Command
      /\ l.buffer \in Seq(Command)
  BY DEF LinkRecord, Command
<1>3. CASE ~l.open /\ m = l
  BY <1>1, <1>3 DEF QueuedAs, Alike
<1>4. CASE l.open /\ m.buffer = Append(l.buffer, c) /\ m.dropped = l.dropped
  <2>1. HasVgs(l) => HasVgs(m)
    BY <1>2, <1>4, AppendLines DEF HasVgs
  <2>2. c = "vgs" => HasVgs(m)
    BY <1>2, <1>4, AppendLines DEF HasVgs
  <2> QED BY <1>1, <1>4, <2>1, <2>2 DEF QueuedAs, Alike
<1>5. CASE l.open /\ m.buffer = l.buffer /\ m.dropped = [l.dropped EXCEPT ![c] = @ + 1]
  <2>1. m.dropped["vgs"] = 0 => l.dropped["vgs"] = 0 /\ c # "vgs"
    BY <1>2, <1>5
  <2> QED BY <1>1, <1>5, <2>1 DEF QueuedAs, Alike, HasVgs
<1> QED BY <1>1, <1>3, <1>4, <1>5 DEF QueuedAs

(* hfpSendAtCmd for a command of the library or of a request. *)
LEMMA QueueConverges ==
  ASSUME Types, NEW l \in LinkRecord, NEW c \in Command, hfpSendAtCmd(l, c), NEW b, NEW g,
         Steady(l) => Settled(air, b, l.vol, g),
         l.open /\ l.dropped["vgs"] = 0 /\ l.volPending => HasVgs(l) \/ c = "vgs"
  PROVE  /\ Steady(link') => Settled(air', b, link'.vol, g)
         /\ link'.open /\ link'.dropped["vgs"] = 0 /\ link'.volPending => HasVgs(link')
<1> DEFINE m == Queued(l, c)
<1>1. /\ m \in LinkRecord /\ m.open = l.open /\ m.vol = l.vol /\ m.volPending = l.volPending
      /\ m.dropped["vgs"] = 0 => l.dropped["vgs"] = 0
      /\ HasVgs(l) => HasVgs(m)
      /\ m.open /\ m.dropped["vgs"] = 0 /\ c = "vgs" => HasVgs(m)
  BY QueuedPending
<1>2. hfpSendNextAtCmd(m)
  BY DEF hfpSendAtCmd
<1> HIDE DEF m
<1>3. Steady(m) => Settled(air, b, m.vol, g)
  BY <1>1 DEF Steady
<1>4. m.open /\ m.dropped["vgs"] = 0 /\ m.volPending => HasVgs(m)
  BY <1>1
<1> QED BY <1>1, <1>2, <1>3, <1>4, SendConverges

(* The states a link goes through when an answer is handled. *)
LEMMA AckPending ==
  ASSUME Types, NEW status, NEW m, m = AckedLink(status)
  PROVE  /\ m \in LinkRecord /\ m.open = link.open /\ m.vol = link.vol
         /\ m.volPending = link.volPending
         /\ m.slc = "connected" => link.slc = "connected"
         /\ m.dropped["vgs"] = 0 => link.dropped["vgs"] = 0
         /\ HasVgs(link) => HasVgs(m)
<1> DEFINE a == Acked(link, status)
           q == AckQueues(a, status)
<1>1. /\ a \in LinkRecord /\ a.dropped = link.dropped /\ a.buffer = link.buffer
  BY AckedType DEF Types
<1>2. /\ m \in LinkRecord /\ m.open = link.open /\ m.vol = link.vol
      /\ m.volPending = link.volPending
      /\ m.slc = (IF AckCompletes(link, status) THEN "complete" ELSE link.slc)
  BY AckedLinkType DEF Types
<1> HIDE DEF a
<1>3. /\ q \in LinkRecord /\ (q.dropped["vgs"] = 0 => a.dropped["vgs"] = 0)
      /\ (HasVgs(a) => HasVgs(q))
  <2>1. CASE a.pending = "brsf"
    <3> DEFINE n == Queued(a, "cindTest")
               o == Queued(n, "cindRead")
    <3>1. "cindTest" \in Command /\ "cindRead" \in Command
      BY DEF Command, SetupCommand
    <3>2. n \in LinkRecord /\ (n.dropped["vgs"] = 0 => a.dropped["vgs"] = 0)
          /\ (HasVgs(a) => HasVgs(n))
      BY <1>1, <3>1, QueuedPending
    <3> HIDE DEF n
    <3>3. o \in LinkRecord /\ (o.dropped["vgs"] = 0 => n.dropped["vgs"] = 0)
          /\ (HasVgs(n) => HasVgs(o))
      BY <3>1, <3>2, QueuedPending
    <3>4. q = o
      BY <2>1 DEF AckQueues, n
    <3> HIDE DEF o, q
    <3> QED BY <3>2, <3>3, <3>4
  <2>2. CASE a.pending # "brsf"
    <3>1. \/ q = a
          \/ \E c \in {"cmer", "chld", "cops"} : q = Queued(a, c)
      BY <2>2 DEF AckQueues
    <3>2. {"cmer", "chld", "cops"} \subseteq Command
      BY DEF Command, SetupCommand, Request
    <3> HIDE DEF q
    <3> QED BY <1>1, <3>1, <3>2, QueuedPending
  <2> QED BY <2>1, <2>2
<1>4. m = [q EXCEPT !.pending = None]
  BY DEF AckedLink, a
<1> HIDE DEF q
<1>5. m.dropped = q.dropped /\ m.buffer = q.buffer
  BY <1>3, <1>4 DEF LinkRecord
<1> QED BY <1>1, <1>2, <1>3, <1>5 DEF HasVgs

(* An answer or a timeout; b is what is left to read. *)
LEMMA AckConverges ==
  ASSUME Types, Converging, NEW status, atCmdAckReceived(status), NEW b,
         Settled(air, back, link.vol, ag.vol) => Settled(air, b, link.vol, ag.vol)
  PROVE  /\ Steady(link') => Settled(air', b, link'.vol, ag.vol)
         /\ link'.open /\ link'.dropped["vgs"] = 0 /\ link'.volPending => HasVgs(link')
         /\ link'.slc = "connected" => link.slc = "connected"
<1> DEFINE l == AckedLink(status)
<1>1. /\ l \in LinkRecord /\ l.open = link.open /\ l.vol = link.vol
      /\ l.volPending = link.volPending
      /\ l.slc = "connected" => link.slc = "connected"
      /\ l.dropped["vgs"] = 0 => link.dropped["vgs"] = 0
      /\ HasVgs(link) => HasVgs(l)
  BY AckPending
<1>2. hfpSendNextAtCmd(l)
  BY DEF atCmdAckReceived
<1> HIDE DEF l
<1>3. Steady(l) => Settled(air, b, l.vol, ag.vol)
  BY <1>1 DEF Steady, Converging
<1>4. l.open /\ l.dropped["vgs"] = 0 /\ l.volPending => HasVgs(l)
  BY <1>1 DEF Converging
<1>5. link'.slc = l.slc
  BY <1>1, <1>2, SendNext DEF Types, Alike
<1> QED BY <1>1, <1>2, <1>3, <1>4, <1>5, SendConverges

(* A handler that leaves the volumes and the commands alone. *)
LEMMA ConvergingKept ==
  ASSUME Converging,
         link'.open = link.open, link'.dropped = link.dropped, link'.buffer = link.buffer,
         link'.volPending = link.volPending, link'.vol = link.vol,
         link'.slc = "connected" => link.slc = "connected" /\ back' = back,
         air' = air, ag'.vol = ag.vol, crossed' = crossed, ignored' = ignored,
         Settled(air, back, link.vol, ag.vol) => Settled(air, back', link.vol, ag.vol)
  PROVE  Converging'
BY DEF Converging, Steady, HasVgs

LEMMA SentSlc ==
  ASSUME Types, NEW l \in LinkRecord, NEW c \in Command, hfpSendAtCmd(l, c)
  PROVE  link'.slc = l.slc
<1> DEFINE q == Queued(l, c)
<1>1. q \in LinkRecord /\ q.slc = l.slc
  BY QueuedPending
<1>2. hfpSendNextAtCmd(q)
  BY DEF hfpSendAtCmd
<1> HIDE DEF q
<1> QED BY <1>1, <1>2, SendNext DEF Types, Alike

(* What is no report stays none when lines are read. *)
LEMMA ReportsTail ==
  ASSUME NEW b \in Seq(LineRecord), b # << >>
  PROVE  /\ Reports(b) = {} => Reports(Tail(b)) = {}
         /\ Head(b).line = "+VGS" => Reports(b) # {}
<1>1. /\ \A i \in DOMAIN Tail(b) : i + 1 \in DOMAIN b /\ Tail(b)[i] = b[i + 1]
      /\ 1 \in DOMAIN b /\ Head(b) = b[1]
  BY TailLines
<1>2. Reports(b) = {} => Reports(Tail(b)) = {}
  BY <1>1 DEF Reports
<1>3. Head(b).line = "+VGS" => 1 \in Reports(b)
  BY <1>1 DEF Reports
<1> QED BY <1>2, <1>3

LEMMA ConvergingLines ==
  ASSUME Types, Converging, Lines
  PROVE  Converging'
<1>0. back # << >> /\ back' = Tail(back) /\ back \in Seq(LineRecord)
      /\ ag' = ag /\ ignored' = ignored
  BY DEF Lines, HandleAck, HandleBrsf, HandleChld, HandleSpeakerGain, Types
<1>1. CASE HandleAck
  <2>1. Head(back).line # "+VGS" /\ crossed' = crossed /\ atCmdAckReceived(Head(back).line)
    BY <1>1 DEF HandleAck
  <2>2. Settled(air, back, link.vol, ag.vol) => Settled(air, Tail(back), link.vol, ag.vol)
    BY <1>0, <2>1, LineRead
  <2>3. /\ Steady(link') => Settled(air', Tail(back), link'.vol, ag.vol)
        /\ link'.open /\ link'.dropped["vgs"] = 0 /\ link'.volPending => HasVgs(link')
        /\ link'.slc = "connected" => link.slc = "connected"
    BY <2>1, <2>2, AckConverges
  <2>4. link'.slc = "connected" => Reports(Tail(back)) = {}
    BY <1>0, <2>3, ReportsTail DEF Converging
  <2> QED BY <1>0, <2>1, <2>3, <2>4 DEF Converging, Steady, HasVgs
<1>2. CASE HandleBrsf
  <2> DEFINE l == [link EXCEPT !.features = ag.kind.features]
  <2>1. Head(back).line # "+VGS" /\ crossed' = crossed
        /\ (hfpSendAtCmd(l, "bac") \/ (link' = l /\ air' = air))
    BY <1>2 DEF HandleBrsf
  <2>2. /\ l \in LinkRecord /\ l.vol = link.vol /\ l.volPending = link.volPending
        /\ l.open = link.open /\ l.dropped = link.dropped /\ l.buffer = link.buffer
        /\ l.slc = link.slc
    BY DEF Types, LinkRecord, Feature
  <2> HIDE DEF l
  <2>3. "bac" \in Command
    BY DEF Command, SetupCommand
  <2>4. Steady(l) => Settled(air, Tail(back), l.vol, ag.vol)
    <3>1. Settled(air, back, link.vol, ag.vol) => Settled(air, Tail(back), link.vol, ag.vol)
      BY <1>0, <2>1, LineRead
    <3> QED BY <2>2, <3>1 DEF Converging, Steady
  <2>5. l.open /\ l.dropped["vgs"] = 0 /\ l.volPending => HasVgs(l)
    BY <2>2 DEF Converging, HasVgs
  <2>6. /\ Steady(link') => Settled(air', Tail(back), link'.vol, ag.vol)
        /\ link'.open /\ link'.dropped["vgs"] = 0 /\ link'.volPending => HasVgs(link')
    <3>1. CASE hfpSendAtCmd(l, "bac")
      BY <2>2, <2>3, <2>4, <2>5, <3>1, QueueConverges
    <3>2. CASE link' = l /\ air' = air
      BY <2>4, <2>5, <3>2
    <3> QED BY <2>1, <3>1, <3>2
  <2>7. link'.slc = link.slc
    BY <2>1, <2>2, <2>3, SentSlc
  <2>8. link'.slc = "connected" => Reports(Tail(back)) = {}
    BY <1>0, <2>7, ReportsTail DEF Converging
  <2> QED BY <1>0, <2>1, <2>6, <2>8 DEF Converging, Steady, HasVgs
<1>3. CASE HandleChld
  <2>1. Head(back).line # "+VGS" /\ crossed' = crossed /\ air' = air
        /\ link' = [link EXCEPT !.slc = "complete"]
    BY <1>3 DEF HandleChld
  <2>2. /\ link'.open = link.open /\ link'.dropped = link.dropped /\ link'.buffer = link.buffer
        /\ link'.volPending = link.volPending /\ link'.vol = link.vol
        /\ link'.slc # "connected"
    BY <2>1 DEF Types, LinkRecord
  <2>3. Settled(air, back, link.vol, ag.vol) => Settled(air, back', link.vol, ag.vol)
    BY <1>0, <2>1, LineRead
  <2> QED BY <1>0, <2>1, <2>2, <2>3, ConvergingKept
<1>4. CASE HandleSpeakerGain
  <2>1. /\ Head(back).line = "+VGS" /\ link.slc # "idle" /\ air' = air
        /\ link' = IF TakesVolume(link) THEN [link EXCEPT !.vol = Head(back).vol] ELSE link
        /\ crossed' = (crossed \/ VgsUnderWay)
    BY <1>4 DEF HandleSpeakerGain
  <2>2. link.slc = "complete"
    <3>1. Reports(back) # {}
      BY <1>0, <2>1, ReportsTail
    <3> QED BY <2>1, <3>1 DEF Converging, Types, LinkRecord
  <2>3. /\ link'.open = link.open /\ link'.dropped = link.dropped /\ link'.buffer = link.buffer
        /\ link'.volPending = link.volPending /\ link'.slc = "complete"
        /\ ~link.volPending => link'.vol = Head(back).vol
    BY <2>1, <2>2 DEF Types, LinkRecord, TakesVolume
  <2>4. ASSUME link.open, ~crossed', ~ignored, link.dropped["vgs"] = 0, ~link.volPending
        PROVE  Settled(air, Tail(back), link'.vol, ag.vol)
    <3>1. ~crossed /\ Settings(air) = {} /\ \A j \in DOMAIN back : back[j].of # "vgs"
      BY <2>1, <2>4 DEF VgsUnderWay, Settings
    <3>2. Settled(air, back, link.vol, ag.vol)
      BY <2>4, <3>1 DEF Converging, Steady
    <3> QED BY <1>0, <2>1, <2>3, <2>4, <3>1, <3>2, ReportRead
  <2> QED BY <1>0, <2>1, <2>3, <2>4 DEF Converging, Steady, HasVgs
<1> QED BY <1>1, <1>2, <1>3, <1>4 DEF Lines

LEMMA JoinReports ==
  ASSUME NEW b \in Seq(LineRecord), NEW u \in Seq(LineRecord), Reports(b) = {},
         \A i \in DOMAIN u : u[i].line # "+VGS"
  PROVE  Reports(b \o u) = {}
<1> DEFINE s == b \o u
<1>1. DOMAIN s = 1 .. Len(b) + Len(u) /\ DOMAIN b = 1 .. Len(b) /\ DOMAIN u = 1 .. Len(u)
      /\ Len(b) \in Nat /\ Len(u) \in Nat
  OBVIOUS
<1>2. \A i \in 1 .. Len(b) + Len(u) : s[i] = IF i <= Len(b) THEN b[i] ELSE u[i - Len(b)]
  OBVIOUS
<1> HIDE DEF s
<1> QED BY <1>1, <1>2 DEF Reports, s

LEMMA ConvergingAg ==
  ASSUME TakesVgs, Types, Converging, AgAccepts \/ AgRefuses
  PROVE  Converging'
<1> DEFINE c == Head(air).cmd
<1>1. /\ air # << >> /\ air' = Tail(air) /\ link' = link /\ crossed' = crossed
      /\ ignored' = ignored /\ air \in Seq(Transfer) /\ back \in Seq(LineRecord)
      /\ c \in Command /\ Head(air).vol \in Volume
  <2>1. air \in Seq(Transfer) /\ air # << >> /\ Head(air) \in Transfer
    BY TailType DEF Types, AgAccepts, AgRefuses
  <2> QED BY <2>1 DEF AgAccepts, AgRefuses, Types, Transfer
<1>2. PICK u \in Seq(LineRecord) : /\ back' = back \o u
                                   /\ \A i \in DOMAIN u : u[i].line # "+VGS"
                                   /\ \E i \in DOMAIN u : u[i].of = c
  <2> HIDE DEF c
  <2>0. 0 \in Volume
    BY BoundsAssumption DEF Volume
  <2>1. \A x \in {"+BRSF", "+CHLD", "success", "fail"} : Line(x, c) \in LineRecord
                 /\ Line(x, c).line # "+VGS" /\ Line(x, c).of = c
    BY <1>1, <2>0 DEF Line, LineRecord
  <2>2. CASE AgAccepts
    <3> DEFINE n == Append(Info(c), Line("success", c))
    <3>1. back' = back \o n
      BY <2>2 DEF AgAccepts, c
    <3>2. Info(c) \in {<<Line("+BRSF", c)>>, <<Line("+CHLD", c)>>, << >>}
      BY DEF Info
    <3>3. Info(c) \in Seq(LineRecord) /\ \A i \in DOMAIN Info(c) : Info(c)[i].line # "+VGS"
      <4>1. CASE Info(c) = << >>
        BY <4>1
      <4>2. ASSUME NEW x \in {"+BRSF", "+CHLD"}, Info(c) = <<Line(x, c)>>
            PROVE  Info(c) \in Seq(LineRecord) /\ \A i \in DOMAIN Info(c) : Info(c)[i].line # "+VGS"
        <5>1. Line(x, c) \in LineRecord /\ Line(x, c).line # "+VGS"
          BY <2>1
        <5> QED BY <4>2, <5>1
      <4> QED BY <3>2, <4>1, <4>2
    <3>4. /\ DOMAIN n = DOMAIN Info(c) \cup {Len(Info(c)) + 1}
          /\ n[Len(Info(c)) + 1] = Line("success", c)
          /\ \A i \in DOMAIN Info(c) : n[i] = Info(c)[i]
          /\ n \in Seq(LineRecord)
      BY <2>1, <3>3, AppendLines
    <3> HIDE DEF n
    <3>5. /\ \A i \in DOMAIN n : n[i].line # "+VGS"
          /\ \E i \in DOMAIN n : n[i].of = c
      BY <2>1, <3>3, <3>4
    <3> QED BY <3>1, <3>4, <3>5
  <2>3. CASE AgRefuses
    <3> DEFINE n == <<Line("fail", c)>>
    <3>1. back' = Append(back, Line("fail", c))
      BY <2>3 DEF AgRefuses, c
    <3>2. n \in Seq(LineRecord) /\ DOMAIN n = {1} /\ n[1] = Line("fail", c)
      BY <2>1
    <3>3. back' = back \o n
      BY <1>1, <2>1, <3>1
    <3> HIDE DEF n
    <3> QED BY <2>1, <3>2, <3>3
  <2> QED BY <2>2, <2>3
<1>3. ag'.vol = IF c = "vgs" THEN Head(air).vol ELSE ag.vol
  <2>1. CASE AgAccepts
    BY <2>1 DEF AgAccepts, Types
  <2>2. CASE AgRefuses
    <3>1. c # "vgs"
      BY <2>2 DEF AgRefuses, TakesVgs, Types
    <3> QED BY <2>2, <3>1 DEF AgRefuses
  <2> QED BY <2>1, <2>2
<1> HIDE DEF c
<1>4. Settled(air, back, link.vol, ag.vol) => Settled(Tail(air), back', link.vol, ag'.vol)
  BY <1>1, <1>2, <1>3, CommandTaken DEF c
<1>5. Reports(back) = {} => Reports(back') = {}
  BY <1>1, <1>2, JoinReports
<1> QED BY <1>1, <1>4, <1>5 DEF Converging, Steady, HasVgs

LEMMA ConvergingRequest ==
  ASSUME Types, Converging, NEW m \in InternalRequest, HandleRequest(m)
  PROVE  Converging'
<1> DEFINE c == Sends(link, m)
<1>1. back' = back /\ ag' = ag /\ crossed' = crossed /\ ignored' = ignored
      /\ link.slc = "complete"
  BY DEF HandleRequest
<1>2. CASE c # None
  <2>1. m \in Command
    BY DEF InternalRequest, Command, Request, SetupCommand
  <2>2. c \in Command
    BY <1>2, <2>1 DEF Sends, Command, Request
  <2>3. hfpSendAtCmd(link, c)
    BY <1>2 DEF HandleRequest
  <2>4. link.open /\ link.dropped["vgs"] = 0 /\ link.volPending => HasVgs(link)
    BY DEF Converging
  <2>5. Steady(link) => Settled(air, back, link.vol, ag.vol)
    BY DEF Converging
  <2>6. link \in LinkRecord
    BY DEF Types
  <2> HIDE DEF c
  <2>7. /\ Steady(link') => Settled(air', back, link'.vol, ag.vol)
        /\ link'.open /\ link'.dropped["vgs"] = 0 /\ link'.volPending => HasVgs(link')
    BY <2>2, <2>3, <2>4, <2>5, <2>6, QueueConverges
  <2>8. link'.slc = "complete"
    BY <1>1, <2>2, <2>3, <2>6, SentSlc
  <2> QED BY <1>1, <2>7, <2>8 DEF Converging, Steady, HasVgs
<1>3. CASE c = None
  <2>1. link' = link /\ air' = air
    BY <1>3 DEF HandleRequest
  <2> QED BY <1>1, <2>1 DEF Converging, Steady, HasVgs
<1> QED BY <1>2, <1>3

LEMMA ConvergingVolume ==
  ASSUME Types, Converging, NEW g \in 0 .. (MaxGain + 1), VolumeRequest(g)
  PROVE  Converging'
<1> DEFINE l == [link EXCEPT !.vol = Clamped(g), !.volPending = TRUE]
<1>1. back' = back /\ ag' = ag /\ crossed' = crossed /\ ignored' = ignored
      /\ link.slc = "complete"
      /\ (IF link.volPending THEN link' = l /\ air' = air ELSE hfpSendAtCmd(l, "vgs"))
  BY DEF VolumeRequest
<1>2. Clamped(g) \in Volume
  BY BoundsAssumption DEF Clamped, Volume
<1>3. /\ l \in LinkRecord /\ l.volPending /\ l.open = link.open /\ l.dropped = link.dropped
      /\ l.buffer = link.buffer /\ l.slc = link.slc
  BY <1>2 DEF Types, LinkRecord
<1> HIDE DEF l
<1>4. ~Steady(l)
  BY <1>3 DEF Steady
<1>5. "vgs" \in Command
  BY DEF Command
<1>6. CASE link.volPending
  <2>1. l.open /\ l.dropped["vgs"] = 0 => HasVgs(l)
    BY <1>3, <1>6 DEF Converging, HasVgs
  <2> QED BY <1>1, <1>3, <1>6, <2>1 DEF Converging, Steady, HasVgs
<1>7. CASE ~link.volPending
  <2>1. hfpSendAtCmd(l, "vgs")
    BY <1>1, <1>7
  <2>2. Steady(l) => Settled(air, back, l.vol, ag.vol)
    BY <1>4
  <2>3. /\ Steady(link') => Settled(air', back, link'.vol, ag.vol)
        /\ link'.open /\ link'.dropped["vgs"] = 0 /\ link'.volPending => HasVgs(link')
    BY <1>3, <1>5, <2>1, <2>2, QueueConverges
  <2>4. link'.slc = "complete"
    BY <1>1, <1>3, <1>5, <2>1, SentSlc
  <2> QED BY <1>1, <2>3, <2>4 DEF Converging, Steady, HasVgs
<1> QED BY <1>6, <1>7

LEMMA ConvergingNext ==
  ASSUME TakesVgs, Types, Converging, [Next]_vars
  PROVE  Converging'
<1>1. CASE HandleTimeout
  <2>1. back' = back /\ ag' = ag /\ crossed' = crossed /\ ignored' = ignored
    BY <1>1 DEF HandleTimeout
  <2>2. CASE link.slc = "complete"
    <3>1. atCmdAckReceived("timeout")
      BY <1>1, <2>2 DEF HandleTimeout
    <3>2. /\ Steady(link') => Settled(air', back, link'.vol, ag.vol)
          /\ link'.open /\ link'.dropped["vgs"] = 0 /\ link'.volPending => HasVgs(link')
          /\ link'.slc = "connected" => link.slc = "connected"
      BY <3>1, AckConverges
    <3> QED BY <2>1, <2>2, <3>2 DEF Converging, Steady, HasVgs
  <2>3. CASE link.slc # "complete"
    <3>1. link' = [link EXCEPT !.timer = FALSE] /\ air' = air
      BY <1>1, <2>3 DEF HandleTimeout
    <3>2. /\ link'.open = link.open /\ link'.dropped = link.dropped /\ link'.buffer = link.buffer
          /\ link'.volPending = link.volPending /\ link'.vol = link.vol /\ link'.slc = link.slc
      BY <3>1 DEF Types, LinkRecord
    <3> QED BY <2>1, <3>1, <3>2, ConvergingKept
  <2> QED BY <2>2, <2>3
<1>2. CASE \E found \in BOOLEAN : SdpFeatures(found)
  <2>1. PICK found \in BOOLEAN : SdpFeatures(found)
    BY <1>2
  <2>2. back' = back /\ air' = air /\ ag' = ag /\ crossed' = crossed /\ ignored' = ignored
        /\ (link' = link \/ link' = [link EXCEPT !.features = ag.kind.features])
    BY <2>1 DEF SdpFeatures
  <2>3. /\ link'.open = link.open /\ link'.dropped = link.dropped /\ link'.buffer = link.buffer
        /\ link'.volPending = link.volPending /\ link'.vol = link.vol /\ link'.slc = link.slc
    BY <2>2 DEF Types, LinkRecord
  <2> QED BY <2>2, <2>3, ConvergingKept
<1>3. CASE HandleDisconnected \/ Closes
  <2>1. CASE HandleDisconnected
    <3>1. link' = Reset(link)
      BY <2>1 DEF HandleDisconnected
    <3>2. ~link'.open /\ link'.slc = "idle"
      BY <3>1 DEF Reset
    <3> QED BY <3>2 DEF Converging, Steady
  <2>2. CASE Closes
    <3>1. link' = [link EXCEPT !.open = FALSE, !.buffer = << >>] /\ back' = back
      BY <2>2 DEF Closes
    <3>2. ~link'.open /\ link'.slc = link.slc
      BY <3>1 DEF Types, LinkRecord
    <3> QED BY <3>1, <3>2 DEF Converging, Steady
  <2> QED BY <1>3, <2>1, <2>2
<1>4. CASE AgIgnores
  <2>1. ignored' /\ link' = link /\ back' = back
    BY <1>4 DEF AgIgnores
  <2> QED BY <2>1 DEF Converging, Steady, HasVgs
<1>5. ASSUME NEW w \in Volume, AgVolume(w) PROVE Converging'
  <2> DEFINE x == [line |-> "+VGS", of |-> None, vol |-> w]
  <2>1. /\ link' = link /\ link.slc = "complete" /\ air' = air /\ back' = Append(back, x)
        /\ ag' = [ag EXCEPT !.vol = w]
    BY <1>5 DEF AgVolume
  <2>2. x \in LineRecord /\ x.line = "+VGS" /\ x.vol = w /\ ag'.vol = w
    BY <2>1 DEF LineRecord, Types
  <2> HIDE DEF x
  <2>3. Settled(air, Append(back, x), link.vol, w)
    <3>1. back \in Seq(LineRecord)
      BY DEF Types
    <3>2. Settled(air, Append(back, x), link.vol, x.vol)
      BY <2>2, <3>1, ReportSent
    <3> QED BY <2>2, <3>2
  <2> QED BY <2>1, <2>2, <2>3 DEF Converging, Steady, HasVgs
<1>6. CASE UNCHANGED <<link, air, back, ag, crossed, ignored>>
  BY <1>6 DEF Converging, Steady, HasVgs
<1>7. CASE \/ \E m \in InternalRequest : RejectRequest(m)
           \/ HandleDisconnectRequest \/ (\E k \in Request : ClientRequest(k)) \/ ClientDisconnect
           \/ UNCHANGED vars
  BY <1>6, <1>7 DEF RejectRequest, HandleDisconnectRequest, ClientRequest, ClientDisconnect, vars
<1> QED BY <1>1, <1>2, <1>3, <1>4, <1>5, <1>7, ConvergingLines, ConvergingAg, ConvergingRequest,
           ConvergingVolume
        DEF Next, Messages, Client, AgStep, Disconnected, Dropped

LEMMA ConvergingInit == Init => Converging
<1> SUFFICES ASSUME Init PROVE Converging
  OBVIOUS
<1>1. /\ link.slc = "connected" /\ link.vol = 0 /\ ~link.volPending
      /\ air = <<[cmd |-> "brsf", vol |-> 0]>> /\ back = << >>
  BY InitFacts DEF Init
<1>2. ag.vol = 0
  BY DEF Init
<1>3. Reports(back) = {} /\ Settings(air) = {}
  BY <1>1 DEF Reports, Settings
<1> QED BY <1>1, <1>2, <1>3 DEF Converging, Settled, Agreed

(* hfpHandleVgsRequest and hfpHandleSpeakerGain: once nothing is under way *)
(* the two sides have the same volume, unless a +VGS has been read while   *)
(* an AT+VGS was under way, the AG has left a command without an answer,   *)
(* or AT+VGS found no room in the buffer.                                  *)
THEOREM VolumesConverge ==
  ASSUME TakesVgs
  PROVE  Spec => []VolumesAgree
<1>1. Types /\ Converging /\ [Next]_vars => Converging'
  BY ConvergingNext
<1>2. Types /\ Converging => VolumesAgree
  <2> SUFFICES ASSUME Types, Converging, link.open,
                      link.buffer = << >>, air = << >>, back = << >>,
                      ~crossed, ~ignored, link.dropped["vgs"] = 0
               PROVE  link.vol = ag.vol
    BY DEF VolumesAgree
  <2>1. ~link.volPending
    BY DEF Converging, HasVgs
  <2>2. Settled(air, back, link.vol, ag.vol)
    BY <2>1 DEF Converging, Steady
  <2>3. DOMAIN air = {} /\ DOMAIN back = {}
    OBVIOUS
  <2> QED BY <2>2, <2>3 DEF Settled, Crossing, Agreed, Reports
<1> QED BY ConvergingInit, <1>1, <1>2, TypeCorrect, PTL DEF Spec
=============================================================================
