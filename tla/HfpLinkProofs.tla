--------------------------- MODULE HfpLinkProofs ---------------------------
(***************************************************************************)
(* Proofs about the links of the HFP library (lib/hfp), for any set of     *)
(* gateways and services and for one link or two (MAX_HFP_CONNECTIONS).    *)
(***************************************************************************)
EXTENDS HfpLinkProperties, LeastElement

LinkRecord ==
  [slc : SlcState, dev : Device \cup {None}, sink : Channel \cup {None},
   loss : {"none", "recovery", "abort", "timeout"},
   prio : {"invalid", "primary", "secondary"},
   svc : Service \cup {None}, owns : BOOLEAN, retry : BOOLEAN]

(* The links by themselves: what hfpLinkSetup and hfpLinkReset maintain.   *)
Idles(ls) == \A l \in Link : ls[l].slc = "idle" => ls[l] = NoLink

Uses(ls) == \A l \in Link : ls[l].slc # "idle" =>
              ls[l].dev \in Device /\ ls[l].svc \in Service /\ ls[l].prio # "invalid"

Apart(ls) == \A k, l \in Link : k # l /\ ls[k].slc # "idle" /\ ls[l].slc # "idle" =>
               ls[k].dev # ls[l].dev /\ ls[k].prio # ls[l].prio

Ranked(ls) == \A l \in Link : ls[l].prio = "secondary" => \E k \in Link : ls[k].prio = "primary"

LinksOK(ls) ==
  /\ ls \in [Link -> LinkRecord] /\ Idles(ls) /\ Uses(ls) /\ Apart(ls) /\ Ranked(ls)

LEMMA NoLinkType == NoLink \in LinkRecord
BY DEF NoLink, LinkRecord, SlcState

LEMMA LinkFacts ==
  /\ Link \subseteq Nat /\ Null \notin Link /\ Link # {}
  /\ \A k, l, m \in Link : k = l \/ k = m \/ l = m
<1>1. CASE NumLinks = 1
  <2>1. Link = {0}
    BY <1>1 DEF Link
  <2> QED BY <1>1, <2>1 DEF Null
<1>2. CASE NumLinks = 2
  <2>1. Link = {0, 1}
    BY <1>2 DEF Link
  <2> QED BY <1>2, <2>1 DEF Null
<1> QED BY <1>1, <1>2, LinksAssumption

(***************************************************************************)
(* Finding a link.                                                         *)
(***************************************************************************)
(* hfpGetLinkFromBdaddr: the link of the device, if it has one. *)
LEMMA LinkOfDevice ==
  ASSUME NEW d
  PROVE  \/ /\ hfpGetLinkFromBdaddr(d) = Null
            /\ \A l \in Link : links[l].slc # "idle" => links[l].dev # d
         \/ /\ hfpGetLinkFromBdaddr(d) \in Link
            /\ links[hfpGetLinkFromBdaddr(d)].slc # "idle"
            /\ links[hfpGetLinkFromBdaddr(d)].dev = d
<1> DEFINE P(l) == links[l].slc # "idle" /\ links[l].dev = d
           T == {l \in Link : P(l)}
           IsFirst(l) == P(l) /\ \A k \in Link : k < l => ~P(k)
           r == hfpGetLinkFromBdaddr(d)
<1>1. r = IF \E l \in Link : P(l) THEN CHOOSE l \in Link : IsFirst(l) ELSE Null
  BY DEF hfpGetLinkFromBdaddr, First
<1> HIDE DEF r
<1>2. CASE \E l \in Link : P(l)
  <2>1. T # {} /\ T \subseteq Nat
    BY <1>2, LinkFacts
  <2>2. PICK l \in T : \A m \in T : l <= m
    <3> HIDE DEF T
    <3> QED BY <2>1, LeastNatural
  <2>3. l \in Link /\ IsFirst(l)
    BY <2>2, LinkFacts
  <2>4. r \in Link /\ IsFirst(r)
    <3> HIDE DEF IsFirst, P
    <3> QED BY <2>3, <1>1, <1>2
  <2> QED BY <2>4 DEF r
<1>3. CASE ~ \E l \in Link : P(l)
  BY <1>1, <1>3 DEF r
<1> QED BY <1>2, <1>3

LEMMA IdleLink ==
  \/ hfpGetIdleLink = Null
  \/ hfpGetIdleLink \in Link /\ links[hfpGetIdleLink].slc = "idle"
<1> DEFINE P(l) == links[l].slc = "idle" /\ links[l].loss # "recovery"
           T == {l \in Link : P(l)}
           IsFirst(l) == P(l) /\ \A k \in Link : k < l => ~P(k)
           r == hfpGetIdleLink
<1>1. r = IF \E l \in Link : P(l) THEN CHOOSE l \in Link : IsFirst(l) ELSE Null
  BY DEF hfpGetIdleLink, First
<1> HIDE DEF r
<1>2. CASE \E l \in Link : P(l)
  <2>1. T # {} /\ T \subseteq Nat
    BY <1>2, LinkFacts
  <2>2. PICK l \in T : \A m \in T : l <= m
    <3> HIDE DEF T
    <3> QED BY <2>1, LeastNatural
  <2>3. l \in Link /\ IsFirst(l)
    BY <2>2, LinkFacts
  <2>4. r \in Link /\ IsFirst(r)
    <3> HIDE DEF IsFirst, P
    <3> QED BY <2>3, <1>1, <1>2
  <2> QED BY <2>4 DEF r
<1>3. CASE ~ \E l \in Link : P(l)
  BY <1>1, <1>3 DEF r
<1> QED BY <1>2, <1>3

(* hfpGetLinkFromSink: null only if no link matches. *)
LEMMA LinkOfSink ==
  ASSUME NEW c
  PROVE  LET match(l) == \/ links[l].slc = "searching" /\ links[l].dev = c[1]
                         \/ links[l].slc \notin {"idle", "searching"} /\ links[l].sink = c
         IN  \/ /\ hfpGetLinkFromSink(c) = Null
                /\ \A l \in Link : ~ match(l)
             \/ hfpGetLinkFromSink(c) \in Link /\ match(hfpGetLinkFromSink(c))
<1> DEFINE P(l) == \/ links[l].slc = "searching" /\ links[l].dev = c[1]
                   \/ links[l].slc \notin {"idle", "searching"} /\ links[l].sink = c
           T == {l \in Link : P(l)}
           IsFirst(l) == P(l) /\ \A k \in Link : k < l => ~P(k)
           r == hfpGetLinkFromSink(c)
<1>1. r = IF \E l \in Link : P(l) THEN CHOOSE l \in Link : IsFirst(l) ELSE Null
  BY DEF hfpGetLinkFromSink, First
<1> HIDE DEF r
<1>2. CASE \E l \in Link : P(l)
  <2>1. T # {} /\ T \subseteq Nat
    BY <1>2, LinkFacts
  <2>2. PICK l \in T : \A m \in T : l <= m
    <3> HIDE DEF T
    <3> QED BY <2>1, LeastNatural
  <2>3. l \in Link /\ IsFirst(l)
    <3>1. \A k \in Link : k < l => k \notin T
      BY <2>1, <2>2, LinkFacts
    <3> QED BY <3>1, <2>2
  <2>4. r \in Link /\ IsFirst(r)
    <3> HIDE DEF IsFirst, P
    <3> QED BY <2>3, <1>1, <1>2
  <2> QED BY <2>4 DEF r
<1>3. CASE ~ \E l \in Link : P(l)
  BY <1>1, <1>3 DEF r
<1> QED BY <1>2, <1>3

(***************************************************************************)
(* What becomes of the links.                                              *)
(***************************************************************************)
LEMMA ResetLinks ==
  ASSUME NEW ls, LinksOK(ls), NEW l \in Link
  PROVE  /\ LinksOK(Reset(ls, l)) /\ Reset(ls, l)[l] = NoLink
         /\ \A k \in Link : k # l =>
              /\ Reset(ls, l)[k].slc = ls[k].slc /\ Reset(ls, l)[k].dev = ls[k].dev
              /\ Reset(ls, l)[k].sink = ls[k].sink /\ Reset(ls, l)[k].loss = ls[k].loss
              /\ Reset(ls, l)[k].svc = ls[k].svc /\ Reset(ls, l)[k].owns = ls[k].owns
              /\ Reset(ls, l)[k].retry = ls[k].retry
<1> DEFINE new == Reset(ls, l)
           Promoted(k) == [ls[k] EXCEPT !.prio = "primary"]
<1>1. /\ ls \in [Link -> LinkRecord] /\ Idles(ls) /\ Uses(ls) /\ Apart(ls) /\ Ranked(ls)
  BY DEF LinksOK
<1>2. /\ DOMAIN new = Link /\ new = [k \in Link |-> new[k]] /\ new[l] = NoLink
      /\ \A k \in Link : k # l => /\ ls[k].prio = "secondary" => new[k] = Promoted(k)
                                  /\ ls[k].prio # "secondary" => new[k] = ls[k]
  BY DEF Reset
<1> HIDE DEF new
<1>3. \A k \in Link : k # l =>
        /\ new[k] \in LinkRecord
        /\ new[k].slc = ls[k].slc /\ new[k].dev = ls[k].dev
        /\ new[k].sink = ls[k].sink /\ new[k].loss = ls[k].loss
        /\ new[k].svc = ls[k].svc /\ new[k].owns = ls[k].owns
        /\ new[k].retry = ls[k].retry
        /\ new[k].prio = IF ls[k].prio = "secondary" THEN "primary" ELSE ls[k].prio
  BY <1>1, <1>2 DEF LinkRecord
<1>4. new \in [Link -> LinkRecord]
  BY <1>2, <1>3, NoLinkType
<1>5. Idles(new)
  BY <1>1, <1>2, <1>3 DEF Idles, NoLink
<1>6. Uses(new)
  BY <1>1, <1>2, <1>3 DEF Uses, NoLink
<1>7. Apart(new)
  <2> SUFFICES ASSUME NEW k \in Link, NEW m \in Link, k # m,
                      new[k].slc # "idle", new[m].slc # "idle"
               PROVE  FALSE
    BY DEF Apart
  <2>1. k = l \/ m = l
    BY LinkFacts
  <2> QED BY <2>1, <1>2 DEF NoLink
<1>8. Ranked(new)
  <2>1. \A k \in Link : new[k].prio # "secondary"
    BY <1>2, <1>3 DEF NoLink
  <2> QED BY <2>1 DEF Ranked
<1> QED BY <1>2, <1>3, <1>4, <1>5, <1>6, <1>7, <1>8 DEF LinksOK, new

(* A link in use keeps its device and its priority. *)
LEMMA UpdateLinks ==
  ASSUME NEW ls, LinksOK(ls), NEW l \in Link, ls[l].slc # "idle",
         NEW r \in LinkRecord, r.slc # "idle", r.dev = ls[l].dev, r.prio = ls[l].prio,
         r.svc \in Service
  PROVE  LinksOK([ls EXCEPT ![l] = r])
<1> DEFINE new == [ls EXCEPT ![l] = r]
<1>1. /\ ls \in [Link -> LinkRecord] /\ Idles(ls) /\ Uses(ls) /\ Apart(ls) /\ Ranked(ls)
  BY DEF LinksOK
<1>2. new \in [Link -> LinkRecord] /\ new[l] = r /\ \A k \in Link : k # l => new[k] = ls[k]
  BY <1>1
<1> HIDE DEF new
<1>3. Idles(new) /\ Uses(new)
  BY <1>1, <1>2 DEF Idles, Uses
<1>4. Apart(new)
  BY <1>1, <1>2 DEF Apart
<1>5. Ranked(new)
  BY <1>1, <1>2 DEF Ranked
<1> QED BY <1>2, <1>3, <1>4, <1>5 DEF LinksOK, new

(* The fields of a link that tell what becomes of it, and those of the     *)
(* links that a step leaves alone (a reset may promote them).              *)
Fields(r, slc, dev, sink, loss, svc, owns) ==
  /\ r.slc = slc /\ r.dev = dev /\ r.sink = sink /\ r.loss = loss
  /\ r.svc = svc /\ (r.owns <=> owns)

Kept(new, old, l) ==
  \A k \in Link : k # l =>
    /\ new[k].slc = old[k].slc /\ new[k].dev = old[k].dev /\ new[k].sink = old[k].sink
    /\ new[k].loss = old[k].loss /\ new[k].svc = old[k].svc /\ (new[k].owns <=> old[k].owns)

(* hfpLinkSetup, of an idle link for a device that has no link, or of the  *)
(* link of the device. The link may have been changed before (ls), but not *)
(* its priority.                                                           *)
Others(ls, base, l) == \A k \in Link : k # l => ls[k] = base[k]

NoOther(ls, l, d) == \A k \in Link : k # l /\ ls[k].slc # "idle" => ls[k].dev # d

SetUp(r, old, s, d, sink, slc) ==
  /\ r.svc = s /\ r.dev = d /\ r.sink = sink /\ r.slc = slc
  /\ r.owns <=> old.owns \/ slc = "incoming"
  /\ r.loss = old.loss /\ r.retry = old.retry

LEMMA SetupLinks ==
  ASSUME NEW base, LinksOK(base), NEW l \in Link, NEW s \in Service, NEW d \in Device,
         NEW sink \in Channel \cup {None}, NEW slc \in SlcState \ {"idle"},
         NoOther(base, l, d),
         NEW ls \in [Link -> LinkRecord], ls[l].prio = base[l].prio, Others(ls, base, l),
         NEW new, new = Setup(ls, l, s, d, sink, slc)
  PROVE  LinksOK(new) /\ Others(new, base, l) /\ SetUp(new[l], ls[l], s, d, sink, slc)
<1> USE DEF Others, NoOther
<1> DEFINE r == [ls[l] EXCEPT !.prio = NewPriority(ls, l), !.svc = s, !.dev = d,
                              !.sink = sink, !.slc = slc, !.owns = ls[l].owns \/ slc = "incoming"]
<1>1. /\ base \in [Link -> LinkRecord] /\ Idles(base) /\ Uses(base) /\ Apart(base) /\ Ranked(base)
  BY DEF LinksOK
<1>2. NewPriority(ls, l) \in {"primary", "secondary"}
  <2>1. ls[l].prio \in {"invalid", "primary", "secondary"}
    BY DEF LinkRecord
  <2> QED BY <2>1 DEF NewPriority
<1>3. /\ r \in LinkRecord /\ r.slc = slc /\ r.dev = d /\ r.svc = s /\ r.prio = NewPriority(ls, l)
      /\ SetUp(r, ls[l], s, d, sink, slc)
  <2>1. ls[l] \in LinkRecord
    OBVIOUS
  <2>2. r \in LinkRecord /\ r.slc = slc /\ r.dev = d /\ r.svc = s /\ r.prio = NewPriority(ls, l)
    BY <1>2, <2>1 DEF LinkRecord
  <2>3. r.sink = sink /\ r.loss = ls[l].loss /\ r.retry = ls[l].retry
    BY <2>1 DEF LinkRecord
  <2>4. r.owns <=> ls[l].owns \/ slc = "incoming"
    BY <2>1 DEF LinkRecord
  <2> QED BY <2>2, <2>3, <2>4 DEF SetUp
<1>4. new = [ls EXCEPT ![l] = r]
  BY DEF Setup
<1> HIDE DEF r
<1>5. new \in [Link -> LinkRecord] /\ new[l] = r /\ \A k \in Link : k # l => new[k] = base[k]
  BY <1>3, <1>4
<1>6. SUFFICES LinksOK(new)
  BY <1>3, <1>5
<1>7. Idles(new) /\ Uses(new)
  BY <1>1, <1>2, <1>3, <1>5 DEF Idles, Uses
<1>8. SUFFICES /\ \A k \in Link : k # l /\ base[k].slc # "idle" => base[k].prio # r.prio
               /\ Ranked(new)
  <2>1. Apart(new)
    <3> SUFFICES ASSUME NEW k \in Link, k # l, base[k].slc # "idle"
                 PROVE  base[k].dev # r.dev /\ base[k].prio # r.prio
      BY <1>5, LinkFacts DEF Apart
    <3> QED BY <1>3, <1>8
  <2> QED BY <1>5, <1>7, <1>8, <2>1 DEF LinksOK
<1>9. CASE base[l].slc # "idle"
  <2>1. base[l].prio # "invalid"
    BY <1>1, <1>9 DEF Uses
  <2>2. r.prio = base[l].prio
    BY <2>1, <1>3 DEF NewPriority
  <2> QED BY <2>2, <1>1, <1>5, <1>9 DEF Apart, Ranked
<1>10. CASE base[l].slc = "idle"
  <2>1. ls[l].prio = "invalid" /\ base[l].prio = "invalid"
    BY <1>1, <1>10 DEF Idles, NoLink
  <2>2. ASSUME NEW k \in Link, k # l, base[k].slc # "idle"
        PROVE  base[k].prio = "primary" /\ r.prio = "secondary"
    <3>1. base[k].prio \in {"primary", "secondary"}
      BY <2>2, <1>1 DEF Uses, LinkRecord
    <3>2. base[k].prio # "secondary"
      BY <2>1, <2>2, <1>1, LinkFacts DEF Ranked
    <3>3. \E j \in Link : ls[j].prio = "primary"
      BY <3>1, <3>2, <2>2
    <3> QED BY <2>1, <3>1, <3>2, <3>3, <1>3 DEF NewPriority
  <2>3. Ranked(new)
    <3>1. CASE \E k \in Link : ls[k].prio = "primary"
      BY <3>1, <2>1, <1>5 DEF Ranked
    <3>2. CASE ~ \E k \in Link : ls[k].prio = "primary"
      <4>1. r.prio = "primary"
        BY <3>2, <2>1, <1>3 DEF NewPriority
      <4> QED BY <4>1, <1>5 DEF Ranked
    <3> QED BY <3>1, <3>2
  <2> QED BY <2>2, <2>3
<1> QED BY <1>9, <1>10

(* HfpSlcConnectRequest on an idle link. *)
LEMMA RequestLinks ==
  ASSUME LinksOK(links), NEW l \in Link, NEW d \in Device, NEW s \in Service, NEW two \in BOOLEAN,
         links[l].slc = "idle", NoOther(links, l, d),
         NEW new, new = Setup([links EXCEPT ![l].retry = two], l, s, d, None, "searching")
  PROVE  /\ LinksOK(new) /\ Kept(new, links, l)
         /\ Fields(new[l], "searching", d, None, "none", s, FALSE)
<1> DEFINE ls == [links EXCEPT ![l].retry = two]
<1>1. links \in [Link -> LinkRecord] /\ links[l] = NoLink
  BY DEF LinksOK, Idles
<1>2. /\ ls \in [Link -> LinkRecord] /\ Others(ls, links, l)
      /\ ls[l].prio = links[l].prio /\ ls[l].loss = "none" /\ ~ ls[l].owns
  <2> DEFINE r == [NoLink EXCEPT !.retry = two]
  <2>1. ls = [links EXCEPT ![l] = r]
    BY <1>1
  <2>2. r \in LinkRecord /\ r.prio = NoLink.prio /\ r.loss = "none" /\ r.owns = FALSE
    BY NoLinkType DEF LinkRecord, NoLink
  <2> HIDE DEF r, ls
  <2> QED BY <1>1, <2>1, <2>2 DEF Others
<1>3. "searching" \in SlcState \ {"idle"} /\ None \in Channel \cup {None}
  BY DEF SlcState
<1> HIDE DEF ls
<1>4. new = Setup(ls, l, s, d, None, "searching")
  BY DEF ls
<1>5. /\ LinksOK(new) /\ Others(new, links, l)
      /\ SetUp(new[l], ls[l], s, d, None, "searching")
  BY <1>2, <1>3, <1>4, SetupLinks
<1> QED BY <1>2, <1>5 DEF SetUp, Fields, Others, Kept

(* The next attempt of a recovery, of a link that may have been marked     *)
(* lost before (ls).                                                       *)
LEMMA RecoveryLinks ==
  ASSUME LinksOK(links), NEW l \in Link, links[l].slc # "idle",
         NEW ls \in [Link -> LinkRecord], Others(ls, links, l),
         NEW fresh, fresh = [NoLink EXCEPT !.loss = "recovery", !.prio = links[l].prio],
         NEW new, new = Setup([ls EXCEPT ![l] = fresh], l, links[l].svc, links[l].dev, None, "searching")
  PROVE  /\ LinksOK(new) /\ Others(new, links, l)
         /\ Fields(new[l], "searching", links[l].dev, None, "recovery", links[l].svc, FALSE)
<1> DEFINE at == [ls EXCEPT ![l] = fresh]
           s == links[l].svc
           d == links[l].dev
<1>1. links \in [Link -> LinkRecord] /\ d \in Device /\ s \in Service
  BY DEF LinksOK, Uses
<1>2. /\ fresh \in LinkRecord /\ fresh.prio = links[l].prio /\ fresh.loss = "recovery"
      /\ ~ fresh.owns
  BY <1>1, NoLinkType DEF NoLink, LinkRecord
<1>3. at \in [Link -> LinkRecord] /\ Others(at, links, l) /\ at[l] = fresh
  BY <1>1, <1>2 DEF Others
<1>4. "searching" \in SlcState \ {"idle"} /\ None \in Channel \cup {None}
  BY DEF SlcState
<1>5. NoOther(links, l, d)
  BY DEF LinksOK, Apart, NoOther
<1>6. new = Setup(at, l, s, d, None, "searching")
  OBVIOUS
<1> HIDE DEF at, s, d
<1>7. LinksOK(new) /\ Others(new, links, l) /\ SetUp(new[l], at[l], s, d, None, "searching")
  BY <1>1, <1>2, <1>3, <1>4, <1>5, <1>6, SetupLinks
<1> QED BY <1>2, <1>3, <1>7 DEF SetUp, Fields, s, d

LEMMA AcceptLinks ==
  ASSUME LinksOK(links), NEW l \in Link, NEW d \in Device, NEW s \in Service,
         NoOther(links, l, d),
         NEW new, new = Setup(links, l, s, d, <<d, "in">>, "incoming")
  PROVE  /\ LinksOK(new) /\ Kept(new, links, l)
         /\ Fields(new[l], "incoming", d, <<d, "in">>, links[l].loss, s, TRUE)
<1> DEFINE c == <<d, "in">>
<1>1. "incoming" \in SlcState \ {"idle"} /\ c \in Channel \cup {None}
  BY DEF SlcState, Channel
<1>2. links \in [Link -> LinkRecord] /\ Others(links, links, l)
  BY DEF LinksOK, Others
<1> HIDE DEF c
<1>3. new = Setup(links, l, s, d, c, "incoming")
  BY DEF c
<1>4. LinksOK(new) /\ Others(new, links, l) /\ SetUp(new[l], links[l], s, d, c, "incoming")
  BY <1>1, <1>2, <1>3, SetupLinks
<1> QED BY <1>4 DEF SetUp, Fields, Others, Kept, c

(* The outgoing attempt is given up in favour of the call. *)
LEMMA CrossoverLinks ==
  ASSUME LinksOK(links), NEW l \in Link, NEW d \in Device, NEW s \in Service,
         NoOther(links, l, d),
         NEW new, new = Setup(Reset(links, l), l, s, d, <<d, "in">>, "incoming")
  PROVE  /\ LinksOK(new) /\ Kept(new, links, l)
         /\ Fields(new[l], "incoming", d, <<d, "in">>, "none", s, TRUE)
<1> DEFINE base == Reset(links, l)
           c == <<d, "in">>
<1>1. LinksOK(base) /\ base[l] = NoLink /\ Kept(base, links, l)
  BY ResetLinks DEF Kept
<1>2. "incoming" \in SlcState \ {"idle"} /\ c \in Channel \cup {None}
  BY DEF SlcState, Channel
<1>3. new = Setup(base, l, s, d, c, "incoming")
  OBVIOUS
<1> HIDE DEF base, c
<1>4. base \in [Link -> LinkRecord] /\ base[l].loss = "none" /\ Others(base, base, l)
  BY <1>1 DEF LinksOK, NoLink, Others
<1>5. NoOther(base, l, d)
  BY <1>1 DEF NoOther, Kept
<1>6. LinksOK(new) /\ Others(new, base, l) /\ SetUp(new[l], base[l], s, d, c, "incoming")
  BY <1>1, <1>2, <1>3, <1>4, <1>5, SetupLinks
<1> QED BY <1>1, <1>4, <1>6 DEF c, SetUp, Fields, Others, Kept

(* A field or two of a link in use change. *)
Changed(new, l, r) == new = [links EXCEPT ![l] = r]

LEMMA ChangeLink ==
  ASSUME LinksOK(links), NEW l \in Link, links[l].slc # "idle",
         NEW r \in LinkRecord, r.slc # "idle", r.dev = links[l].dev, r.prio = links[l].prio,
         r.svc = links[l].svc, NEW new, Changed(new, l, r)
  PROVE  LinksOK(new) /\ new[l] = r /\ Kept(new, links, l) /\ Others(new, links, l)
<1>1. links \in [Link -> LinkRecord] /\ links[l].svc \in Service
  BY DEF LinksOK, Uses
<1>2. LinksOK(new)
  BY <1>1, UpdateLinks DEF Changed
<1>3. new[l] = r /\ \A k \in Link : k # l => new[k] = links[k]
  BY <1>1 DEF Changed
<1> QED BY <1>2, <1>3 DEF Kept, Others

LEMMA LossLinks ==
  ASSUME LinksOK(links), NEW l \in Link, links[l].slc # "idle",
         NEW v \in {"none", "recovery", "abort", "timeout"},
         NEW new, new = [links EXCEPT ![l].loss = v]
  PROVE  /\ LinksOK(new) /\ Kept(new, links, l) /\ Others(new, links, l)
         /\ new[l].prio = links[l].prio
         /\ Fields(new[l], links[l].slc, links[l].dev, links[l].sink, v, links[l].svc, links[l].owns)
<1> DEFINE r == [links[l] EXCEPT !.loss = v]
<1>1. links \in [Link -> LinkRecord] /\ links[l] \in LinkRecord
  BY DEF LinksOK
<1>2. r \in LinkRecord /\ r.prio = links[l].prio
  BY <1>1 DEF LinkRecord
<1>3. Fields(r, links[l].slc, links[l].dev, links[l].sink, v, links[l].svc, links[l].owns)
  BY <1>1 DEF LinkRecord, Fields
<1>4. Changed(new, l, r)
  BY <1>1 DEF Changed
<1>5. r.slc # "idle" /\ r.dev = links[l].dev /\ r.svc = links[l].svc
  BY <1>3 DEF Fields
<1> HIDE DEF r
<1>6. LinksOK(new) /\ new[l] = r /\ Kept(new, links, l) /\ Others(new, links, l)
  BY <1>2, <1>4, <1>5, ChangeLink
<1> QED BY <1>2, <1>3, <1>6

(* The search for the other profile. *)
LEMMA RetryLinks ==
  ASSUME LinksOK(links), NEW l \in Link, links[l].slc # "idle", NEW d \in Device,
         d = links[l].dev, NEW s \in Service,
         NEW new, new = Setup([links EXCEPT ![l].retry = FALSE], l, s, d, None, "searching")
  PROVE  /\ LinksOK(new) /\ Kept(new, links, l)
         /\ Fields(new[l], "searching", d, None, links[l].loss, s, links[l].owns)
<1> DEFINE ls == [links EXCEPT ![l].retry = FALSE]
<1>1. links \in [Link -> LinkRecord] /\ links[l] \in LinkRecord
  BY DEF LinksOK
<1>2. /\ ls \in [Link -> LinkRecord] /\ Others(ls, links, l)
      /\ ls[l].prio = links[l].prio /\ ls[l].loss = links[l].loss /\ ls[l].owns = links[l].owns
  <2> DEFINE r == [links[l] EXCEPT !.retry = FALSE]
  <2>1. ls = [links EXCEPT ![l] = r]
    BY <1>1
  <2>2. /\ r \in LinkRecord /\ r.prio = links[l].prio /\ r.loss = links[l].loss
        /\ r.owns = links[l].owns
    BY <1>1 DEF LinkRecord
  <2> HIDE DEF r, ls
  <2> QED BY <1>1, <2>1, <2>2 DEF Others
<1>3. "searching" \in SlcState \ {"idle"} /\ None \in Channel \cup {None}
  BY DEF SlcState
<1>4. NoOther(links, l, d)
  BY DEF LinksOK, Apart, NoOther
<1> HIDE DEF ls
<1>5. new = Setup(ls, l, s, d, None, "searching")
  BY DEF ls
<1>6. /\ LinksOK(new) /\ Others(new, links, l)
      /\ SetUp(new[l], ls[l], s, d, None, "searching")
  BY <1>2, <1>3, <1>4, <1>5, SetupLinks
<1> QED BY <1>1, <1>2, <1>6 DEF SetUp, Fields, Others, Kept, LinkRecord

LEMMA FoundLinks ==
  ASSUME LinksOK(links), NEW l \in Link, links[l].slc # "idle",
         NEW new, new = [links EXCEPT ![l].slc = "outgoing", ![l].retry = FALSE]
  PROVE  /\ LinksOK(new) /\ Kept(new, links, l)
         /\ Fields(new[l], "outgoing", links[l].dev, links[l].sink, links[l].loss,
                   links[l].svc, links[l].owns)
<1> DEFINE r == [links[l] EXCEPT !.slc = "outgoing", !.retry = FALSE]
<1>1. links \in [Link -> LinkRecord] /\ links[l] \in LinkRecord
  BY DEF LinksOK
<1>2. r \in LinkRecord /\ r.prio = links[l].prio
  BY <1>1 DEF LinkRecord, SlcState
<1>3. Fields(r, "outgoing", links[l].dev, links[l].sink, links[l].loss, links[l].svc, links[l].owns)
  BY <1>1 DEF LinkRecord, Fields
<1>4. Changed(new, l, r)
  BY <1>1 DEF Changed
<1>5. r.slc # "idle" /\ r.dev = links[l].dev /\ r.svc = links[l].svc
  BY <1>3 DEF Fields
<1> HIDE DEF r
<1>6. LinksOK(new) /\ new[l] = r /\ Kept(new, links, l)
  BY <1>2, <1>4, <1>5, ChangeLink
<1> QED BY <1>3, <1>6

LEMMA SinkLinks ==
  ASSUME LinksOK(links), NEW l \in Link, links[l].slc # "idle", NEW c \in Channel,
         NEW new, new = [links EXCEPT ![l].sink = c]
  PROVE  /\ LinksOK(new) /\ Kept(new, links, l)
         /\ Fields(new[l], links[l].slc, links[l].dev, c, links[l].loss, links[l].svc, links[l].owns)
<1> DEFINE r == [links[l] EXCEPT !.sink = c]
<1>1. links \in [Link -> LinkRecord] /\ links[l] \in LinkRecord
  BY DEF LinksOK
<1>2. r \in LinkRecord /\ r.prio = links[l].prio
  BY <1>1 DEF LinkRecord
<1>3. Fields(r, links[l].slc, links[l].dev, c, links[l].loss, links[l].svc, links[l].owns)
  BY <1>1 DEF LinkRecord, Fields
<1>4. Changed(new, l, r)
  BY <1>1 DEF Changed
<1>5. r.slc # "idle" /\ r.dev = links[l].dev /\ r.svc = links[l].svc
  BY <1>3 DEF Fields
<1> HIDE DEF r
<1>6. LinksOK(new) /\ new[l] = r /\ Kept(new, links, l)
  BY <1>2, <1>4, <1>5, ChangeLink
<1> QED BY <1>3, <1>6

LEMMA OpenLinks ==
  ASSUME LinksOK(links), NEW l \in Link, links[l].slc # "idle",
         NEW new, new = [links EXCEPT ![l].slc = "connected"]
  PROVE  /\ LinksOK(new) /\ Kept(new, links, l)
         /\ Fields(new[l], "connected", links[l].dev, links[l].sink, links[l].loss,
                   links[l].svc, links[l].owns)
<1> DEFINE r == [links[l] EXCEPT !.slc = "connected"]
<1>1. links \in [Link -> LinkRecord] /\ links[l] \in LinkRecord
  BY DEF LinksOK
<1>2. r \in LinkRecord /\ r.prio = links[l].prio
  BY <1>1 DEF LinkRecord, SlcState
<1>3. Fields(r, "connected", links[l].dev, links[l].sink, links[l].loss, links[l].svc, links[l].owns)
  BY <1>1 DEF LinkRecord, Fields
<1>4. Changed(new, l, r)
  BY <1>1 DEF Changed
<1>5. r.slc # "idle" /\ r.dev = links[l].dev /\ r.svc = links[l].svc
  BY <1>3 DEF Fields
<1> HIDE DEF r
<1>6. LinksOK(new) /\ new[l] = r /\ Kept(new, links, l)
  BY <1>2, <1>4, <1>5, ChangeLink
<1> QED BY <1>3, <1>6

LEMMA CompleteLinks ==
  ASSUME LinksOK(links), NEW l \in Link, links[l].slc # "idle",
         NEW new, new = [links EXCEPT ![l].slc = "complete", ![l].loss = "none"]
  PROVE  /\ LinksOK(new) /\ Kept(new, links, l)
         /\ Fields(new[l], "complete", links[l].dev, links[l].sink, "none",
                   links[l].svc, links[l].owns)
<1> DEFINE r == [links[l] EXCEPT !.slc = "complete", !.loss = "none"]
<1>1. links \in [Link -> LinkRecord] /\ links[l] \in LinkRecord
  BY DEF LinksOK
<1>2. r \in LinkRecord /\ r.prio = links[l].prio
  BY <1>1 DEF LinkRecord, SlcState
<1>3. Fields(r, "complete", links[l].dev, links[l].sink, "none", links[l].svc, links[l].owns)
  BY <1>1 DEF LinkRecord, Fields
<1>4. Changed(new, l, r)
  BY <1>1 DEF Changed
<1>5. r.slc # "idle" /\ r.dev = links[l].dev /\ r.svc = links[l].svc
  BY <1>3 DEF Fields
<1> HIDE DEF r
<1>6. LinksOK(new) /\ new[l] = r /\ Kept(new, links, l)
  BY <1>2, <1>4, <1>5, ChangeLink
<1> QED BY <1>3, <1>6

(* hfpHandleRfcommLinkLossReconnect, between two attempts or on the loss   *)
(* of a link.                                                              *)
LEMMA ReconnectLinks ==
  ASSUME LinksOK(links), NEW l \in Link, links[l].slc # "idle",
         NEW ls, ls = links \/ ls = [links EXCEPT ![l].loss = "recovery"],
         LinkLossReconnect(ls, l)
  PROVE  /\ LinksOK(links') /\ Kept(links', links, l)
         /\ IF ls[l].loss = "recovery"
            THEN Fields(links'[l], "searching", links[l].dev, None, "recovery", links[l].svc, FALSE)
            ELSE links'[l] = NoLink
<1>1. /\ ls \in [Link -> LinkRecord] /\ Others(ls, links, l)
      /\ ls[l].prio = links[l].prio /\ ls[l].svc = links[l].svc /\ ls[l].dev = links[l].dev
  <2>1. CASE ls = links
    BY <2>1 DEF LinksOK, Others
  <2>2. CASE ls = [links EXCEPT ![l].loss = "recovery"]
    <3>1. /\ LinksOK(ls) /\ Others(ls, links, l) /\ ls[l].prio = links[l].prio
          /\ Fields(ls[l], links[l].slc, links[l].dev, links[l].sink, "recovery",
                    links[l].svc, links[l].owns)
      BY <2>2, LossLinks
    <3> QED BY <3>1 DEF Fields, LinksOK
  <2> QED BY <2>1, <2>2
<1>2. CASE ls[l].loss = "recovery"
  <2> DEFINE fresh == [NoLink EXCEPT !.loss = "recovery", !.prio = links[l].prio]
  <2>1. links' = Setup([ls EXCEPT ![l] = fresh], l, links[l].svc, links[l].dev, None, "searching")
    BY <1>1, <1>2 DEF LinkLossReconnect, hfpGetProfileServerChannel
  <2> HIDE DEF fresh
  <2>2. fresh = [NoLink EXCEPT !.loss = "recovery", !.prio = links[l].prio]
    BY DEF fresh
  <2>3. /\ LinksOK(links') /\ Others(links', links, l)
        /\ Fields(links'[l], "searching", links[l].dev, None, "recovery", links[l].svc, FALSE)
    BY <1>1, <2>1, <2>2, RecoveryLinks
  <2> QED BY <1>2, <2>3 DEF Kept, Others
<1>3. CASE ls[l].loss # "recovery"
  <2>1. ls = links
    <3>1. CASE ls = [links EXCEPT ![l].loss = "recovery"]
      <4>1. Fields(ls[l], links[l].slc, links[l].dev, links[l].sink, "recovery",
                    links[l].svc, links[l].owns)
        BY <3>1, LossLinks
      <4> QED BY <1>3, <4>1 DEF Fields
    <3> QED BY <3>1
  <2>2. links' = Reset(links, l)
    BY <1>3, <2>1 DEF LinkLossReconnect
  <2> QED BY <1>3, <2>2, ResetLinks DEF Kept
<1> QED BY <1>2, <1>3

LEMMA ForgottenLinks ==
  ASSUME LinksOK(links), NEW l \in Link, links' = Reset(links, l)
  PROVE  LinksOK(links') /\ Kept(links', links, l) /\ links'[l] = NoLink
BY ResetLinks DEF Kept

(***************************************************************************)
(* The steps, as far as the links by themselves are concerned.             *)
(***************************************************************************)
LEMMA FreeForDevice ==
  ASSUME LinksOK(links), NEW d \in Device, NEW l \in Link,
         \/ hfpGetLinkFromBdaddr(d) = Null
         \/ hfpGetLinkFromBdaddr(d) = l
  PROVE  NoOther(links, l, d)
<1>1. CASE hfpGetLinkFromBdaddr(d) = Null
  BY <1>1, LinkOfDevice, LinkFacts DEF NoOther
<1>2. CASE hfpGetLinkFromBdaddr(d) = l
  BY <1>2, LinkOfDevice, LinkFacts DEF NoOther, LinksOK, Apart
<1> QED BY <1>1, <1>2

LEMMA ConnectFailsLinks ==
  ASSUME LinksOK(links), NEW l \in Link, ConnectFails(l)
  PROVE  LinksOK(links')
BY ForgottenLinks DEF ConnectFails

LEMMA ConnectIndLinks ==
  ASSUME LinksOK(links), NEW d \in Device, NEW s \in Service, HandleConnectInd(d, s)
  PROVE  LinksOK(links')
<1> DEFINE l == hfpGetLinkFromBdaddr(d)
           e == hfpGetIdleLink
<1>1. CASE AcceptIdle(d, s)
  <2>1. l = Null /\ e # Null /\ links' = Setup(links, e, s, d, <<d, "in">>, "incoming")
    BY <1>1 DEF AcceptIdle, Accepts
  <2>2. e \in Link
    BY <2>1, IdleLink
  <2>3. NoOther(links, e, d)
    BY <2>1, <2>2, FreeForDevice
  <2> HIDE DEF e
  <2> QED BY <2>1, <2>2, <2>3, AcceptLinks
<1>2. CASE l # Null
  <2>1. l \in Link
    BY <1>2, LinkOfDevice
  <2>2. NoOther(links, l, d)
    BY <2>1, FreeForDevice
  <2>3. CASE links' = Setup(links, l, s, d, <<d, "in">>, "incoming")
    <3> HIDE DEF l
    <3> QED BY <2>1, <2>2, <2>3, AcceptLinks
  <2>4. CASE links' = Setup(Reset(links, l), l, s, d, <<d, "in">>, "incoming")
    <3> HIDE DEF l
    <3> QED BY <2>1, <2>2, <2>4, CrossoverLinks
  <2>5. \/ links' = Setup(links, l, s, d, <<d, "in">>, "incoming")
        \/ links' = Setup(Reset(links, l), l, s, d, <<d, "in">>, "incoming")
        \/ links' = links
    BY <1>2 DEF HandleConnectInd, AcceptIdle, AcceptLost, AcceptCrossover, Delay, Reject, Accepts
  <2> QED BY <2>3, <2>4, <2>5
<1>3. CASE l = Null /\ ~ AcceptIdle(d, s)
  BY <1>3 DEF HandleConnectInd, AcceptLost, AcceptCrossover, Delay, Reject
<1> QED BY <1>1, <1>2, <1>3

LEMMA DisconnectedLinks ==
  ASSUME LinksOK(links), NEW c \in Channel, NEW linkLoss \in BOOLEAN, Disconnected(c, linkLoss)
  PROVE  LinksOK(links')
<1> DEFINE l == hfpGetLinkFromSink(c)
<1>1. CASE l = Null
  BY <1>1 DEF Disconnected, Panics
<1>2. CASE l # Null
  <2>1. l \in Link /\ links[l].slc # "idle"
    BY <1>2, LinkOfSink
  <2>2. LinkLoss(l) \/ DisconnectInd(l) \/ ConnectFails(l)
    BY <1>2 DEF Disconnected
  <2> HIDE DEF l
  <2>3. CASE LinkLoss(l)
    <3> DEFINE ls == [links EXCEPT ![l].loss = "recovery"]
    <3>1. LinkLossReconnect(ls, l)
      BY <2>3 DEF LinkLoss
    <3> HIDE DEF ls
    <3>2. ls = links \/ ls = [links EXCEPT ![l].loss = "recovery"]
      BY DEF ls
    <3> QED BY <2>1, <3>1, <3>2, ReconnectLinks
  <2>4. CASE DisconnectInd(l)
    BY <2>1, <2>4, ForgottenLinks DEF DisconnectInd
  <2>5. CASE ConnectFails(l)
    BY <2>1, <2>5, ConnectFailsLinks
  <2> QED BY <2>2, <2>3, <2>4, <2>5
<1> QED BY <1>1, <1>2

(* hfpSdpRetry, of the link l of a device. *)
Retries(l, d) ==
  /\ links[l].slc = "searching"
  /\ \E s \in Service :
       links' = Setup([links EXCEPT ![l].retry = FALSE], l, s, d, None, "searching")
  /\ UNCHANGED <<busy, reconnect, searches>>

LEMMA RetriesAre ==
  ASSUME NEW d \in Device, NEW noData \in BOOLEAN, SdpFails(d, noData),
         NEW l, l = hfpGetLinkFromBdaddr(d)
  PROVE  \/ l # Null /\ Retries(l, d)
         \/ /\ l # Null /\ links[l].slc = "searching" /\ ConnectFails(l)
            /\ searches' = [searches EXCEPT ![d] = @ - 1]
         \/ /\ ~(l # Null /\ links[l].slc = "searching")
            /\ searches' = [searches EXCEPT ![d] = @ - 1] /\ UNCHANGED <<links, busy, reconnect>>
<1>1. CASE l # Null /\ links[l].slc = "searching" /\ noData /\ Left(l) # {}
  <2>1. /\ \E s \in Left(l) :
             links' = Setup([links EXCEPT ![l].retry = FALSE], l, s, d, None, "searching")
        /\ UNCHANGED <<busy, reconnect, searches>>
    BY <1>1 DEF SdpFails
  <2>2. Left(l) \subseteq Service
    BY DEF Left, FirstOfProfile
  <2> QED BY <1>1, <2>1, <2>2 DEF Retries
<1>2. CASE l # Null /\ links[l].slc = "searching" /\ ~(noData /\ Left(l) # {})
  BY <1>2 DEF SdpFails
<1>3. CASE ~(l # Null /\ links[l].slc = "searching")
  BY <1>3 DEF SdpFails
<1> QED BY <1>1, <1>2, <1>3

LEMMA LinksStep ==
  ASSUME LinksOK(links), [Next]_vars
  PROVE  LinksOK(links')
<1>1. CASE links' = links
  BY <1>1
<1>2. ASSUME NEW d \in Asked, NEW s \in FirstOfProfile, NEW two \in BOOLEAN,
             SlcConnectRequest(d, s, two)
      PROVE  LinksOK(links')
  <2> DEFINE l == hfpGetIdleLink
  <2>1. /\ hfpGetLinkFromBdaddr(d) = Null /\ l # Null /\ d \in Device /\ s \in Service
        /\ links' = Setup([links EXCEPT ![l].retry = two], l, s, d, None, "searching")
    BY <1>2, AskedAssumption DEF SlcConnectRequest, hfpGetProfileServerChannel, FirstOfProfile
  <2>2. l \in Link /\ links[l].slc = "idle"
    BY <2>1, IdleLink
  <2>3. NoOther(links, l, d)
    BY <2>1, <2>2, FreeForDevice
  <2> HIDE DEF l
  <2> QED BY <2>1, <2>2, <2>3, RequestLinks
<1>3. ASSUME NEW l \in Link, HandleReconnect(l)
      PROVE  LinksOK(links')
  <2>1. CASE links[l].slc \in Attempting
    <3>1. LinkLossReconnect(links, l) /\ links[l].slc # "idle"
      BY <1>3, <2>1 DEF HandleReconnect, Attempting
    <3> QED BY <3>1, ReconnectLinks
  <2> QED BY <1>1, <1>3, <2>1 DEF HandleReconnect
<1>4. ASSUME NEW l \in Link, HandleLossTimeout(l)
      PROVE  LinksOK(links')
  <2>1. \/ DisconnectInd(l)
        \/ links[l].slc # "idle" /\ links' = [links EXCEPT ![l].loss = "timeout"]
        \/ links' = links
    BY <1>4 DEF HandleLossTimeout, Attempting
  <2> QED BY <1>1, <2>1, ForgottenLinks, LossLinks DEF DisconnectInd
<1>5. ASSUME NEW l \in Link, AbortRecovery(l)
      PROVE  LinksOK(links')
  <2>1. \/ DisconnectInd(l)
        \/ links[l].slc # "idle" /\ links' = [links EXCEPT ![l].loss = "abort"]
    BY <1>5 DEF AbortRecovery
  <2> QED BY <2>1, ForgottenLinks, LossLinks DEF DisconnectInd
<1>6. ASSUME NEW l \in Link, HandleDisconnectRequest(l)
      PROVE  LinksOK(links')
  <2>1. ConnectFails(l) \/ links' = links
    BY <1>6 DEF HandleDisconnectRequest
  <2> QED BY <1>1, <2>1, ConnectFailsLinks
<1>7. ASSUME NEW l \in Link, AtSetup(l)
      PROVE  LinksOK(links')
  <2>1. \/ links[l].slc # "idle" /\ links' = [links EXCEPT ![l].slc = "complete", ![l].loss = "none"]
        \/ links' = links
    BY <1>7 DEF AtSetup, SetupDone, Completes, SetupFails
  <2> QED BY <1>1, <2>1, CompleteLinks
<1>8. ASSUME NEW d \in Device, SdpFound(d)
      PROVE  LinksOK(links')
  <2> DEFINE l == hfpGetLinkFromBdaddr(d)
  <2>1. \/ links' = links
        \/ /\ l # Null
           /\ links' = [links EXCEPT ![l].slc = "outgoing", ![l].retry = FALSE]
    BY <1>8 DEF SdpFound
  <2>2. l # Null => l \in Link /\ links[l].slc # "idle"
    BY LinkOfDevice
  <2> HIDE DEF l
  <2> QED BY <1>1, <2>1, <2>2, FoundLinks
<1>9. ASSUME NEW d \in Device, NEW noData \in BOOLEAN, SdpFails(d, noData)
      PROVE  LinksOK(links')
  <2> DEFINE l == hfpGetLinkFromBdaddr(d)
  <2>1. \/ links' = links
        \/ l # Null /\ Retries(l, d)
        \/ l # Null /\ ConnectFails(l)
    BY <1>9, RetriesAre
  <2>2. l # Null => l \in Link /\ links[l].slc # "idle" /\ d = links[l].dev
    BY LinkOfDevice
  <2> HIDE DEF l
  <2>3. CASE l # Null /\ ConnectFails(l)
    BY <2>2, <2>3, ConnectFailsLinks
  <2>4. CASE l # Null /\ Retries(l, d)
    BY <2>2, <2>4, RetryLinks DEF Retries
  <2> QED BY <1>1, <2>1, <2>3, <2>4
<1>10. ASSUME NEW d \in Device, OutgoingPending(d)
       PROVE  LinksOK(links')
  <2> DEFINE l == hfpGetLinkFromBdaddr(d)
             c == <<d, "out">>
  <2>1. links' = links \/ (l # Null /\ links' = [links EXCEPT ![l].sink = c])
    BY <1>10 DEF OutgoingPending
  <2>2. l # Null => l \in Link /\ links[l].slc # "idle"
    BY LinkOfDevice
  <2>3. c \in Channel
    BY DEF Channel
  <2> HIDE DEF l, c
  <2> QED BY <1>1, <2>1, <2>2, <2>3, SinkLinks
<1>11. ASSUME NEW c \in Channel, Opening(c)
       PROVE  LinksOK(links')
  <2> DEFINE l == hfpGetLinkFromBdaddr(c[1])
  <2>1. \/ links' = links
        \/ l # Null /\ links' = [links EXCEPT ![l].slc = "connected"]
        \/ l # Null /\ links' = [links EXCEPT ![l].slc = "complete", ![l].loss = "none"]
        \/ l # Null /\ ConnectFails(l)
    BY <1>11 DEF Opening, ChannelOpens, Completes, ChannelFails, Panics
  <2>2. l # Null => l \in Link /\ links[l].slc # "idle"
    BY LinkOfDevice
  <2> HIDE DEF l
  <2>3. CASE l # Null /\ ConnectFails(l)
    BY <2>2, <2>3, ConnectFailsLinks
  <2> QED BY <1>1, <2>1, <2>2, <2>3, OpenLinks, CompleteLinks
<1>12. ASSUME NEW call \in Calls, RemoteConnects(call[1], call[2]) \/ LookAgain(call[1], call[2])
       PROVE  LinksOK(links')
  <2>1. call[1] \in Device /\ call[2] \in Service
    BY ServiceAssumption
  <2>2. HandleConnectInd(call[1], call[2]) \/ links' = links
    BY <1>12 DEF RemoteConnects, LookAgain
  <2> QED BY <1>1, <2>1, <2>2, ConnectIndLinks
<1>13. ASSUME NEW c \in Channel, NEW linkLoss \in BOOLEAN, Disconnected(c, linkLoss)
       PROVE  LinksOK(links')
  BY <1>13, DisconnectedLinks
<1>14. CASE UNCHANGED vars
  BY <1>1, <1>14 DEF vars
<1>15. CASE Client
  BY <1>15, <1>1, <1>2 DEF Client, SlcDisconnectRequest
<1>16. CASE \E l \in Link : Timers(l) \/ Requests(l) \/ AtSetup(l)
  BY <1>16, <1>3, <1>4, <1>5, <1>6, <1>7 DEF Timers, Requests
<1>17. CASE \E d \in Device : Sdp(d) \/ Rfcomm(d) \/ RemoteGivesUp(d)
  <2> PICK d \in Device : Sdp(d) \/ Rfcomm(d) \/ RemoteGivesUp(d)
    BY <1>17
  <2>1. CASE Sdp(d)
    BY <2>1, <1>8, <1>9 DEF Sdp
  <2>2. CASE Rfcomm(d)
    <3>1. CASE OutgoingPending(d)
      BY <3>1, <1>10
    <3>2. CASE \E c \in {d} \X {"out", "in"} : Opening(c) \/ ChannelCloses(c)
      <4>1. PICK c \in Channel : Opening(c) \/ Disconnected(c, FALSE)
        BY <3>2 DEF Channel, ChannelCloses
      <4> QED BY <4>1, <1>11, <1>13
    <3> QED BY <2>2, <3>1, <3>2 DEF Rfcomm
  <2>3. CASE RemoteGivesUp(d)
    BY <2>3, <1>1 DEF RemoteGivesUp
  <2> QED BY <2>1, <2>2, <2>3
<1>18. CASE \E call \in Calls : RemoteConnects(call[1], call[2]) \/ LookAgain(call[1], call[2])
  BY <1>18, <1>12
<1>19. CASE \E c \in Channel, linkLoss \in BOOLEAN : ChannelDrops(c, linkLoss)
  BY <1>19, <1>13 DEF ChannelDrops
<1> QED BY <1>14, <1>15, <1>16, <1>17, <1>18, <1>19 DEF Next

(* The links stay in order whatever the gateways, the client, SDP and      *)
(* RFCOMM do, and even where the model lets a search outlive its attempt   *)
(* (hfpLinkSetup, hfpLinkReset).                                           *)
THEOREM LinksInOrder == Spec => []LinksOK(links)
<1>1. Init => LinksOK(links)
  <2> SUFFICES ASSUME Init PROVE LinksOK(links)
    OBVIOUS
  <2>1. links \in [Link -> LinkRecord] /\ \A l \in Link : links[l] = NoLink
    BY NoLinkType DEF Init
  <2> QED BY <2>1 DEF LinksOK, Idles, Uses, Apart, Ranked, NoLink
<1>2. LinksOK(links) /\ [Next]_vars => LinksOK(links)'
  BY LinksStep
<1> QED BY <1>1, <1>2, PTL DEF Spec

(* A device has at most one link, whoever calls whom and in what order     *)
(* (hfpGetLinkFromBdaddr, HfpSlcConnectRequest, hfpHandleRfcommConnectInd).*)
THEOREM OneLinkForADevice == Spec => []OneLinkPerDevice
<1>1. LinksOK(links) => OneLinkPerDevice
  BY DEF LinksOK, Apart, OneLinkPerDevice, InUse
<1> QED BY <1>1, LinksInOrder, PTL

(* The links in use have different priorities, and a secondary one has a   *)
(* primary one beside it (hfpLinkReset promotes).                          *)
THEOREM PrioritiesStayInOrder == Spec => []PrioritiesInOrder
<1>1. LinksOK(links) => PrioritiesInOrder
  <2> SUFFICES ASSUME LinksOK(links) PROVE PrioritiesInOrder
    OBVIOUS
  <2>1. Idles(links) /\ Uses(links) /\ Apart(links) /\ Ranked(links)
    BY DEF LinksOK
  <2>2. \A l \in Link : InUse(l) = (links[l].prio # "invalid")
    BY <2>1 DEF Idles, Uses, InUse, NoLink
  <2> QED BY <2>1, <2>2 DEF Apart, Ranked, InUse, PrioritiesInOrder
<1> QED BY <1>1, LinksInOrder, PTL

(***************************************************************************)
(* What a link in use has to do with the searches and channels of its      *)
(* device: s searches are under way, o is the state of the outgoing        *)
(* channel and i that of the incoming one; pending tells whether the next  *)
(* attempt of a recovery is due and timer whether its timeout runs.        *)
(***************************************************************************)
Regular == ~LossCrossover /\ ~StaleSearch

ChannelState == {"none", "asked", "offered", "opening", "up", "closing"}

Quiet == {"none", "offered"}

Fits(r, pending, timer, s, o, i) ==
  /\ r.sink \in {None, <<r.dev, "out">>, <<r.dev, "in">>}
  /\ timer => r.loss = "recovery"
  /\ s # 0 => r.slc = "searching" \/ (r.loss = "none" /\ r.slc \in {"incoming", "connected"})
  /\ pending => /\ r.slc \in Attempting /\ r.loss # "none" /\ (r.loss = "recovery" => s = 0)
                /\ o = "none" /\ i \in Quiet /\ (r.sink = <<r.dev, "in">> => i = "none")
  /\ r.slc = "searching" => r.sink = None /\ o = "none" /\ i \in Quiet
  /\ r.slc = "outgoing" => r.sink # <<r.dev, "in">>
  /\ r.slc = "outgoing" /\ ~pending =>
       /\ i \in Quiet
       /\ \/ r.sink = None /\ o = "asked"
          \/ r.sink = <<r.dev, "out">> /\ o \in {"opening", "closing"}
  /\ r.slc = "incoming" /\ ~pending =>
       r.sink = <<r.dev, "in">> /\ i \in {"opening", "closing"} /\ o = "none"
  /\ r.slc \in {"connected", "complete"} => r.sink # None
  /\ r.slc \in {"connected", "complete"} /\ ~pending =>
       \/ r.sink = <<r.dev, "out">> /\ o \in {"up", "closing"} /\ i \in Quiet
       \/ r.sink = <<r.dev, "in">> /\ i \in {"up", "closing"} /\ o = "none"
  /\ r.slc = "complete" => r.loss = "none"

FitsAt(l, d) == Fits(links[l], l \in reconnect, l \in lossTimer,
                     searches[d], channel[<<d, "out">>], channel[<<d, "in">>])

(* A device without a link has no channel, but it may be calling. *)
Unused(d) == channel[<<d, "out">>] = "none" /\ channel[<<d, "in">>] \in Quiet

NoLinkFor(ls, d) == \A l \in Link : ls[l].slc # "idle" => ls[l].dev # d

Matching ==
  /\ \A l \in Link : IF links[l].slc # "idle" THEN FitsAt(l, links[l].dev)
                                              ELSE l \notin reconnect /\ l \notin lossTimer
  /\ \A d \in Device : NoLinkFor(links, d) => Unused(d)

Types ==
  /\ busy \subseteq Service /\ reconnect \subseteq Link /\ lossTimer \subseteq Link
  /\ requests \in [Link -> 0..1] /\ delayed \subseteq Device \X Service
  /\ searches \in [Device -> 0..1] /\ channel \in [Channel -> ChannelState]

MInv == LinksOK(links) /\ Types /\ Matching /\ NoPanic

LEMMA ChannelFacts ==
  ASSUME NEW d \in Device
  PROVE  /\ <<d, "out">> \in Channel /\ <<d, "in">> \in Channel
         /\ <<d, "out">> # None /\ <<d, "in">> # None /\ <<d, "out">> # <<d, "in">>
BY NoneAssumption DEF Channel

(* One channel changes. *)
Side(d, c, v) ==
  /\ c = "out" => channel'[<<d, "out">>] = v /\ channel'[<<d, "in">>] = channel[<<d, "in">>]
  /\ c = "in" => channel'[<<d, "in">>] = v /\ channel'[<<d, "out">>] = channel[<<d, "out">>]

ChannelsElsewhere(d) ==
  \A e \in Device : e # d => /\ channel'[<<e, "out">>] = channel[<<e, "out">>]
                             /\ channel'[<<e, "in">>] = channel[<<e, "in">>]

LEMMA ChannelChanges ==
  ASSUME channel \in [Channel -> ChannelState], NEW d \in Device, NEW c \in {"out", "in"},
         NEW v \in ChannelState, channel' = [channel EXCEPT ![<<d, c>>] = v]
  PROVE  channel' \in [Channel -> ChannelState] /\ Side(d, c, v) /\ ChannelsElsewhere(d)
<1>1. <<d, c>> \in Channel /\ \A e \in Device, b \in {"out", "in"} : <<e, b>> \in Channel
  BY DEF Channel
<1>2. \A e \in Device, b \in {"out", "in"} :
        channel'[<<e, b>>] = IF e = d /\ b = c THEN v ELSE channel[<<e, b>>]
  BY <1>1
<1>3. channel' \in [Channel -> ChannelState]
  OBVIOUS
<1> QED BY <1>2, <1>3 DEF Side, ChannelsElsewhere

LEMMA ChannelsSame ==
  ASSUME channel' = channel, NEW d
  PROVE  ChannelsElsewhere(d)
BY DEF ChannelsElsewhere

SearchesElsewhere(d) == \A e \in Device : e # d => searches'[e] = searches[e]

TimersElsewhere(l) ==
  \A k \in Link : k # l => /\ k \in reconnect' <=> k \in reconnect
                           /\ k \in lossTimer' <=> k \in lossTimer

(* A step that touches one device and its link. *)
LEMMA OneLinkChanges ==
  ASSUME Matching, LinksOK(links), LinksOK(links'), NEW l \in Link, NEW d \in Device,
         Kept(links', links, l), NoOther(links, l, d),
         links[l].slc # "idle" => links[l].dev = d,
         links'[l].slc # "idle" => links'[l].dev = d,
         ChannelsElsewhere(d), SearchesElsewhere(d), TimersElsewhere(l),
         links'[l].slc # "idle" =>
           Fits(links'[l], l \in reconnect', l \in lossTimer',
                searches'[d], channel'[<<d, "out">>], channel'[<<d, "in">>]),
         links'[l].slc = "idle" =>
           /\ l \notin reconnect' /\ l \notin lossTimer'
           /\ channel'[<<d, "out">>] = "none" /\ channel'[<<d, "in">>] \in Quiet
  PROVE  Matching'
<1>1. ASSUME NEW k \in Link, k # l, links'[k].slc # "idle"
      PROVE  Fits(links'[k], k \in reconnect', k \in lossTimer', searches'[links'[k].dev],
                  channel'[<<links'[k].dev, "out">>], channel'[<<links'[k].dev, "in">>])
  <2>1. /\ links'[k].slc = links[k].slc /\ links'[k].dev = links[k].dev
        /\ links'[k].sink = links[k].sink /\ links'[k].loss = links[k].loss
    BY <1>1 DEF Kept
  <2>2. links[k].dev \in Device /\ links[k].dev # d
    BY <1>1, <2>1 DEF NoOther, LinksOK, Uses
  <2>3. Fits(links[k], k \in reconnect, k \in lossTimer, searches[links[k].dev],
             channel[<<links[k].dev, "out">>], channel[<<links[k].dev, "in">>])
    BY <1>1, <2>1 DEF Matching, FitsAt
  <2>4. /\ searches'[links[k].dev] = searches[links[k].dev]
        /\ channel'[<<links[k].dev, "out">>] = channel[<<links[k].dev, "out">>]
        /\ channel'[<<links[k].dev, "in">>] = channel[<<links[k].dev, "in">>]
        /\ k \in reconnect' <=> k \in reconnect
        /\ k \in lossTimer' <=> k \in lossTimer
    BY <1>1, <2>2 DEF SearchesElsewhere, ChannelsElsewhere, TimersElsewhere
  <2> QED BY <2>1, <2>3, <2>4 DEF Fits
<1>2. ASSUME NEW k \in Link, k # l, links'[k].slc = "idle"
      PROVE  k \notin reconnect' /\ k \notin lossTimer'
  <2>1. links[k].slc = "idle"
    BY <1>2 DEF Kept
  <2>2. k \notin reconnect /\ k \notin lossTimer
    BY <2>1 DEF Matching
  <2> QED BY <1>2, <2>2 DEF TimersElsewhere
<1>3. ASSUME NEW e \in Device, NoLinkFor(links', e)
      PROVE  channel'[<<e, "out">>] = "none" /\ channel'[<<e, "in">>] \in Quiet
  <2>1. CASE e = d
    BY <2>1, <1>3 DEF NoLinkFor
  <2>2. CASE e # d
    <3>1. NoLinkFor(links, e)
      BY <1>3, <2>2 DEF NoLinkFor, Kept
    <3>2. Unused(e)
      BY <3>1 DEF Matching
    <3> QED BY <2>2, <3>2 DEF ChannelsElsewhere, Unused
  <2> QED BY <2>1, <2>2
<1> QED BY <1>1, <1>2, <1>3 DEF Matching, FitsAt, Unused

LEMMA LinkInUse ==
  ASSUME MInv, NEW l \in Link, links[l].slc # "idle", NEW d, d = links[l].dev
  PROVE  /\ d \in Device /\ links[l].svc \in Service /\ NoOther(links, l, d)
         /\ Fits(links[l], l \in reconnect, l \in lossTimer,
                 searches[d], channel[<<d, "out">>], channel[<<d, "in">>])
<1>1. LinksOK(links) /\ Matching
  BY DEF MInv
<1>2. d \in Device /\ links[l].svc \in Service /\ NoOther(links, l, d)
  BY <1>1 DEF LinksOK, Uses, Apart, NoOther
<1>3. FitsAt(l, links[l].dev)
  BY <1>1 DEF Matching
<1> QED BY <1>2, <1>3 DEF FitsAt

(* The link of a device is reset. *)
LEMMA ResetMatches ==
  ASSUME MInv, NEW l \in Link, links[l].slc # "idle", NEW d, d = links[l].dev,
         links' = Reset(links, l), l \notin reconnect', l \notin lossTimer',
         ChannelsElsewhere(d), SearchesElsewhere(d), TimersElsewhere(l),
         channel'[<<d, "out">>] = "none", channel'[<<d, "in">>] \in Quiet
  PROVE  Matching'
<1>1. d \in Device /\ NoOther(links, l, d) /\ Matching /\ LinksOK(links)
  BY LinkInUse DEF MInv
<1>2. LinksOK(links') /\ Kept(links', links, l) /\ links'[l].slc = "idle"
  BY <1>1, ForgottenLinks DEF NoLink
<1> QED BY <1>1, <1>2, OneLinkChanges

(* An attempt ends without a connection: its channel has gone, and so has  *)
(* its search, unless the client has given it up.                          *)
LEMMA FailsMatches ==
  ASSUME MInv, NEW l \in Link, links[l].slc \in Attempting, NEW d, d = links[l].dev,
         ConnectFails(l), lossTimer' = lossTimer,
         ChannelsElsewhere(d), SearchesElsewhere(d),
         channel'[<<d, "out">>] = "none", channel'[<<d, "in">>] \in Quiet,
         links[l].sink = <<d, "in">> => channel'[<<d, "in">>] = "none",
         links[l].loss = "recovery" => searches'[d] = 0,
         searches'[d] # 0 => links[l].slc = "searching"
  PROVE  Matching'
<1>1. links[l].slc # "idle"
  BY DEF Attempting
<1>2. /\ d \in Device /\ NoOther(links, l, d) /\ Matching /\ LinksOK(links)
      /\ Fits(links[l], l \in reconnect, l \in lossTimer,
              searches[d], channel[<<d, "out">>], channel[<<d, "in">>])
  BY <1>1, LinkInUse DEF MInv
<1>3. CASE links[l].loss = "none"
  <2>1. links' = Reset(links, l) /\ reconnect' = reconnect
    BY <1>3 DEF ConnectFails
  <2>2. l \notin reconnect /\ l \notin lossTimer
    BY <1>2, <1>3 DEF Fits
  <2>3. TimersElsewhere(l)
    BY <2>1 DEF TimersElsewhere
  <2> QED BY <1>1, <2>1, <2>2, <2>3, ResetMatches
<1>4. CASE links[l].loss # "none"
  <2>1. links' = links /\ reconnect' = reconnect \cup {l}
    BY <1>4 DEF ConnectFails
  <2>2. Kept(links', links, l) /\ TimersElsewhere(l) /\ LinksOK(links') /\ links'[l].dev = d
    BY <1>2, <2>1 DEF Kept, TimersElsewhere
  <2>3. Fits(links'[l], l \in reconnect', l \in lossTimer',
             searches'[d], channel'[<<d, "out">>], channel'[<<d, "in">>])
    BY <1>2, <1>4, <2>1 DEF Fits, Attempting
  <2>4. links'[l].slc # "idle"
    BY <1>1, <2>1
  <2> QED BY <1>2, <2>2, <2>3, <2>4, OneLinkChanges
<1> QED BY <1>3, <1>4

(* A step that touches only what is around a device without a link. *)
LEMMA NoLinkMatches ==
  ASSUME MInv, NEW d \in Device, NoLinkFor(links, d), links' = links,
         reconnect' = reconnect, lossTimer' = lossTimer,
         ChannelsElsewhere(d), SearchesElsewhere(d),
         channel'[<<d, "out">>] = "none", channel'[<<d, "in">>] \in Quiet
  PROVE  Matching'
<1>1. Matching /\ LinksOK(links)
  BY DEF MInv
<1>2. ASSUME NEW k \in Link, links[k].slc # "idle"
      PROVE  Fits(links'[k], k \in reconnect', k \in lossTimer', searches'[links'[k].dev],
                  channel'[<<links'[k].dev, "out">>], channel'[<<links'[k].dev, "in">>])
  <2>1. links[k].dev \in Device /\ links[k].dev # d
    BY <1>1, <1>2 DEF NoLinkFor, LinksOK, Uses
  <2>2. FitsAt(k, links[k].dev)
    BY <1>1, <1>2 DEF Matching
  <2> QED BY <2>1, <2>2 DEF FitsAt, ChannelsElsewhere, SearchesElsewhere
<1>3. ASSUME NEW e \in Device, NoLinkFor(links', e)
      PROVE  channel'[<<e, "out">>] = "none" /\ channel'[<<e, "in">>] \in Quiet
  BY <1>1, <1>3 DEF Matching, ChannelsElsewhere, Unused
<1> QED BY <1>1, <1>2, <1>3 DEF Matching, FitsAt, Unused

(* A step that changes the link of a device and what is around it. *)
LEMMA LinkMatches ==
  ASSUME MInv, NEW l \in Link, links[l].slc # "idle", NEW d, d = links[l].dev,
         LinksOK(links'), Kept(links', links, l),
         links'[l].slc # "idle", links'[l].dev = d,
         ChannelsElsewhere(d), SearchesElsewhere(d), TimersElsewhere(l),
         Fits(links'[l], l \in reconnect', l \in lossTimer',
              searches'[d], channel'[<<d, "out">>], channel'[<<d, "in">>])
  PROVE  Matching'
<1>1. d \in Device /\ NoOther(links, l, d) /\ Matching /\ LinksOK(links)
  BY LinkInUse DEF MInv
<1> QED BY <1>1, OneLinkChanges

(***************************************************************************)
(* The steps, one by one.                                                  *)
(***************************************************************************)
LEMMA RequestMatches ==
  ASSUME Regular, MInv, NEW d \in Device, NEW s \in Service, NEW two \in BOOLEAN,
         SlcConnectRequest(d, s, two)
  PROVE  Matching' /\ Types'
<1> DEFINE l == hfpGetIdleLink
<1>1. /\ hfpGetLinkFromBdaddr(d) = Null /\ l # Null /\ searches[d] = 0
      /\ links' = Setup([links EXCEPT ![l].retry = two], l, s, d, None, "searching")
      /\ searches' = [searches EXCEPT ![d] = @ + 1]
      /\ UNCHANGED <<busy, reconnect, lossTimer, requests, delayed, channel>>
  BY DEF SlcConnectRequest, hfpGetProfileServerChannel, Regular
<1>2. l \in Link /\ links[l].slc = "idle" /\ LinksOK(links) /\ Matching /\ Types
  BY <1>1, IdleLink DEF MInv
<1>3. NoOther(links, l, d)
  BY <1>1, <1>2, FreeForDevice
<1>4. NoLinkFor(links, d)
  BY <1>1, LinkOfDevice, LinkFacts DEF NoLinkFor
<1>5. Unused(d) /\ l \notin reconnect /\ l \notin lossTimer
  BY <1>2, <1>4 DEF Matching
<1>6. searches'[d] = 1 /\ searches' \in [Device -> 0..1] /\ SearchesElsewhere(d)
  BY <1>1, <1>2 DEF Types, SearchesElsewhere
<1>7. ChannelsElsewhere(d) /\ TimersElsewhere(l)
  BY <1>1, ChannelsSame DEF TimersElsewhere
<1>8. Types'
  BY <1>1, <1>2, <1>6 DEF Types
<1> HIDE DEF l
<1>9. /\ LinksOK(links') /\ Kept(links', links, l)
      /\ Fields(links'[l], "searching", d, None, "none", s, FALSE)
  BY <1>1, <1>2, <1>3, RequestLinks
<1>10. links'[l].slc # "idle" /\ links'[l].dev = d
  BY <1>9 DEF Fields
<1>11. Fits(links'[l], l \in reconnect', l \in lossTimer',
            searches'[d], channel'[<<d, "out">>], channel'[<<d, "in">>])
  BY <1>1, <1>5, <1>9, ChannelFacts DEF Fits, Fields, Unused
<1> QED BY <1>2, <1>3, <1>6, <1>7, <1>8, <1>9, <1>10, <1>11, OneLinkChanges

LEMMA ReconnectMatches ==
  ASSUME MInv, NEW l \in Link, HandleReconnect(l)
  PROVE  Matching' /\ Types' /\ NoPanic'
<1> DEFINE d == links[l].dev
<1>1. /\ l \in reconnect /\ reconnect' = reconnect \ {l}
      /\ UNCHANGED <<lossTimer, requests, delayed, channel, panic>>
      /\ LinksOK(links) /\ Matching /\ Types /\ NoPanic
  BY DEF HandleReconnect, MInv
<1>2. links[l].slc # "idle"
  BY <1>1 DEF Matching
<1>3. /\ d \in Device /\ links[l].svc \in Service
      /\ Fits(links[l], l \in reconnect, l \in lossTimer,
              searches[d], channel[<<d, "out">>], channel[<<d, "in">>])
  BY <1>2, LinkInUse
<1>4. /\ links[l].slc \in Attempting /\ channel[<<d, "out">>] = "none"
      /\ channel[<<d, "in">>] \in Quiet /\ (links[l].loss = "recovery" => searches[d] = 0)
  BY <1>1, <1>3 DEF Fits
<1>5. ChannelsElsewhere(d) /\ TimersElsewhere(l)
  BY <1>1, ChannelsSame DEF TimersElsewhere
<1>6. LinkLossReconnect(links, l)
  BY <1>4 DEF HandleReconnect
<1>7. busy' \subseteq Service /\ NoPanic'
  BY <1>1, <1>6 DEF LinkLossReconnect, Types, NoPanic
<1>8. CASE links[l].loss = "recovery"
  <2>1. searches' = [searches EXCEPT ![d] = @ + 1]
    BY <1>6, <1>8 DEF LinkLossReconnect, hfpGetProfileServerChannel
  <2>2. searches'[d] = 1 /\ searches' \in [Device -> 0..1] /\ SearchesElsewhere(d)
    BY <1>1, <1>3, <1>4, <1>8, <2>1 DEF Types, SearchesElsewhere
  <2>3. /\ LinksOK(links') /\ Kept(links', links, l)
        /\ Fields(links'[l], "searching", d, None, "recovery", links[l].svc, FALSE)
    BY <1>1, <1>2, <1>6, <1>8, ReconnectLinks
  <2>4. links'[l].slc # "idle" /\ links'[l].dev = d
    BY <2>3 DEF Fields
  <2>5. Fits(links'[l], l \in reconnect', l \in lossTimer',
             searches'[d], channel'[<<d, "out">>], channel'[<<d, "in">>])
    BY <1>1, <1>3, <1>4, <2>2, <2>3, ChannelFacts DEF Fits, Fields
  <2>6. Types'
    BY <1>1, <1>7, <2>2 DEF Types
  <2> HIDE DEF d
  <2>7. d = links[l].dev
    BY DEF d
  <2> QED BY <1>2, <1>5, <1>7, <2>2, <2>3, <2>4, <2>5, <2>6, <2>7, LinkMatches
<1>9. CASE links[l].loss # "recovery"
  <2>1. links' = Reset(links, l) /\ searches' = searches
    BY <1>6, <1>9 DEF LinkLossReconnect
  <2>2. l \notin reconnect' /\ l \notin lossTimer'
    BY <1>1, <1>3, <1>9 DEF Fits
  <2>3. SearchesElsewhere(d) /\ Types'
    BY <1>1, <1>7, <2>1 DEF SearchesElsewhere, Types
  <2>4. channel'[<<d, "out">>] = "none" /\ channel'[<<d, "in">>] \in Quiet
    BY <1>1, <1>4
  <2> HIDE DEF d
  <2>5. d = links[l].dev
    BY DEF d
  <2> QED BY <1>2, <1>5, <1>7, <2>1, <2>2, <2>3, <2>4, <2>5, ResetMatches
<1> QED BY <1>8, <1>9

(* The end of a recovery between two attempts: hfpSendSlcDisconnectIndToApp *)
LEMMA EndMatches ==
  ASSUME MInv, NEW l \in Link, l \in reconnect, DisconnectInd(l),
         reconnect' = reconnect \ {l}, lossTimer' = lossTimer \ {l},
         UNCHANGED <<searches, channel>>
  PROVE  Matching' /\ busy' \subseteq Service
<1> DEFINE d == links[l].dev
<1>1. links[l].slc # "idle" /\ busy \subseteq Service
  BY DEF Matching, MInv, Types
<1>2. Fits(links[l], l \in reconnect, l \in lossTimer,
           searches[d], channel[<<d, "out">>], channel[<<d, "in">>])
  BY <1>1, LinkInUse
<1>3. channel'[<<d, "out">>] = "none" /\ channel'[<<d, "in">>] \in Quiet
  BY <1>2 DEF Fits
<1>4. ChannelsElsewhere(d) /\ TimersElsewhere(l) /\ SearchesElsewhere(d)
  BY ChannelsSame DEF TimersElsewhere, SearchesElsewhere
<1>5. links' = Reset(links, l) /\ busy' \subseteq Service
  BY <1>1 DEF DisconnectInd
<1>6. l \notin reconnect' /\ l \notin lossTimer'
  OBVIOUS
<1> HIDE DEF d
<1>7. d = links[l].dev
  BY DEF d
<1> QED BY <1>1, <1>3, <1>4, <1>5, <1>6, <1>7, ResetMatches

(* The attempt in progress is to be the last of the recovery. *)
LEMMA LastMatches ==
  ASSUME MInv, NEW l \in Link, links[l].slc \in Attempting, links[l].loss # "none",
         l \notin reconnect, NEW v \in {"abort", "timeout"},
         links' = [links EXCEPT ![l].loss = v],
         reconnect' = reconnect, lossTimer' = lossTimer \ {l}, UNCHANGED <<searches, channel>>
  PROVE  Matching'
<1> DEFINE d == links[l].dev
<1>1. links[l].slc # "idle" /\ LinksOK(links)
  BY DEF Attempting, MInv
<1>2. /\ d \in Device
      /\ Fits(links[l], l \in reconnect, l \in lossTimer,
              searches[d], channel[<<d, "out">>], channel[<<d, "in">>])
  BY <1>1, LinkInUse
<1>3. ChannelsElsewhere(d) /\ TimersElsewhere(l) /\ SearchesElsewhere(d)
  BY ChannelsSame DEF TimersElsewhere, SearchesElsewhere
<1>4. /\ LinksOK(links') /\ Kept(links', links, l)
      /\ Fields(links'[l], links[l].slc, d, links[l].sink, v, links[l].svc, links[l].owns)
  BY <1>1, LossLinks
<1>5. links'[l].slc # "idle" /\ links'[l].dev = d
  BY <1>1, <1>4 DEF Fields
<1>6. Fits(links'[l], l \in reconnect', l \in lossTimer',
           searches'[d], channel'[<<d, "out">>], channel'[<<d, "in">>])
  BY <1>2, <1>4 DEF Fits, Fields, Attempting
<1> HIDE DEF d
<1>7. d = links[l].dev
  BY DEF d
<1> QED BY <1>1, <1>3, <1>4, <1>5, <1>6, <1>7, LinkMatches

LEMMA TimeoutMatches ==
  ASSUME MInv, NEW l \in Link, HandleLossTimeout(l)
  PROVE  Matching' /\ Types' /\ NoPanic'
<1>1. /\ l \in lossTimer /\ lossTimer' = lossTimer \ {l}
      /\ UNCHANGED <<requests, delayed, searches, channel, panic>>
      /\ Matching /\ Types /\ NoPanic
  BY DEF HandleLossTimeout, MInv
<1>2. NoPanic' /\ lossTimer' \subseteq Link
  BY <1>1 DEF NoPanic, Types
<1>3. links[l].slc # "idle"
  BY <1>1 DEF Matching
<1>4. links[l].loss = "recovery" /\ links[l].slc # "complete"
  BY <1>1, <1>3, LinkInUse DEF Fits
<1>5. links[l].slc \in Attempting
  BY <1>3, <1>4 DEF MInv, LinksOK, LinkRecord, SlcState, Attempting
<1>6. CASE l \in reconnect
  <2>1. reconnect' = reconnect \ {l} /\ DisconnectInd(l)
    BY <1>5, <1>6 DEF HandleLossTimeout
  <2>2. Matching' /\ busy' \subseteq Service
    BY <1>1, <1>6, <2>1, EndMatches
  <2> QED BY <1>1, <1>2, <2>1, <2>2 DEF Types
<1>7. CASE l \notin reconnect
  <2>1. /\ links' = [links EXCEPT ![l].loss = "timeout"] /\ UNCHANGED <<busy, reconnect>>
    BY <1>5, <1>7 DEF HandleLossTimeout
  <2>2. Matching'
    BY <1>1, <1>4, <1>5, <1>7, <2>1, LastMatches
  <2> QED BY <1>1, <1>2, <2>1, <2>2 DEF Types
<1> QED BY <1>6, <1>7

LEMMA AbortMatches ==
  ASSUME MInv, NEW l \in Link, AbortRecovery(l)
  PROVE  Matching' /\ Types' /\ NoPanic'
<1>1. /\ requests[l] > 0 /\ links[l].slc # "idle" /\ links[l].loss \in {"recovery", "timeout"}
      /\ lossTimer' = lossTimer \ {l} /\ UNCHANGED <<delayed, searches, channel, panic>>
      /\ Matching /\ Types /\ NoPanic
  BY DEF AbortRecovery, MInv
<1>2. NoPanic' /\ lossTimer' \subseteq Link
  BY <1>1 DEF NoPanic, Types
<1>3. links[l].slc # "complete"
  BY <1>1, LinkInUse DEF Fits
<1>4. links[l].slc \in Attempting
  BY <1>1, <1>3 DEF MInv, LinksOK, LinkRecord, SlcState, Attempting
<1>5. CASE l \in reconnect
  <2>1. /\ reconnect' = reconnect \ {l} /\ DisconnectInd(l)
        /\ requests' = [requests EXCEPT ![l] = @ - 1]
    BY <1>5 DEF AbortRecovery
  <2>2. Matching' /\ busy' \subseteq Service
    BY <1>1, <1>5, <2>1, EndMatches
  <2>3. requests' \in [Link -> 0..1]
    BY <1>1, <2>1 DEF Types
  <2> QED BY <1>1, <1>2, <2>1, <2>2, <2>3 DEF Types
<1>6. CASE l \notin reconnect
  <2>1. /\ links' = [links EXCEPT ![l].loss = "abort"] /\ UNCHANGED <<busy, reconnect, requests>>
    BY <1>6 DEF AbortRecovery
  <2>2. Matching'
    BY <1>1, <1>4, <1>6, <2>1, LastMatches
  <2> QED BY <1>1, <1>2, <2>1, <2>2 DEF Types
<1> QED BY <1>5, <1>6

LEMMA DisconnectRequestMatches ==
  ASSUME MInv, NEW l \in Link, HandleDisconnectRequest(l)
  PROVE  Matching' /\ Types' /\ NoPanic'
<1> DEFINE d == links[l].dev
           c == links[l].sink
<1>1. /\ requests[l] > 0 /\ (links[l].slc = "idle" \/ links[l].loss \in {"none", "abort"})
      /\ requests' = [requests EXCEPT ![l] = @ - 1]
      /\ UNCHANGED <<lossTimer, delayed, searches, panic>>
      /\ LinksOK(links) /\ Matching /\ Types /\ NoPanic
  BY DEF HandleDisconnectRequest, MInv
<1>2. requests' \in [Link -> 0..1]
  BY <1>1 DEF Types, HandleDisconnectRequest
<1>3. NoPanic' /\ SearchesElsewhere(d)
  BY <1>1 DEF NoPanic, SearchesElsewhere
<1>4. CASE links[l].slc = "searching"
  <2>1. ConnectFails(l) /\ channel' = channel
    BY <1>4 DEF HandleDisconnectRequest
  <2>2. /\ d \in Device
        /\ Fits(links[l], l \in reconnect, l \in lossTimer,
                searches[d], channel[<<d, "out">>], channel[<<d, "in">>])
    BY <1>4, LinkInUse
  <2>3. /\ links[l].slc \in Attempting /\ ChannelsElsewhere(d)
        /\ channel'[<<d, "out">>] = "none" /\ channel'[<<d, "in">>] \in Quiet
        /\ links[l].sink # <<d, "in">> /\ links[l].loss # "recovery"
    BY <1>1, <1>4, <2>1, <2>2, ChannelFacts, ChannelsSame DEF Fits, Attempting
  <2>4. Types'
    BY <1>1, <1>2, <2>1 DEF Types, ConnectFails
  <2> HIDE DEF d
  <2>5. d = links[l].dev
    BY DEF d
  <2> QED BY <1>1, <1>3, <1>4, <2>1, <2>3, <2>4, <2>5, FailsMatches
<1>5. CASE /\ links[l].slc \notin {"idle", "searching"} /\ c # None /\ channel[c] # "none"
  <2>1. channel' = [channel EXCEPT ![c] = "closing"] /\ UNCHANGED <<links, busy, reconnect>>
    BY <1>5 DEF HandleDisconnectRequest
  <2>2. links[l].slc # "idle"
    BY <1>5
  <2>3. /\ d \in Device
        /\ Fits(links[l], l \in reconnect, l \in lossTimer,
                searches[d], channel[<<d, "out">>], channel[<<d, "in">>])
    BY <2>2, LinkInUse
  <2>4. PICK b \in {"out", "in"} : c = <<d, b>>
    BY <1>5, <2>3 DEF Fits
  <2>5. channel' \in [Channel -> ChannelState] /\ Side(d, b, "closing") /\ ChannelsElsewhere(d)
    <3>1. channel' = [channel EXCEPT ![<<d, b>>] = "closing"] /\ "closing" \in ChannelState
      BY <2>1, <2>4 DEF ChannelState
    <3> HIDE DEF d
    <3> QED BY <1>1, <2>3, <3>1, ChannelChanges DEF Types
  <2>6. Fits(links'[l], l \in reconnect', l \in lossTimer',
             searches'[d], channel'[<<d, "out">>], channel'[<<d, "in">>])
    <3>1. CASE b = "out"
      BY <1>1, <1>5, <2>1, <2>3, <2>4, <2>5, <3>1, ChannelFacts DEF Fits, Side, Quiet
    <3>2. CASE b = "in"
      BY <1>1, <1>5, <2>1, <2>3, <2>4, <2>5, <3>2, ChannelFacts DEF Fits, Side, Quiet
    <3> QED BY <3>1, <3>2
  <2>7. /\ Kept(links', links, l) /\ TimersElsewhere(l) /\ LinksOK(links')
        /\ links'[l].dev = d /\ links'[l].slc # "idle"
    BY <1>1, <2>1, <2>2 DEF Kept, TimersElsewhere
  <2>8. Types'
    BY <1>1, <1>2, <2>1, <2>5 DEF Types
  <2> HIDE DEF d
  <2>9. d = links[l].dev
    BY DEF d
  <2> QED BY <1>3, <2>2, <2>5, <2>6, <2>7, <2>8, <2>9, LinkMatches
<1>6. CASE /\ links[l].slc # "searching"
           /\ ~ (links[l].slc \notin {"idle", "searching"} /\ c # None /\ channel[c] # "none")
  <2>1. UNCHANGED <<links, busy, reconnect, lossTimer, searches, channel>>
    BY <1>1, <1>6 DEF HandleDisconnectRequest
  <2>2. Matching'
    BY <1>1, <2>1 DEF Matching, FitsAt, Unused, NoLinkFor
  <2> QED BY <1>1, <1>2, <1>3, <2>1, <2>2 DEF Types
<1> QED BY <1>4, <1>5, <1>6

(* The link of a device, if it has one. *)
LEMMA DeviceLink ==
  ASSUME MInv, NEW d \in Device, NEW l, l = hfpGetLinkFromBdaddr(d)
  PROVE  \/ l = Null /\ NoLinkFor(links, d) /\ Unused(d)
         \/ /\ l \in Link /\ l # Null /\ links[l].slc # "idle" /\ links[l].dev = d
            /\ Fits(links[l], l \in reconnect, l \in lossTimer,
                    searches[d], channel[<<d, "out">>], channel[<<d, "in">>])
<1>1. CASE l = Null
  <2>1. hfpGetLinkFromBdaddr(d) = Null /\ hfpGetLinkFromBdaddr(d) \notin Link
    BY <1>1, LinkFacts
  <2>2. NoLinkFor(links, d)
    BY <2>1, LinkOfDevice DEF NoLinkFor
  <2> QED BY <1>1, <2>2 DEF MInv, Matching
<1>2. CASE l # Null
  <2>1. l \in Link /\ links[l].slc # "idle" /\ links[l].dev = d
    BY <1>2, LinkOfDevice
  <2>2. FitsAt(l, links[l].dev)
    BY <2>1 DEF MInv, Matching
  <2> QED BY <1>2, <2>1, <2>2 DEF FitsAt
<1> QED BY <1>1, <1>2

LEMMA SdpFoundMatches ==
  ASSUME Regular, MInv, NEW d \in Device, SdpFound(d), ~GivenUp(hfpGetLinkFromBdaddr(d))
  PROVE  Matching' /\ Types' /\ NoPanic'
<1> DEFINE l == hfpGetLinkFromBdaddr(d)
           connect == l # Null /\ links[l].slc = "searching"
<1>1. /\ searches[d] > 0 /\ (connect => channel[<<d, "out">>] = "none")
      /\ searches' = [searches EXCEPT ![d] = @ - 1]
      /\ UNCHANGED <<busy, reconnect, lossTimer, requests, delayed, panic>>
      /\ LinksOK(links) /\ Matching /\ Types /\ NoPanic
  BY DEF SdpFound, MInv
<1>2. searches'[d] = 0 /\ searches' \in [Device -> 0..1] /\ SearchesElsewhere(d)
  BY <1>1 DEF Types, SearchesElsewhere
<1>3. \/ l = Null /\ NoLinkFor(links, d) /\ Unused(d)
      \/ /\ l \in Link /\ l # Null /\ links[l].slc # "idle" /\ links[l].dev = d
         /\ Fits(links[l], l \in reconnect, l \in lossTimer,
                 searches[d], channel[<<d, "out">>], channel[<<d, "in">>])
  BY DeviceLink
<1>4. NoPanic'
  BY <1>1 DEF NoPanic
<1>5. TimersElsewhere(l)
  BY <1>1 DEF TimersElsewhere
<1>6. CASE connect
  <2>1. /\ links' = [links EXCEPT ![l].slc = "outgoing", ![l].retry = FALSE]
        /\ channel' = [channel EXCEPT ![<<d, "out">>] = "asked"]
    BY <1>6 DEF SdpFound
  <2>2. channel' \in [Channel -> ChannelState] /\ Side(d, "out", "asked") /\ ChannelsElsewhere(d)
    BY <1>1, <2>1, ChannelChanges DEF Types, ChannelState
  <2>3. l \notin reconnect
    BY <1>1, <1>3, <1>6 DEF Fits, GivenUp, LinksOK, LinkRecord
  <2>4. Types'
    BY <1>1, <1>2, <2>2 DEF Types
  <2>5. /\ l \in Link /\ links[l].slc = "searching" /\ d = links[l].dev
        /\ Fits(links[l], l \in reconnect, l \in lossTimer,
                 searches[d], channel[<<d, "out">>], channel[<<d, "in">>])
    BY <1>3, <1>6
  <2> HIDE DEF l
  <2>6. /\ LinksOK(links') /\ Kept(links', links, l)
        /\ Fields(links'[l], "outgoing", d, links[l].sink, links[l].loss, links[l].svc, links[l].owns)
    BY <1>1, <2>1, <2>5, FoundLinks
  <2>7. links'[l].slc # "idle" /\ links'[l].dev = d /\ links[l].slc # "idle"
    BY <2>5, <2>6 DEF Fields
  <2>8. Fits(links'[l], l \in reconnect', l \in lossTimer',
             searches'[d], channel'[<<d, "out">>], channel'[<<d, "in">>])
    BY <1>1, <1>2, <2>2, <2>3, <2>5, <2>6, ChannelFacts DEF Fits, Fields, Side
  <2> QED BY <1>2, <1>4, <1>5, <2>2, <2>4, <2>5, <2>6, <2>7, <2>8, LinkMatches
<1>7. CASE ~connect
  <2>1. UNCHANGED <<links, channel>>
    BY <1>7 DEF SdpFound
  <2>2. Types' /\ ChannelsElsewhere(d)
    BY <1>1, <1>2, <2>1, ChannelsSame DEF Types
  <2>3. CASE l = Null
    BY <1>1, <1>2, <1>3, <1>4, <2>1, <2>2, <2>3, NoLinkMatches DEF Unused
  <2>4. CASE l # Null
    <3>1. l \in Link /\ d = links[l].dev /\ links[l].slc # "idle"
      BY <1>3, <2>4
    <3>2. /\ Kept(links', links, l) /\ LinksOK(links')
          /\ links'[l].dev = d /\ links'[l].slc # "idle"
      BY <1>1, <2>1, <3>1 DEF Kept
    <3>3. Fits(links'[l], l \in reconnect', l \in lossTimer',
               searches'[d], channel'[<<d, "out">>], channel'[<<d, "in">>])
      BY <1>1, <1>2, <1>3, <2>1, <2>4 DEF Fits
    <3> HIDE DEF l
    <3> QED BY <1>2, <1>4, <1>5, <2>2, <3>1, <3>2, <3>3, LinkMatches
  <2> QED BY <2>3, <2>4
<1> QED BY <1>6, <1>7

LEMMA SdpFailsMatches ==
  ASSUME Regular, MInv, NEW d \in Device, NEW noData \in BOOLEAN, SdpFails(d, noData)
  PROVE  Matching' /\ Types' /\ NoPanic'
<1> DEFINE l == hfpGetLinkFromBdaddr(d)
<1>1. /\ searches[d] > 0 /\ UNCHANGED <<lossTimer, requests, delayed, channel, panic>>
      /\ LinksOK(links) /\ Matching /\ Types /\ NoPanic
  BY DEF SdpFails, MInv
<1>2. \/ l = Null /\ NoLinkFor(links, d) /\ Unused(d)
      \/ /\ l \in Link /\ l # Null /\ links[l].slc # "idle" /\ links[l].dev = d
         /\ Fits(links[l], l \in reconnect, l \in lossTimer,
                 searches[d], channel[<<d, "out">>], channel[<<d, "in">>])
  BY DeviceLink
<1>3. NoPanic' /\ ChannelsElsewhere(d)
  BY <1>1, ChannelsSame DEF NoPanic
<1>4. /\ searches' = [searches EXCEPT ![d] = @ - 1] =>
           searches'[d] = 0 /\ searches' \in [Device -> 0..1] /\ SearchesElsewhere(d)
      /\ searches' = searches => SearchesElsewhere(d)
  BY <1>1 DEF Types, SearchesElsewhere
<1>5. CASE l # Null /\ Retries(l, d)
  <2>1. /\ links[l].slc = "searching" /\ UNCHANGED <<busy, reconnect, searches>>
        /\ \E s \in Service :
             links' = Setup([links EXCEPT ![l].retry = FALSE], l, s, d, None, "searching")
    BY <1>5 DEF Retries
  <2>2. Types' /\ TimersElsewhere(l)
    BY <1>1, <2>1 DEF Types, TimersElsewhere
  <2>3. /\ l \in Link /\ links[l].slc # "idle" /\ d = links[l].dev
        /\ Fits(links[l], l \in reconnect, l \in lossTimer,
                searches[d], channel[<<d, "out">>], channel[<<d, "in">>])
    BY <1>2, <1>5
  <2> HIDE DEF l
  <2>4. /\ LinksOK(links') /\ Kept(links', links, l)
        /\ \E s \in Service :
             Fields(links'[l], "searching", d, None, links[l].loss, s, links[l].owns)
    BY <1>1, <2>1, <2>3, RetryLinks
  <2>5. links'[l].slc # "idle" /\ links'[l].dev = d
    BY <2>3, <2>4 DEF Fields
  <2>6. Fits(links'[l], l \in reconnect', l \in lossTimer',
             searches'[d], channel'[<<d, "out">>], channel'[<<d, "in">>])
    BY <1>1, <2>1, <2>3, <2>4 DEF Fits, Fields
  <2> QED BY <1>3, <1>4, <2>1, <2>2, <2>3, <2>4, <2>5, <2>6, LinkMatches
<1>6. CASE /\ l # Null /\ links[l].slc = "searching" /\ ConnectFails(l)
           /\ searches' = [searches EXCEPT ![d] = @ - 1]
  <2>1. ConnectFails(l) /\ searches' = [searches EXCEPT ![d] = @ - 1]
    BY <1>6
  <2>2. /\ l \in Link /\ links[l].slc \in Attempting /\ d = links[l].dev
        /\ Fits(links[l], l \in reconnect, l \in lossTimer,
                searches[d], channel[<<d, "out">>], channel[<<d, "in">>])
    BY <1>2, <1>6 DEF Attempting
  <2>3. /\ channel'[<<d, "out">>] = "none" /\ channel'[<<d, "in">>] \in Quiet
        /\ links[l].sink # <<d, "in">>
    BY <1>1, <1>6, <2>2, ChannelFacts DEF Fits
  <2>4. Types'
    BY <1>1, <1>4, <2>1, <2>2 DEF Types, ConnectFails
  <2> HIDE DEF l
  <2> QED BY <1>1, <1>3, <1>4, <2>1, <2>2, <2>3, <2>4, FailsMatches
<1>7. CASE /\ ~(l # Null /\ links[l].slc = "searching")
           /\ searches' = [searches EXCEPT ![d] = @ - 1] /\ UNCHANGED <<links, busy, reconnect>>
  <2>1. searches' = [searches EXCEPT ![d] = @ - 1] /\ UNCHANGED <<links, busy, reconnect>>
    BY <1>7
  <2>2. Types' /\ TimersElsewhere(l)
    BY <1>1, <1>4, <2>1 DEF Types, TimersElsewhere
  <2>3. CASE l = Null
    BY <1>1, <1>2, <1>3, <1>4, <2>1, <2>2, <2>3, NoLinkMatches DEF Unused
  <2>4. CASE l # Null
    <3>1. l \in Link /\ d = links[l].dev /\ links[l].slc # "idle"
      BY <1>2, <2>4
    <3>2. /\ Kept(links', links, l) /\ LinksOK(links')
          /\ links'[l].dev = d /\ links'[l].slc # "idle"
      BY <1>1, <2>1, <3>1 DEF Kept
    <3>3. Fits(links'[l], l \in reconnect', l \in lossTimer',
               searches'[d], channel'[<<d, "out">>], channel'[<<d, "in">>])
      BY <1>1, <1>2, <1>4, <2>1, <2>4 DEF Fits
    <3> HIDE DEF l
    <3> QED BY <1>3, <1>4, <2>1, <2>2, <3>1, <3>2, <3>3, LinkMatches
  <2> QED BY <2>3, <2>4
<1> QED BY <1>5, <1>6, <1>7, RetriesAre

LEMMA LinkSlc ==
  ASSUME LinksOK(links), NEW l \in Link
  PROVE  /\ links[l].slc \in SlcState /\ links[l].loss \in {"none", "recovery", "abort", "timeout"}
BY DEF LinksOK, LinkRecord

LEMMA PendingMatches ==
  ASSUME MInv, NEW d \in Device, OutgoingPending(d)
  PROVE  Matching' /\ Types' /\ NoPanic'
<1> DEFINE l == hfpGetLinkFromBdaddr(d)
           c == <<d, "out">>
<1>1. /\ channel[c] = "asked" /\ channel' = [channel EXCEPT ![c] = "opening"]
      /\ links' = IF l = Null THEN links ELSE [links EXCEPT ![l].sink = c]
      /\ UNCHANGED <<busy, reconnect, lossTimer, requests, delayed, searches, panic>>
      /\ LinksOK(links) /\ Types /\ NoPanic
  BY DEF OutgoingPending, MInv
<1>2. \/ l = Null /\ NoLinkFor(links, d) /\ Unused(d)
      \/ /\ l \in Link /\ l # Null /\ links[l].slc # "idle" /\ links[l].dev = d
         /\ Fits(links[l], l \in reconnect, l \in lossTimer,
                 searches[d], channel[<<d, "out">>], channel[<<d, "in">>])
  BY DeviceLink
<1>3. /\ l \in Link /\ l # Null /\ links[l].slc # "idle" /\ d = links[l].dev
      /\ Fits(links[l], l \in reconnect, l \in lossTimer,
              searches[d], channel[<<d, "out">>], channel[<<d, "in">>])
  BY <1>1, <1>2 DEF Unused
<1>4. channel' \in [Channel -> ChannelState] /\ Side(d, "out", "opening") /\ ChannelsElsewhere(d)
  BY <1>1, ChannelChanges DEF Types, ChannelState
<1>5. Types' /\ NoPanic' /\ SearchesElsewhere(d) /\ TimersElsewhere(l)
  BY <1>1, <1>4 DEF Types, NoPanic, SearchesElsewhere, TimersElsewhere
<1>6. c \in Channel /\ links' = [links EXCEPT ![l].sink = c]
  BY <1>1, <1>3, ChannelFacts
<1>7. Fits(links[l], l \in reconnect, l \in lossTimer, searches[d], "asked", channel[<<d, "in">>])
  BY <1>1, <1>3
<1> HIDE DEF l
<1>8. /\ LinksOK(links') /\ Kept(links', links, l)
      /\ Fields(links'[l], links[l].slc, d, c, links[l].loss, links[l].svc, links[l].owns)
  <2> HIDE DEF c
  <2> QED BY <1>1, <1>3, <1>6, SinkLinks
<1>9. links'[l].slc # "idle" /\ links'[l].dev = d
  BY <1>3, <1>8 DEF Fields
<1>10. links[l].slc = "outgoing"
  BY <1>1, <1>3, <1>7, LinkSlc DEF Fits, SlcState
<1>11. Fits(links'[l], l \in reconnect', l \in lossTimer',
            searches'[d], channel'[<<d, "out">>], channel'[<<d, "in">>])
  BY <1>1, <1>4, <1>7, <1>8, <1>10, ChannelFacts DEF Fits, Fields, Side
<1> QED BY <1>3, <1>4, <1>5, <1>8, <1>9, <1>11, LinkMatches

(* The link of a channel that is opening or open. *)
InProgress(d, b) == channel[<<d, b>>] \in {"asked", "opening", "up", "closing"}

KnowsSink(l, d, b) == channel[<<d, b>>] \in {"opening", "up", "closing"} => links[l].sink = <<d, b>>

LEMMA ChannelLink ==
  ASSUME MInv, NEW d \in Device, NEW b \in {"out", "in"}, InProgress(d, b),
         NEW l, l = hfpGetLinkFromBdaddr(d)
  PROVE  /\ l \in Link /\ l # Null /\ d = links[l].dev /\ l \notin reconnect
         /\ links[l].slc \in {"outgoing", "incoming", "connected", "complete"}
         /\ KnowsSink(l, d, b)
         /\ channel[<<d, b>>] = "asked" => b = "out" /\ links[l].slc = "outgoing"
         /\ channel[<<d, b>>] = "up" => links[l].slc \in {"connected", "complete"}
         /\ channel[<<d, b>>] = "opening" => links[l].slc \in {"outgoing", "incoming"}
         /\ b = "out" => channel[<<d, "in">>] \in Quiet
         /\ b = "in" => channel[<<d, "out">>] = "none"
<1>1. \/ l = Null /\ NoLinkFor(links, d) /\ Unused(d)
      \/ /\ l \in Link /\ l # Null /\ links[l].slc # "idle" /\ links[l].dev = d
         /\ Fits(links[l], l \in reconnect, l \in lossTimer,
                 searches[d], channel[<<d, "out">>], channel[<<d, "in">>])
  BY DeviceLink
<1>2. /\ l \in Link /\ l # Null /\ links[l].slc # "idle" /\ d = links[l].dev
      /\ Fits(links[l], l \in reconnect, l \in lossTimer,
              searches[d], channel[<<d, "out">>], channel[<<d, "in">>])
  BY <1>1 DEF Unused, Quiet, InProgress
<1>3. links[l].slc \in SlcState
  BY <1>2, LinkSlc DEF MInv
<1>4. l \notin reconnect
  BY <1>2 DEF Fits, Quiet, InProgress
<1>5. CASE b = "out"
  BY <1>2, <1>3, <1>4, <1>5, ChannelFacts DEF Fits, Quiet, SlcState, InProgress, KnowsSink
<1>6. CASE b = "in"
  BY <1>2, <1>3, <1>4, <1>6, ChannelFacts DEF Fits, Quiet, SlcState, InProgress, KnowsSink
<1> QED BY <1>5, <1>6

LEMMA OpensMatches ==
  ASSUME Regular, MInv, NEW d \in Device, NEW b \in {"out", "in"}, ChannelOpens(<<d, b>>)
  PROVE  Matching' /\ Types' /\ NoPanic'
<1> DEFINE l == hfpGetLinkFromBdaddr(d)
           c == <<d, b>>
<1>1. channel[<<d, b>>] = "opening" /\ LinksOK(links) /\ Types /\ NoPanic
  BY DEF ChannelOpens, MInv
<1>2. /\ l \in Link /\ l # Null /\ d = links[l].dev /\ l \notin reconnect
      /\ links[l].slc \in {"outgoing", "incoming"} /\ links[l].sink = <<d, b>>
      /\ b = "out" => channel[<<d, "in">>] \in Quiet
      /\ b = "in" => channel[<<d, "out">>] = "none"
  BY <1>1, ChannelLink DEF InProgress, KnowsSink
<1>3. c[1] = d /\ c # None
  BY ChannelFacts
<1>4. /\ channel' = [channel EXCEPT ![<<d, b>>] = "up"]
      /\ UNCHANGED <<busy, reconnect, requests, delayed, searches, panic>>
      /\ \/ /\ links' = [links EXCEPT ![l].slc = "connected"]
            /\ lossTimer' = lossTimer
         \/ Completes(l)
  BY <1>2, <1>3 DEF ChannelOpens
<1>5. channel' \in [Channel -> ChannelState] /\ Side(d, b, "up") /\ ChannelsElsewhere(d)
  BY <1>1, <1>4, ChannelChanges DEF Types, ChannelState
<1>6. Types' /\ NoPanic' /\ SearchesElsewhere(d) /\ TimersElsewhere(l)
  BY <1>1, <1>4, <1>5 DEF Types, NoPanic, SearchesElsewhere, TimersElsewhere, Completes
<1> HIDE DEF l
<1>7. links[l].slc # "idle"
  BY <1>2
<1>8. Fits(links[l], l \in reconnect, l \in lossTimer,
           searches[d], channel[<<d, "out">>], channel[<<d, "in">>])
  BY <1>2, <1>7, LinkInUse
<1>9. CASE links' = [links EXCEPT ![l].slc = "connected"] /\ lossTimer' = lossTimer
  <2>1. /\ LinksOK(links') /\ Kept(links', links, l)
        /\ Fields(links'[l], "connected", d, links[l].sink, links[l].loss, links[l].svc, links[l].owns)
    BY <1>1, <1>2, <1>7, <1>9, OpenLinks
  <2>2. links'[l].slc # "idle" /\ links'[l].dev = d
    BY <2>1 DEF Fields
  <2>3. Fits(links'[l], l \in reconnect', l \in lossTimer',
              searches'[d], channel'[<<d, "out">>], channel'[<<d, "in">>])
    <3>1. CASE b = "out"
      BY <1>2, <1>4, <1>5, <1>8, <1>9, <2>1, <3>1, ChannelFacts DEF Fits, Fields, Side
    <3>2. CASE b = "in"
      BY <1>2, <1>4, <1>5, <1>8, <1>9, <2>1, <3>2, ChannelFacts DEF Fits, Fields, Side
    <3> QED BY <3>1, <3>2
  <2> QED BY <1>2, <1>5, <1>6, <1>7, <2>1, <2>2, <2>3, LinkMatches
<1>10. CASE Completes(l)
  <2>1. /\ searches[d] = 0 /\ links' = [links EXCEPT ![l].slc = "complete", ![l].loss = "none"]
        /\ lossTimer' = IF links[l].loss = "none" THEN lossTimer ELSE lossTimer \ {l}
    BY <1>2, <1>10 DEF Completes, Regular
  <2>2. /\ LinksOK(links') /\ Kept(links', links, l)
        /\ Fields(links'[l], "complete", d, links[l].sink, "none", links[l].svc, links[l].owns)
    BY <1>1, <1>2, <1>7, <2>1, CompleteLinks
  <2>3. links'[l].slc # "idle" /\ links'[l].dev = d /\ l \notin lossTimer'
    BY <1>8, <2>1, <2>2 DEF Fields, Fits
  <2>4. Fits(links'[l], l \in reconnect', l \in lossTimer',
              searches'[d], channel'[<<d, "out">>], channel'[<<d, "in">>])
    <3>1. \/ /\ b = "out" /\ channel'[<<d, "out">>] = "up" /\ channel'[<<d, "in">>] \in Quiet
          \/ /\ b = "in" /\ channel'[<<d, "in">>] = "up" /\ channel'[<<d, "out">>] = "none"
      BY <1>2, <1>5 DEF Side
    <3>2. /\ links'[l].slc = "complete" /\ links'[l].sink = <<d, b>> /\ links'[l].loss = "none"
          /\ l \notin reconnect' /\ l \notin lossTimer' /\ searches'[d] = 0
      BY <1>2, <1>4, <2>1, <2>2, <2>3 DEF Fields
    <3> QED BY <2>3, <3>1, <3>2, ChannelFacts DEF Fits
  <2> QED BY <1>2, <1>5, <1>6, <1>7, <2>2, <2>3, <2>4, LinkMatches
<1> QED BY <1>4, <1>9, <1>10

(* An attempt ends with its channel. *)
LEMMA ChannelEndMatches ==
  ASSUME MInv, NEW d \in Device, NEW b \in {"out", "in"},
         channel[<<d, b>>] \in {"asked", "opening", "up", "closing"},
         NEW l, l = hfpGetLinkFromBdaddr(d),
         channel' = [channel EXCEPT ![<<d, b>>] = "none"],
         UNCHANGED <<lossTimer, requests, delayed, searches, panic>>,
         \/ links[l].slc # "complete" /\ ConnectFails(l)
         \/ links[l].slc = "complete" /\ DisconnectInd(l) /\ reconnect' = reconnect
  PROVE  Matching' /\ Types' /\ NoPanic'
<1>1. LinksOK(links) /\ Types /\ NoPanic
  BY DEF MInv
<1>2. /\ l \in Link /\ l # Null /\ d = links[l].dev /\ l \notin reconnect
      /\ links[l].slc \in {"outgoing", "incoming", "connected", "complete"}
      /\ b = "out" => channel[<<d, "in">>] \in Quiet
      /\ b = "in" => channel[<<d, "out">>] = "none"
      /\ channel[<<d, b>>] \in {"opening", "up", "closing"} => links[l].sink = <<d, b>>
      /\ channel[<<d, b>>] = "asked" => b = "out" /\ links[l].slc = "outgoing"
  BY ChannelLink DEF InProgress, KnowsSink
<1>3. channel' \in [Channel -> ChannelState] /\ Side(d, b, "none") /\ ChannelsElsewhere(d)
  BY <1>1, ChannelChanges DEF Types, ChannelState
<1>4. channel'[<<d, "out">>] = "none" /\ channel'[<<d, "in">>] \in Quiet
  BY <1>2, <1>3 DEF Side, Quiet
<1>5. NoPanic' /\ SearchesElsewhere(d) /\ lossTimer' = lossTimer /\ links[l].slc # "idle"
  BY <1>1, <1>2 DEF NoPanic, SearchesElsewhere
<1>6. Fits(links[l], l \in reconnect, l \in lossTimer,
           searches[d], channel[<<d, "out">>], channel[<<d, "in">>])
  BY <1>2, <1>5, LinkInUse
<1>7. Types'
  BY <1>1, <1>2, <1>3 DEF Types, ConnectFails, DisconnectInd
<1>8. CASE links[l].slc # "complete"
  <2>1. ConnectFails(l) /\ links[l].slc \in Attempting
    BY <1>2, <1>8 DEF Attempting
  <2>2. links[l].sink = <<d, "in">> => channel'[<<d, "in">>] = "none"
    BY <1>2, <1>3, <1>6, ChannelFacts DEF Side, Fits
  <2>3. CASE links[l].loss # "none"
    <3>1. searches'[d] = 0
      BY <1>2, <1>6, <2>3 DEF Fits
    <3> QED BY <1>2, <1>3, <1>4, <1>5, <1>7, <2>1, <2>2, <3>1, FailsMatches
  <2>4. CASE links[l].loss = "none"
    <3>1. links' = Reset(links, l) /\ reconnect' = reconnect
      BY <2>1, <2>4 DEF ConnectFails
    <3>2. l \notin reconnect' /\ l \notin lossTimer' /\ TimersElsewhere(l)
      BY <1>2, <1>5, <1>6, <2>4, <3>1 DEF Fits, TimersElsewhere
    <3> QED BY <1>2, <1>3, <1>4, <1>5, <1>7, <3>1, <3>2, ResetMatches
  <2> QED BY <2>3, <2>4
<1>9. CASE links[l].slc = "complete"
  <2>1. links' = Reset(links, l) /\ reconnect' = reconnect
    BY <1>9 DEF DisconnectInd
  <2>2. l \notin reconnect' /\ l \notin lossTimer' /\ TimersElsewhere(l)
    BY <1>2, <1>5, <1>6, <1>9, <2>1 DEF Fits, TimersElsewhere
  <2> QED BY <1>2, <1>3, <1>4, <1>5, <1>7, <2>1, <2>2, ResetMatches
<1> QED BY <1>8, <1>9

LEMMA FailsAtAllMatches ==
  ASSUME MInv, NEW d \in Device, NEW b \in {"out", "in"}, ChannelFails(<<d, b>>)
  PROVE  Matching' /\ Types' /\ NoPanic'
<1> DEFINE l == hfpGetLinkFromBdaddr(d)
           c == <<d, b>>
<1>1. /\ channel[<<d, b>>] \in {"asked", "opening"}
      /\ channel' = [channel EXCEPT ![<<d, b>>] = "none"]
      /\ UNCHANGED <<lossTimer, requests, delayed, searches, panic>>
  BY DEF ChannelFails
<1>2. l # Null /\ links[l].slc # "complete"
  BY <1>1, ChannelLink DEF InProgress, KnowsSink
<1>3. c[1] = d
  OBVIOUS
<1>4. ConnectFails(l)
  BY <1>2, <1>3 DEF ChannelFails
<1> HIDE DEF l
<1>5. l = hfpGetLinkFromBdaddr(d)
  BY DEF l
<1> QED BY <1>1, <1>2, <1>4, <1>5, ChannelEndMatches

(* hfpGetLinkFromSink finds the link of every open channel. *)
LEMMA SinkLink ==
  ASSUME MInv, NEW d \in Device, NEW b \in {"out", "in"}, channel[<<d, b>>] \in {"up", "closing"}
  PROVE  hfpGetLinkFromSink(<<d, b>>) # Null /\ hfpGetLinkFromSink(<<d, b>>) = hfpGetLinkFromBdaddr(d)
<1> DEFINE k == hfpGetLinkFromBdaddr(d)
           l == hfpGetLinkFromSink(<<d, b>>)
           c == <<d, b>>
<1>1. /\ k \in Link /\ d = links[k].dev /\ links[k].sink = c
      /\ links[k].slc \notin {"idle", "searching"}
  <2>1. ASSUME NEW m, m = hfpGetLinkFromBdaddr(d)
        PROVE  /\ m \in Link /\ d = links[m].dev
               /\ links[m].slc \in {"outgoing", "incoming", "connected", "complete"}
               /\ channel[<<d, b>>] \in {"opening", "up", "closing"} => links[m].sink = <<d, b>>
    <3>1. InProgress(d, b)
      BY DEF InProgress
    <3>2. m \in Link /\ d = links[m].dev
      BY <2>1, <3>1, ChannelLink
    <3>3. links[m].slc \in {"outgoing", "incoming", "connected", "complete"}
      BY <2>1, <3>1, ChannelLink
    <3>4. KnowsSink(m, d, b)
      BY <2>1, <3>1, ChannelLink
    <3> QED BY <3>2, <3>3, <3>4 DEF KnowsSink
  <2>2. /\ k \in Link /\ d = links[k].dev
        /\ links[k].slc \in {"outgoing", "incoming", "connected", "complete"}
        /\ channel[<<d, b>>] \in {"opening", "up", "closing"} => links[k].sink = <<d, b>>
    BY <2>1
  <2> QED BY <2>2
<1>2. c[1] = d /\ LinksOK(links) /\ Matching /\ c # None
  BY ChannelFacts DEF MInv
<1>3. /\ l \in Link /\ l # Null
      /\ \/ links[l].slc = "searching" /\ links[l].dev = d
         \/ links[l].slc \notin {"idle", "searching"} /\ links[l].sink = c
  <2>1. \/ /\ l = Null
           /\ \A m \in Link : ~ (\/ links[m].slc = "searching" /\ links[m].dev = d
                                 \/ links[m].slc \notin {"idle", "searching"} /\ links[m].sink = c)
        \/ /\ l \in Link
           /\ \/ links[l].slc = "searching" /\ links[l].dev = d
              \/ links[l].slc \notin {"idle", "searching"} /\ links[l].sink = c
    BY LinkOfSink
  <2> HIDE DEF l, c
  <2> QED BY <1>1, <2>1, LinkFacts
<1>4. links[l].dev = d /\ links[l].slc # "idle"
  <2>1. CASE links[l].slc = "searching" /\ links[l].dev = d
    BY <2>1
  <2>2. CASE links[l].slc \notin {"idle", "searching"} /\ links[l].sink = c
    <3>1. FitsAt(l, links[l].dev)
      BY <1>2, <1>3, <2>2 DEF Matching
    <3>2. links[l].sink \in {None, <<links[l].dev, "out">>, <<links[l].dev, "in">>}
      BY <3>1 DEF FitsAt, Fits
    <3> QED BY <1>2, <2>2, <3>2
  <2> QED BY <1>3, <2>1, <2>2
<1>5. l = k
  BY <1>1, <1>2, <1>3, <1>4 DEF LinksOK, Apart
<1> QED BY <1>3, <1>5

LEMMA DisconnectedMatches ==
  ASSUME MInv, NEW d \in Device, NEW b \in {"out", "in"}, NEW linkLoss \in BOOLEAN,
         channel[<<d, b>>] \in {"up", "closing"}, Disconnected(<<d, b>>, linkLoss)
  PROVE  Matching' /\ Types' /\ NoPanic'
<1> DEFINE l == hfpGetLinkFromBdaddr(d)
<1>1. hfpGetLinkFromSink(<<d, b>>) # Null /\ hfpGetLinkFromSink(<<d, b>>) = l
  BY SinkLink
<1>2. /\ channel' = [channel EXCEPT ![<<d, b>>] = "none"] /\ UNCHANGED <<requests, delayed, panic>>
      /\ \/ links[l].slc = "complete" /\ linkLoss /\ LinkLoss(l)
         \/ /\ \/ links[l].slc = "complete" /\ DisconnectInd(l) /\ UNCHANGED reconnect
               \/ links[l].slc # "complete" /\ ConnectFails(l)
            /\ UNCHANGED <<lossTimer, searches>>
  BY <1>1 DEF Disconnected
<1>3. l = hfpGetLinkFromBdaddr(d)
  OBVIOUS
<1> HIDE DEF l
<1>4. CASE ~ (links[l].slc = "complete" /\ LinkLoss(l))
  BY <1>2, <1>3, <1>4, ChannelEndMatches
<1>5. CASE links[l].slc = "complete" /\ LinkLoss(l)
  <2> DEFINE ls == [links EXCEPT ![l].loss = "recovery"]
  <2>1. LinksOK(links) /\ Types /\ NoPanic
    BY DEF MInv
  <2>2. /\ l \in Link /\ d = links[l].dev /\ l \notin reconnect
        /\ b = "out" => channel[<<d, "in">>] \in Quiet
        /\ b = "in" => channel[<<d, "out">>] = "none"
    BY <1>3, ChannelLink DEF InProgress, KnowsSink
  <2>3. channel' \in [Channel -> ChannelState] /\ Side(d, b, "none") /\ ChannelsElsewhere(d)
    BY <1>2, <2>1, ChannelChanges DEF Types, ChannelState
  <2>4. channel'[<<d, "out">>] = "none" /\ channel'[<<d, "in">>] \in Quiet
    BY <2>2, <2>3 DEF Side, Quiet
  <2>5. Fits(links[l], l \in reconnect, l \in lossTimer,
             searches[d], channel[<<d, "out">>], channel[<<d, "in">>])
    BY <1>5, <2>2, LinkInUse
  <2>6. searches[d] = 0 /\ links[l].slc # "idle"
    BY <1>5, <2>5 DEF Fits
  <2>7. LinkLossReconnect(ls, l) /\ lossTimer' = lossTimer \cup {l} /\ reconnect' = reconnect
    BY <1>5 DEF LinkLoss
  <2>8. /\ Fields(ls[l], links[l].slc, links[l].dev, links[l].sink, "recovery",
                  links[l].svc, links[l].owns)
        /\ links[l].svc \in Service
    BY <2>1, <2>2, <2>6, LossLinks, LinkInUse
  <2>9. ls[l].loss = "recovery" /\ ls[l].dev = d
    BY <2>2, <2>8 DEF Fields
  <2>10. ls = links \/ ls = [links EXCEPT ![l].loss = "recovery"]
    OBVIOUS
  <2> HIDE DEF ls
  <2>11. searches' = [searches EXCEPT ![d] = @ + 1] /\ busy' \subseteq Service
    BY <2>1, <2>7, <2>9 DEF LinkLossReconnect, hfpGetProfileServerChannel, Types
  <2>12. searches'[d] = 1 /\ searches' \in [Device -> 0..1] /\ SearchesElsewhere(d)
    BY <2>1, <2>6, <2>11 DEF Types, SearchesElsewhere
  <2>13. /\ LinksOK(links') /\ Kept(links', links, l)
         /\ Fields(links'[l], "searching", d, None, "recovery", links[l].svc, FALSE)
    BY <2>1, <2>2, <2>6, <2>7, <2>9, <2>10, ReconnectLinks
  <2>14. links'[l].slc # "idle" /\ links'[l].dev = d
    BY <2>13 DEF Fields
  <2>15. Types' /\ NoPanic' /\ TimersElsewhere(l)
    BY <1>2, <2>1, <2>2, <2>3, <2>7, <2>11, <2>12 DEF Types, NoPanic, TimersElsewhere
  <2>16. Fits(links'[l], l \in reconnect', l \in lossTimer',
              searches'[d], channel'[<<d, "out">>], channel'[<<d, "in">>])
    BY <2>2, <2>4, <2>7, <2>13, ChannelFacts DEF Fits, Fields
  <2> QED BY <2>2, <2>3, <2>6, <2>12, <2>13, <2>14, <2>15, <2>16, LinkMatches
<1> QED BY <1>4, <1>5

LEMMA AcceptIdleMatches ==
  ASSUME MInv, NEW d \in Device, NEW s \in Service, AcceptIdle(d, s),
         channel[<<d, "in">>] \in Quiet, UNCHANGED <<lossTimer, requests, searches, panic>>
  PROVE  Matching' /\ Types' /\ NoPanic'
<1> DEFINE l == hfpGetIdleLink
           c == <<d, "in">>
<1>1. /\ hfpGetLinkFromBdaddr(d) = Null /\ l # Null /\ reconnect' = reconnect
      /\ links' = Setup(links, l, s, d, c, "incoming")
      /\ busy' = busy \cup {s} /\ delayed' = delayed \ {<<d, s>>}
      /\ channel' = [channel EXCEPT ![c] = "opening"]
  BY DEF AcceptIdle, Accepts
<1>2. l \in Link /\ links[l].slc = "idle" /\ LinksOK(links) /\ Matching /\ Types /\ NoPanic
  BY <1>1, IdleLink DEF MInv
<1>3. NoOther(links, l, d)
  BY <1>1, <1>2, FreeForDevice
<1>4. Unused(d)
  BY <1>1, DeviceLink, LinkFacts
<1>5. l \notin reconnect /\ l \notin lossTimer
  BY <1>2 DEF Matching
<1>6. channel' \in [Channel -> ChannelState] /\ Side(d, "in", "opening") /\ ChannelsElsewhere(d)
  BY <1>1, <1>2, ChannelChanges DEF Types, ChannelState
<1>7. Types' /\ NoPanic' /\ SearchesElsewhere(d) /\ TimersElsewhere(l)
  BY <1>1, <1>2, <1>6 DEF Types, NoPanic, SearchesElsewhere, TimersElsewhere
<1>8. links[l].loss = "none"
  BY <1>2 DEF LinksOK, Idles, NoLink
<1> HIDE DEF l
<1>9. /\ LinksOK(links') /\ Kept(links', links, l)
      /\ Fields(links'[l], "incoming", d, c, links[l].loss, s, TRUE)
  BY <1>1, <1>2, <1>3, AcceptLinks
<1>10. links'[l].slc # "idle" /\ links'[l].dev = d
  BY <1>9 DEF Fields
<1>11. Fits(links'[l], l \in reconnect', l \in lossTimer',
            searches'[d], channel'[<<d, "out">>], channel'[<<d, "in">>])
  BY <1>1, <1>4, <1>5, <1>6, <1>8, <1>9, ChannelFacts DEF Fits, Fields, Side, Unused
<1> QED BY <1>2, <1>3, <1>6, <1>7, <1>9, <1>10, <1>11, OneLinkChanges

(* A call for the link of the device, which is set up for it. *)
LEMMA AcceptMatches ==
  ASSUME MInv, NEW d \in Device, NEW s \in Service, NEW l \in Link, links[l].slc # "idle",
         d = links[l].dev, NEW loss, LinksOK(links'), Kept(links', links, l),
         Fields(links'[l], "incoming", d, <<d, "in">>, loss, s, TRUE),
         loss = links[l].loss, channel[<<d, "out">>] = "none",
         searches[d] # 0 => loss = "none",
         channel' = [channel EXCEPT ![<<d, "in">>] = "opening"], delayed' = delayed \ {<<d, s>>},
         busy' \subseteq Service, reconnect' = reconnect \ {l},
         UNCHANGED <<lossTimer, requests, searches, panic>>
  PROVE  Matching' /\ Types' /\ NoPanic'
<1>1. /\ Types /\ NoPanic
      /\ Fits(links[l], l \in reconnect, l \in lossTimer,
              searches[d], channel[<<d, "out">>], channel[<<d, "in">>])
  BY LinkInUse DEF MInv
<1>2. channel' \in [Channel -> ChannelState] /\ Side(d, "in", "opening") /\ ChannelsElsewhere(d)
  BY <1>1, ChannelChanges DEF Types, ChannelState
<1>3. Types' /\ NoPanic' /\ SearchesElsewhere(d) /\ TimersElsewhere(l)
  BY <1>1, <1>2 DEF Types, NoPanic, SearchesElsewhere, TimersElsewhere
<1>4. links'[l].slc # "idle" /\ links'[l].dev = d
  BY DEF Fields
<1>5. Fits(links'[l], l \in reconnect', l \in lossTimer',
           searches'[d], channel'[<<d, "out">>], channel'[<<d, "in">>])
  BY <1>1, <1>2, ChannelFacts DEF Fits, Fields, Side
<1> QED BY <1>2, <1>3, <1>4, <1>5, LinkMatches

LEMMA AcceptLostMatches ==
  ASSUME MInv, NEW d \in Device, NEW s \in Service, AcceptLost(d, s),
         UNCHANGED <<lossTimer, requests, searches, panic>>
  PROVE  Matching' /\ Types' /\ NoPanic'
<1> DEFINE l == hfpGetLinkFromBdaddr(d)
           c == <<d, "in">>
<1>1. /\ l # Null /\ links[l].loss = "recovery" /\ l \in reconnect
      /\ reconnect' = reconnect \ {l} /\ links' = Setup(links, l, s, d, c, "incoming")
      /\ busy' = busy \cup {s} /\ delayed' = delayed \ {<<d, s>>}
      /\ channel' = [channel EXCEPT ![c] = "opening"] /\ LinksOK(links) /\ Types
  BY DEF AcceptLost, Accepts, AwaitsReconnect, MInv
<1>2. /\ l \in Link /\ links[l].slc # "idle" /\ d = links[l].dev
      /\ Fits(links[l], l \in reconnect, l \in lossTimer,
              searches[d], channel[<<d, "out">>], channel[<<d, "in">>])
  BY <1>1, DeviceLink
<1>3. channel[<<d, "out">>] = "none" /\ searches[d] = 0
  BY <1>1, <1>2 DEF Fits
<1>4. NoOther(links, l, d) /\ busy' \subseteq Service
  BY <1>1, <1>2, FreeForDevice DEF Types
<1> HIDE DEF l
<1>5. /\ LinksOK(links') /\ Kept(links', links, l)
      /\ Fields(links'[l], "incoming", d, c, links[l].loss, s, TRUE)
  BY <1>1, <1>2, <1>4, AcceptLinks
<1> QED BY <1>1, <1>2, <1>3, <1>4, <1>5, AcceptMatches

LEMMA AcceptCrossoverMatches ==
  ASSUME Regular, MInv, NEW d \in Device, NEW s \in Service, AcceptCrossover(d, s),
         UNCHANGED <<lossTimer, requests, searches, panic>>
  PROVE  Matching' /\ Types' /\ NoPanic'
<1> DEFINE l == hfpGetLinkFromBdaddr(d)
           c == <<d, "in">>
<1>1. /\ l # Null /\ links[l].slc = "searching" /\ links[l].loss = "none" /\ reconnect' = reconnect
      /\ links' = Setup(Reset(links, l), l, s, d, c, "incoming")
      /\ busy' = (busy \ Released(links, l)) \cup {s} /\ delayed' = delayed \ {<<d, s>>}
      /\ channel' = [channel EXCEPT ![c] = "opening"] /\ LinksOK(links) /\ Types
  BY DEF AcceptCrossover, Accepts, Yields, Regular, MInv
<1>2. /\ l \in Link /\ links[l].slc # "idle" /\ d = links[l].dev
      /\ Fits(links[l], l \in reconnect, l \in lossTimer,
              searches[d], channel[<<d, "out">>], channel[<<d, "in">>])
  BY <1>1, DeviceLink
<1>3. channel[<<d, "out">>] = "none" /\ reconnect' = reconnect \ {l}
  BY <1>1, <1>2 DEF Fits
<1>4. NoOther(links, l, d) /\ busy' \subseteq Service
  BY <1>1, <1>2, FreeForDevice DEF Types
<1> HIDE DEF l
<1>5. /\ LinksOK(links') /\ Kept(links', links, l)
      /\ Fields(links'[l], "incoming", d, c, "none", s, TRUE)
  BY <1>1, <1>2, <1>4, CrossoverLinks
<1> QED BY <1>1, <1>2, <1>3, <1>4, <1>5, AcceptMatches

(* A call that waits, is rejected or given up: the caller's channel is not *)
(* opened.                                                                 *)
LEMMA QuietMatches ==
  ASSUME MInv, NEW d \in Device, channel[<<d, "in">>] \in Quiet,
         NEW v \in Quiet, channel' = [channel EXCEPT ![<<d, "in">>] = v],
         v = "offered" => hfpGetLinkFromBdaddr(d) # Null /\ links[hfpGetLinkFromBdaddr(d)].slc = "outgoing",
         delayed' \subseteq Device \X Service,
         UNCHANGED <<links, busy, reconnect, lossTimer, requests, searches, panic>>
  PROVE  Matching' /\ Types' /\ NoPanic'
<1> DEFINE l == hfpGetLinkFromBdaddr(d)
<1>1. LinksOK(links) /\ Types /\ NoPanic
  BY DEF MInv
<1>2. channel' \in [Channel -> ChannelState] /\ Side(d, "in", v) /\ ChannelsElsewhere(d)
  BY <1>1, ChannelChanges DEF Types, ChannelState, Quiet
<1>3. Types' /\ NoPanic' /\ SearchesElsewhere(d)
  BY <1>1, <1>2 DEF Types, NoPanic, SearchesElsewhere
<1>4. \/ l = Null /\ NoLinkFor(links, d) /\ Unused(d)
      \/ /\ l \in Link /\ l # Null /\ links[l].slc # "idle" /\ links[l].dev = d
         /\ Fits(links[l], l \in reconnect, l \in lossTimer,
                 searches[d], channel[<<d, "out">>], channel[<<d, "in">>])
  BY DeviceLink
<1>5. CASE l = Null
  <2>1. NoLinkFor(links, d) /\ Unused(d)
    BY <1>4, <1>5
  <2>2. channel'[<<d, "out">>] = "none" /\ channel'[<<d, "in">>] \in Quiet
    BY <1>2, <2>1 DEF Side, Unused
  <2> QED BY <1>2, <1>3, <2>1, <2>2, NoLinkMatches
<1>6. CASE l # Null
  <2>1. /\ l \in Link /\ links[l].slc # "idle" /\ d = links[l].dev
        /\ Fits(links[l], l \in reconnect, l \in lossTimer,
                searches[d], channel[<<d, "out">>], channel[<<d, "in">>])
    BY <1>4, <1>6
  <2>2. v = "offered" => links[l].slc = "outgoing"
    OBVIOUS
  <2> HIDE DEF l
  <2>3. /\ Kept(links', links, l) /\ TimersElsewhere(l) /\ LinksOK(links')
        /\ links'[l].dev = d /\ links'[l].slc # "idle"
    BY <1>1, <2>1 DEF Kept, TimersElsewhere
  <2>4. Fits(links[l], l \in reconnect, l \in lossTimer,
             searches[d], channel[<<d, "out">>], v)
    BY <2>1, <2>2, ChannelFacts DEF Fits, Quiet
  <2>5. Fits(links'[l], l \in reconnect', l \in lossTimer',
             searches'[d], channel'[<<d, "out">>], channel'[<<d, "in">>])
    BY <1>2, <2>4 DEF Side
  <2> QED BY <1>2, <1>3, <2>1, <2>3, <2>5, LinkMatches
<1> QED BY <1>5, <1>6

LEMMA ConnectIndMatches ==
  ASSUME Regular, MInv, NEW d \in Device, NEW s \in Service, HandleConnectInd(d, s),
         channel[<<d, "in">>] \in Quiet
  PROVE  Matching' /\ Types' /\ NoPanic'
<1>1. /\ UNCHANGED <<lossTimer, requests, searches, panic>> /\ Types
      /\ \/ AcceptIdle(d, s) \/ AcceptLost(d, s) \/ AcceptCrossover(d, s)
         \/ Delay(d, s) \/ Reject(d, s)
  BY DEF HandleConnectInd, MInv
<1>2. CASE AcceptIdle(d, s)
  BY <1>1, <1>2, AcceptIdleMatches
<1>3. CASE AcceptLost(d, s)
  BY <1>1, <1>3, AcceptLostMatches
<1>4. CASE AcceptCrossover(d, s)
  BY <1>1, <1>4, AcceptCrossoverMatches
<1>5. CASE Delay(d, s)
  <2>1. /\ hfpGetLinkFromBdaddr(d) # Null /\ links[hfpGetLinkFromBdaddr(d)].slc = "outgoing"
        /\ channel' = [channel EXCEPT ![<<d, "in">>] = "offered"]
        /\ UNCHANGED <<links, busy, reconnect>> /\ delayed' \subseteq Device \X Service
    BY <1>1, <1>5 DEF Delay, Types
  <2> QED BY <1>1, <2>1, QuietMatches DEF Quiet
<1>6. CASE Reject(d, s)
  <2>1. /\ channel' = [channel EXCEPT ![<<d, "in">>] = "none"]
        /\ UNCHANGED <<links, busy, reconnect>> /\ delayed' \subseteq Device \X Service
    BY <1>1, <1>6 DEF Reject, Types
  <2> QED BY <1>1, <2>1, QuietMatches DEF Quiet
<1> QED BY <1>1, <1>2, <1>3, <1>4, <1>5, <1>6

LEMMA SetupDoneMatches ==
  ASSUME Regular, MInv, NEW l \in Link, SetupDone(l)
  PROVE  Matching' /\ Types' /\ NoPanic'
<1> DEFINE d == links[l].dev
<1>1. /\ links[l].slc = "connected" /\ channel[links[l].sink] = "up" /\ searches[d] = 0
      /\ links' = [links EXCEPT ![l].slc = "complete", ![l].loss = "none"]
      /\ lossTimer' = IF links[l].loss = "none" THEN lossTimer ELSE lossTimer \ {l}
      /\ UNCHANGED <<busy, reconnect, requests, delayed, searches, channel, panic>>
      /\ LinksOK(links) /\ Types /\ NoPanic
  BY DEF SetupDone, Completes, Regular, MInv
<1>2. links[l].slc # "idle"
  BY <1>1
<1>3. /\ d \in Device
      /\ Fits(links[l], l \in reconnect, l \in lossTimer,
              searches[d], channel[<<d, "out">>], channel[<<d, "in">>])
  BY <1>2, LinkInUse
<1>4. l \notin reconnect /\ l \notin lossTimer'
  BY <1>1, <1>3 DEF Fits
<1>5. /\ LinksOK(links') /\ Kept(links', links, l)
      /\ Fields(links'[l], "complete", d, links[l].sink, "none", links[l].svc, links[l].owns)
  BY <1>1, <1>2, CompleteLinks
<1>6. links'[l].slc # "idle" /\ links'[l].dev = d
  BY <1>5 DEF Fields
<1>7. Types' /\ NoPanic' /\ SearchesElsewhere(d) /\ TimersElsewhere(l) /\ ChannelsElsewhere(d)
  BY <1>1, ChannelsSame DEF Types, NoPanic, SearchesElsewhere, TimersElsewhere
<1>8. Fits(links'[l], l \in reconnect', l \in lossTimer',
           searches'[d], channel'[<<d, "out">>], channel'[<<d, "in">>])
  BY <1>1, <1>3, <1>4, <1>5 DEF Fits, Fields
<1> HIDE DEF d
<1>9. d = links[l].dev
  BY DEF d
<1> QED BY <1>2, <1>5, <1>6, <1>7, <1>8, <1>9, LinkMatches

(* A step that leaves alone what Matching is about. *)
LEMMA SameMatches ==
  ASSUME Matching, UNCHANGED <<links, reconnect, lossTimer, searches, channel>>
  PROVE  Matching'
BY DEF Matching, FitsAt, Unused, NoLinkFor

LEMMA MatchingStep ==
  ASSUME Regular, MInv, [Next]_vars
  PROVE  Matching' /\ Types' /\ NoPanic'
<1>1. LinksOK(links) /\ Matching /\ Types /\ NoPanic
  BY DEF MInv
<1>2. CASE UNCHANGED vars
  BY <1>1, <1>2, SameMatches DEF vars, Types, NoPanic
<1>3. CASE Client
  <2>1. ASSUME NEW d \in Asked, NEW s \in FirstOfProfile, NEW two \in BOOLEAN,
             SlcConnectRequest(d, s, two)
        PROVE  Matching' /\ Types' /\ NoPanic'
    <3>1. d \in Device /\ s \in Service /\ panic' = panic
      BY <2>1, AskedAssumption DEF SlcConnectRequest, FirstOfProfile
    <3> QED BY <1>1, <2>1, <3>1, RequestMatches DEF NoPanic
  <2>2. ASSUME NEW l \in Link, SlcDisconnectRequest(l)
        PROVE  Matching' /\ Types' /\ NoPanic'
    <3>1. requests' \in [Link -> 0..1]
      BY <1>1, <2>2 DEF SlcDisconnectRequest, Types
    <3>2. UNCHANGED <<links, busy, reconnect, lossTimer, delayed, searches, channel, panic>>
      BY <2>2 DEF SlcDisconnectRequest
    <3> QED BY <1>1, <3>1, <3>2, SameMatches DEF Types, NoPanic
  <2> QED BY <1>3, <2>1, <2>2 DEF Client
<1>4. CASE \E l \in Link : Timers(l) \/ Requests(l) \/ AtSetup(l)
  <2>1. ASSUME NEW l \in Link, SetupFails(l)
        PROVE  Matching' /\ Types' /\ NoPanic'
    <3>1. requests' \in [Link -> 0..1]
      BY <1>1, <2>1 DEF SetupFails, Types
    <3>2. UNCHANGED <<links, busy, reconnect, lossTimer, delayed, searches, channel, panic>>
      BY <2>1 DEF SetupFails
    <3> QED BY <1>1, <3>1, <3>2, SameMatches DEF Types, NoPanic
  <2> QED BY <1>4, <2>1, ReconnectMatches, TimeoutMatches, AbortMatches,
             DisconnectRequestMatches, SetupDoneMatches DEF Timers, Requests, AtSetup
<1>5. ASSUME NEW d \in Device, NEW b \in {"out", "in"}, Opening(<<d, b>>)
      PROVE  Matching' /\ Types' /\ NoPanic'
  BY <1>5, OpensMatches, FailsAtAllMatches DEF Opening
<1>6. ASSUME NEW d \in Device, NEW b \in {"out", "in"}, NEW linkLoss \in BOOLEAN,
             ChannelDrops(<<d, b>>, linkLoss) \/ ChannelCloses(<<d, b>>)
      PROVE  Matching' /\ Types' /\ NoPanic'
  <2>1. ASSUME NEW loss \in BOOLEAN, channel[<<d, b>>] \in {"up", "closing"},
               Disconnected(<<d, b>>, loss)
        PROVE  Matching' /\ Types' /\ NoPanic'
    BY <2>1, DisconnectedMatches
  <2> QED BY <1>6, <2>1 DEF ChannelDrops, ChannelCloses
<1>7. CASE \E d \in Device : Sdp(d) \/ Rfcomm(d) \/ RemoteGivesUp(d)
  <2> PICK d \in Device : Sdp(d) \/ Rfcomm(d) \/ RemoteGivesUp(d)
    BY <1>7
  <2>1. CASE Sdp(d)
    <3>1. ~GivenUp(hfpGetLinkFromBdaddr(d))
      BY <2>1 DEF Sdp, Regular
    <3>2. SdpFound(d) \/ \E noData \in BOOLEAN : SdpFails(d, noData)
      BY <2>1 DEF Sdp
    <3> QED BY <3>1, <3>2, SdpFoundMatches, SdpFailsMatches
  <2>2. CASE Rfcomm(d)
    <3>1. CASE OutgoingPending(d)
      BY <3>1, PendingMatches
    <3>2. CASE \E c \in {d} \X {"out", "in"} : Opening(c) \/ ChannelCloses(c)
      <4>1. PICK b \in {"out", "in"} : Opening(<<d, b>>) \/ ChannelCloses(<<d, b>>)
        BY <3>2
      <4> QED BY <4>1, <1>5, <1>6
    <3> QED BY <2>2, <3>1, <3>2 DEF Rfcomm
  <2>3. CASE RemoteGivesUp(d)
    <3>1. /\ channel[<<d, "in">>] = "offered"
          /\ channel' = [channel EXCEPT ![<<d, "in">>] = "none"]
          /\ UNCHANGED <<links, busy, reconnect, lossTimer, requests, delayed, searches, panic>>
      BY <2>3 DEF RemoteGivesUp
    <3>2. delayed' \subseteq Device \X Service /\ "none" \in Quiet /\ "offered" \in Quiet
      BY <1>1, <3>1 DEF Types, Quiet
    <3> QED BY <3>1, <3>2, QuietMatches
  <2> QED BY <2>1, <2>2, <2>3
<1>8. CASE \E call \in Calls : RemoteConnects(call[1], call[2]) \/ LookAgain(call[1], call[2])
  <2>1. PICK d \in Device, s \in Service : RemoteConnects(d, s) \/ LookAgain(d, s)
    BY <1>8, ServiceAssumption
  <2>2. CASE HandleConnectInd(d, s) /\ channel[<<d, "in">>] \in Quiet
    BY <2>2, ConnectIndMatches
  <2>3. CASE /\ delayed' = delayed \ {<<d, s>>}
             /\ UNCHANGED <<links, busy, reconnect, lossTimer, requests, searches, channel, panic>>
    BY <1>1, <2>3, SameMatches DEF Types, NoPanic
  <2> QED BY <2>1, <2>2, <2>3 DEF RemoteConnects, LookAgain, Quiet
<1>9. CASE \E c \in Channel, linkLoss \in BOOLEAN : ChannelDrops(c, linkLoss)
  <2>1. PICK d \in Device, b \in {"out", "in"}, linkLoss \in BOOLEAN : ChannelDrops(<<d, b>>, linkLoss)
    BY <1>9 DEF Channel
  <2> QED BY <2>1, <1>6
<1> QED BY <1>2, <1>3, <1>4, <1>7, <1>8, <1>9 DEF Next

LEMMA MatchingInit ==
  ASSUME Init
  PROVE  MInv
<1>1. LinksOK(links)
  <2>1. links \in [Link -> LinkRecord] /\ \A l \in Link : links[l] = NoLink
    BY NoLinkType DEF Init
  <2> QED BY <2>1 DEF LinksOK, Idles, Uses, Apart, Ranked, NoLink
<1>2. Types /\ NoPanic
  BY DEF Init, Types, NoPanic, ChannelState
<1>3. Matching
  BY ChannelFacts DEF Init, Matching, Unused, Quiet, NoLink
<1> QED BY <1>1, <1>2, <1>3 DEF MInv

(* Links, timers, searches and channels belong together, as long as no AG  *)
(* calls a recovery that searches for it and no search outlives its        *)
(* attempt (hfpHandleRfcommConnectInd, hfpHandleServiceSearchAttributeCfm).*)
THEOREM LinksMatchChannels ==
  ASSUME Regular
  PROVE  Spec => []MInv
<1>1. Init => MInv
  BY MatchingInit
<1>2. MInv /\ [Next]_vars => MInv'
  <2> SUFFICES ASSUME MInv, [Next]_vars PROVE MInv'
    OBVIOUS
  <2>1. LinksOK(links')
    BY LinksStep DEF MInv
  <2>2. Matching' /\ Types' /\ NoPanic'
    BY MatchingStep
  <2> QED BY <2>1, <2>2 DEF MInv
<1> QED BY <1>1, <1>2, PTL DEF Spec

(* The types, and that an idle link is as hfpLinkReset leaves it.          *)
THEOREM TypeCorrect ==
  ASSUME Regular
  PROVE  Spec => []TypeOK
<1>1. MInv => TypeOK
  <2> SUFFICES ASSUME MInv PROVE TypeOK
    OBVIOUS
  <2>1. LinksOK(links) /\ Types
    BY DEF MInv
  <2>2. searches \in [Device -> 0..MaxSearches]
    <3>1. 0..1 \subseteq 0..MaxSearches
      BY LinksAssumption
    <3> QED BY <2>1, <3>1 DEF Types
  <2>3. /\ links \in [Link -> LinkRecord]
        /\ \A l \in Link : links[l].slc = "idle" => links[l] = NoLink
    BY <2>1 DEF LinksOK, Idles
  <2> QED BY <2>1, <2>2, <2>3 DEF Types, TypeOK, LinkRecord, ChannelState
<1> QED BY <1>1, LinksMatchChannels, PTL

(* hfpSendAtCmd always has a sink and hfpHandleRfcommDisconnect a link: it *)
(* takes a call that crosses the search of a recovery (LossCrossover), or  *)
(* a search that outlives its attempt, to make them panic.                 *)
THEOREM NoPanicWithoutCrossover ==
  ASSUME Regular
  PROVE  Spec => []NoPanic
BY LinksMatchChannels, PTL DEF MInv

(* Every open channel has a link that hfpGetLinkFromSink finds.            *)
THEOREM ChannelsHaveLinks ==
  ASSUME Regular
  PROVE  Spec => []ChannelsOwned
<1>1. MInv => ChannelsOwned
  <2> SUFFICES ASSUME MInv, NEW c \in Channel, channel[c] \in {"up", "closing"}
               PROVE  \E l \in Link : /\ links[l].sink = c
                                      /\ links[l].slc \in {"outgoing", "incoming", "connected", "complete"}
    BY DEF ChannelsOwned
  <2>1. PICK d \in Device, b \in {"out", "in"} : c = <<d, b>>
    BY DEF Channel
  <2> DEFINE l == hfpGetLinkFromBdaddr(d)
  <2>2. channel[<<d, b>>] \in {"opening", "up", "closing"} /\ InProgress(d, b)
    BY <2>1 DEF InProgress
  <2>3. /\ l \in Link /\ links[l].slc \in {"outgoing", "incoming", "connected", "complete"}
        /\ KnowsSink(l, d, b)
    BY <2>2, ChannelLink
  <2>4. links[l].sink = c
    BY <2>1, <2>2, <2>3 DEF KnowsSink
  <2> QED BY <2>3, <2>4
<1> QED BY <1>1, LinksMatchChannels, PTL

(* The next attempt of a recovery is due only when the last one is over    *)
(* (hfpHandleRfcommLinkLossComplete).                                      *)
THEOREM ReconnectsOnlyLost ==
  ASSUME Regular
  PROVE  Spec => []ReconnectOnlyLost
<1>1. MInv => ReconnectOnlyLost
  <2> SUFFICES ASSUME MInv, NEW l \in Link, l \in reconnect
               PROVE  /\ links[l].loss # "none"
                      /\ links[l].loss = "recovery" => searches[links[l].dev] = 0
                      /\ links[l].sink # None => channel[links[l].sink] = "none"
    BY DEF ReconnectOnlyLost, MInv, Types
  <2>1. links[l].slc # "idle"
    BY DEF MInv, Matching
  <2> DEFINE d == links[l].dev
  <2>2. Fits(links[l], l \in reconnect, l \in lossTimer,
             searches[d], channel[<<d, "out">>], channel[<<d, "in">>])
    BY <2>1, LinkInUse
  <2>3. links[l].loss # "none" /\ (links[l].loss = "recovery" => searches[d] = 0)
    BY <2>2 DEF Fits
  <2>4. links[l].sink # None => channel[links[l].sink] = "none"
    BY <2>2 DEF Fits
  <2> QED BY <2>3, <2>4
<1> QED BY <1>1, LinksMatchChannels, PTL

(***************************************************************************)
(* Services. A link keeps the service of a failed incoming attempt through *)
(* a recovery; the next call of the AG is then rejected as long as it is   *)
(* for this service, and would make the link forget it if it were for      *)
(* another one. Hence an AG is to call one service.                        *)
(***************************************************************************)
OneService == \A d \in Device, s, t \in Service : <<d, s>> \in Calls /\ <<d, t>> \in Calls => s = t

Owning ==
  /\ busy \subseteq Service
  /\ \A l \in Link : links[l].owns =>
       /\ links[l].slc \notin {"idle", "searching"}
       /\ links[l].svc \in busy /\ <<links[l].dev, links[l].svc>> \in Calls
  /\ \A k, l \in Link : k # l /\ links[k].owns /\ links[l].owns => links[k].svc # links[l].svc
  /\ \A s \in busy : \E l \in Link : links[l].owns /\ links[l].svc = s

LEMMA OwnsSame ==
  ASSUME Owning, NEW l \in Link, Kept(links', links, l), busy' = busy,
         links'[l].owns => /\ links[l].owns /\ links'[l].slc \notin {"idle", "searching"}
                           /\ links'[l].svc = links[l].svc /\ links'[l].dev = links[l].dev,
         links[l].owns => links'[l].owns
  PROVE  Owning'
BY DEF Owning, Kept

LEMMA OwnsUpdate ==
  ASSUME Owning, NEW l \in Link, Kept(links', links, l), busy' = busy,
         NEW slc, slc \notin {"idle", "searching"} \/ slc = links[l].slc, NEW sink, NEW loss,
         Fields(links'[l], slc, links[l].dev, sink, loss, links[l].svc, links[l].owns)
  PROVE  Owning'
BY OwnsSame DEF Fields, Owning

LEMMA OwnsReleased ==
  ASSUME Owning, NEW l \in Link, Kept(links', links, l), ~links'[l].owns,
         busy' = busy \ Released(links, l)
  PROVE  Owning'
<1>1. CASE links[l].owns
  <2>1. busy' = busy \ {links[l].svc}
    BY <1>1 DEF Released
  <2>2. ASSUME NEW k \in Link, links'[k].owns
        PROVE  /\ k # l /\ links[k].owns /\ links'[k].slc = links[k].slc
               /\ links'[k].svc = links[k].svc /\ links'[k].dev = links[k].dev
               /\ links[k].svc # links[l].svc
    BY <1>1, <2>2 DEF Kept, Owning
  <2>3. ASSUME NEW s \in busy' PROVE \E k \in Link : links'[k].owns /\ links'[k].svc = s
    <3>1. PICK k \in Link : links[k].owns /\ links[k].svc = s
      BY <2>1 DEF Owning
    <3>2. k # l
      BY <2>1, <3>1
    <3> QED BY <3>1, <3>2 DEF Kept
  <2> QED BY <2>1, <2>2, <2>3 DEF Owning
<1>2. CASE ~links[l].owns
  <2>1. busy' = busy
    BY <1>2 DEF Released
  <2> QED BY <1>2, <2>1, OwnsSame
<1> QED BY <1>1, <1>2

LEMMA OwnsTaken ==
  ASSUME Owning, NEW l \in Link, Kept(links', links, l), NEW d \in Device, NEW s \in Service,
         NEW sink, NEW loss, Fields(links'[l], "incoming", d, sink, loss, s, TRUE),
         <<d, s>> \in Calls, s \notin busy, busy' = (busy \ Released(links, l)) \cup {s}
  PROVE  Owning'
<1>1. links'[l].owns /\ links'[l].svc = s /\ links'[l].dev = d /\ links'[l].slc = "incoming"
  BY DEF Fields
<1>2. ASSUME NEW k \in Link, k # l, links'[k].owns
      PROVE  /\ links[k].owns /\ links'[k].slc = links[k].slc
             /\ links'[k].svc = links[k].svc /\ links'[k].dev = links[k].dev
             /\ links[k].svc \in busy' /\ links[k].svc # s
  <2>1. links[k].owns /\ links[k].svc \in busy
    BY <1>2 DEF Kept, Owning
  <2>2. links[k].svc \notin Released(links, l)
    BY <1>2, <2>1 DEF Owning, Released
  <2> QED BY <1>2, <2>1, <2>2 DEF Kept
<1>3. ASSUME NEW t \in busy' PROVE \E k \in Link : links'[k].owns /\ links'[k].svc = t
  <2>1. CASE t = s
    BY <2>1, <1>1
  <2>2. CASE t # s
    <3>1. t \in busy /\ t \notin Released(links, l)
      BY <2>2
    <3>2. PICK k \in Link : links[k].owns /\ links[k].svc = t
      BY <3>1 DEF Owning
    <3>3. k # l
      BY <3>1, <3>2 DEF Released
    <3> QED BY <3>2, <3>3 DEF Kept
  <2> QED BY <2>1, <2>2
<1>4. busy' \subseteq Service /\ s \in busy'
  BY DEF Owning
<1> QED BY <1>1, <1>2, <1>3, <1>4 DEF Owning

LEMMA OwnsReset ==
  ASSUME LinksOK(links), Owning, NEW l \in Link, DisconnectInd(l)
  PROVE  Owning'
<1>1. Kept(links', links, l) /\ links'[l] = NoLink /\ busy' = busy \ Released(links, l)
  BY ForgottenLinks DEF DisconnectInd
<1> QED BY <1>1, OwnsReleased DEF NoLink

LEMMA OwnsFails ==
  ASSUME LinksOK(links), Owning, NEW l \in Link, ConnectFails(l)
  PROVE  Owning'
<1>1. CASE UNCHANGED <<links, busy>>
  BY <1>1 DEF Owning
<1>2. CASE DisconnectInd(l)
  BY <1>2, OwnsReset
<1> QED BY <1>1, <1>2 DEF ConnectFails, DisconnectInd

LEMMA OwnsReconnects ==
  ASSUME LinksOK(links), Owning, NEW l \in Link, links[l].slc # "idle",
         NEW ls, ls = links \/ ls = [links EXCEPT ![l].loss = "recovery"],
         LinkLossReconnect(ls, l)
  PROVE  Owning'
<1>1. Kept(links', links, l)
  BY ReconnectLinks
<1>2. ~links'[l].owns
  BY ReconnectLinks DEF Fields, NoLink
<1>3. Released(ls, l) = Released(links, l)
  <2>1. CASE ls = links
    BY <2>1
  <2>2. CASE ls = [links EXCEPT ![l].loss = "recovery"]
    <3>1. Fields(ls[l], links[l].slc, links[l].dev, links[l].sink, "recovery",
                 links[l].svc, links[l].owns)
      BY <2>2, LossLinks
    <3> QED BY <3>1 DEF Fields, Released
  <2> QED BY <2>1, <2>2
<1>4. busy' = busy \ Released(links, l)
  BY <1>3 DEF LinkLossReconnect
<1> QED BY <1>1, <1>2, <1>4, OwnsReleased

LEMMA OwnsDisconnected ==
  ASSUME LinksOK(links), Owning, NEW c \in Channel, NEW linkLoss \in BOOLEAN,
         Disconnected(c, linkLoss)
  PROVE  Owning'
<1> DEFINE l == hfpGetLinkFromSink(c)
<1>1. CASE l = Null
  BY <1>1 DEF Disconnected, Panics, Owning
<1>2. CASE l # Null
  <2>1. l \in Link /\ links[l].slc # "idle"
    BY <1>2, LinkOfSink
  <2>2. LinkLoss(l) \/ DisconnectInd(l) \/ ConnectFails(l)
    BY <1>2 DEF Disconnected
  <2> HIDE DEF l
  <2>3. CASE LinkLoss(l)
    <3> DEFINE ls == [links EXCEPT ![l].loss = "recovery"]
    <3>1. LinkLossReconnect(ls, l)
      BY <2>3 DEF LinkLoss
    <3> HIDE DEF ls
    <3>2. ls = links \/ ls = [links EXCEPT ![l].loss = "recovery"]
      BY DEF ls
    <3> QED BY <2>1, <3>1, <3>2, OwnsReconnects
  <2>4. CASE DisconnectInd(l)
    BY <2>1, <2>4, OwnsReset
  <2>5. CASE ConnectFails(l)
    BY <2>1, <2>5, OwnsFails
  <2> QED BY <2>2, <2>3, <2>4, <2>5
<1> QED BY <1>1, <1>2

LEMMA OwnsConnectInd ==
  ASSUME OneService, LinksOK(links), Owning, NEW d \in Device, NEW s \in Service,
         <<d, s>> \in Calls, HandleConnectInd(d, s)
  PROVE  Owning'
<1> DEFINE l == hfpGetLinkFromBdaddr(d)
           e == hfpGetIdleLink
           c == <<d, "in">>
<1>1. CASE AcceptIdle(d, s)
  <2>1. /\ l = Null /\ e # Null /\ links' = Setup(links, e, s, d, c, "incoming")
        /\ s \notin busy /\ busy' = busy \cup {s}
    BY <1>1 DEF AcceptIdle, Accepts
  <2>2. e \in Link /\ links[e].slc = "idle"
    BY <2>1, IdleLink
  <2>3. NoOther(links, e, d)
    BY <2>1, <2>2, FreeForDevice
  <2>4. Released(links, e) = {}
    BY <2>2 DEF Owning, Released
  <2> HIDE DEF e
  <2>5. /\ Kept(links', links, e)
        /\ Fields(links'[e], "incoming", d, c, links[e].loss, s, TRUE)
    BY <2>1, <2>2, <2>3, AcceptLinks
  <2>6. busy' = (busy \ Released(links, e)) \cup {s}
    BY <2>1, <2>4
  <2> HIDE DEF c
  <2> QED BY <2>1, <2>2, <2>5, <2>6, OwnsTaken
<1>2. CASE UNCHANGED <<links, busy>>
  BY <1>2 DEF Owning
<1>3. CASE ~AcceptIdle(d, s) /\ ~ UNCHANGED <<links, busy>>
  <2>1. /\ l # Null /\ s \notin busy
        /\ \/ links' = Setup(links, l, s, d, c, "incoming") /\ busy' = busy \cup {s}
           \/ /\ links' = Setup(Reset(links, l), l, s, d, c, "incoming")
              /\ busy' = (busy \ Released(links, l)) \cup {s}
    BY <1>3 DEF HandleConnectInd, AcceptLost, AcceptCrossover, Delay, Reject, Accepts
  <2>2. l \in Link /\ links[l].dev = d /\ links[l].slc # "idle"
    BY <2>1, LinkOfDevice
  <2>3. NoOther(links, l, d) /\ links[l].svc \in Service
    BY <2>2, FreeForDevice DEF LinksOK, Uses
  <2>4. ~links[l].owns
    <3>1. links[l].owns => links[l].svc \in busy /\ <<d, links[l].svc>> \in Calls
      BY <2>2 DEF Owning
    <3>2. <<d, links[l].svc>> \in Calls => links[l].svc = s
      BY <2>3 DEF OneService
    <3> QED BY <2>1, <3>1, <3>2
  <2>5. Released(links, l) = {}
    BY <2>4 DEF Released
  <2> HIDE DEF l
  <2>6. busy' = (busy \ Released(links, l)) \cup {s}
    BY <2>1, <2>5
  <2>7. CASE links' = Setup(links, l, s, d, c, "incoming")
    <3>1. /\ Kept(links', links, l)
          /\ Fields(links'[l], "incoming", d, c, links[l].loss, s, TRUE)
      BY <2>2, <2>3, <2>7, AcceptLinks
    <3> HIDE DEF c
    <3> QED BY <2>1, <2>2, <2>6, <3>1, OwnsTaken
  <2>8. CASE links' = Setup(Reset(links, l), l, s, d, c, "incoming")
    <3>1. /\ Kept(links', links, l)
          /\ Fields(links'[l], "incoming", d, c, "none", s, TRUE)
      BY <2>2, <2>3, <2>8, CrossoverLinks
    <3> HIDE DEF c
    <3> QED BY <2>1, <2>2, <2>6, <3>1, OwnsTaken
  <2> QED BY <2>1, <2>7, <2>8
<1> QED BY <1>1, <1>2, <1>3

LEMMA OwningStep ==
  ASSUME OneService, LinksOK(links), Owning, [Next]_vars
  PROVE  Owning'
<1>1. CASE UNCHANGED <<links, busy>>
  BY <1>1 DEF Owning
<1>2. ASSUME NEW d \in Asked, NEW s \in FirstOfProfile, NEW two \in BOOLEAN,
             SlcConnectRequest(d, s, two)
      PROVE  Owning'
  <2> DEFINE l == hfpGetIdleLink
  <2>1. /\ hfpGetLinkFromBdaddr(d) = Null /\ l # Null /\ d \in Device /\ s \in Service
        /\ busy' = busy
        /\ links' = Setup([links EXCEPT ![l].retry = two], l, s, d, None, "searching")
    BY <1>2, AskedAssumption DEF SlcConnectRequest, hfpGetProfileServerChannel, FirstOfProfile
  <2>2. l \in Link /\ links[l].slc = "idle"
    BY <2>1, IdleLink
  <2>3. NoOther(links, l, d) /\ ~links[l].owns
    BY <2>1, <2>2, FreeForDevice DEF Owning
  <2> HIDE DEF l
  <2>4. /\ Kept(links', links, l)
        /\ Fields(links'[l], "searching", d, None, "none", s, FALSE)
    BY <2>1, <2>2, <2>3, RequestLinks
  <2> QED BY <2>1, <2>2, <2>3, <2>4, OwnsSame DEF Fields
<1>3. ASSUME NEW l \in Link, HandleReconnect(l)
      PROVE  Owning'
  <2>1. CASE links[l].slc \in Attempting
    <3>1. LinkLossReconnect(links, l) /\ links[l].slc # "idle"
      BY <1>3, <2>1 DEF HandleReconnect, Attempting
    <3> QED BY <3>1, OwnsReconnects
  <2> QED BY <1>1, <1>3, <2>1 DEF HandleReconnect
<1>4. ASSUME NEW l \in Link, NEW v \in {"timeout", "abort"}, links[l].slc # "idle",
             links' = [links EXCEPT ![l].loss = v], busy' = busy
      PROVE  Owning'
  <2>1. /\ Kept(links', links, l)
        /\ Fields(links'[l], links[l].slc, links[l].dev, links[l].sink, v, links[l].svc, links[l].owns)
    BY <1>4, LossLinks
  <2> QED BY <1>4, <2>1, OwnsUpdate
<1>5. ASSUME NEW l \in Link, HandleLossTimeout(l) \/ AbortRecovery(l)
      PROVE  Owning'
  <2>1. \/ DisconnectInd(l)
        \/ /\ links[l].slc # "idle" /\ busy' = busy
           /\ \/ links' = [links EXCEPT ![l].loss = "timeout"]
              \/ links' = [links EXCEPT ![l].loss = "abort"]
        \/ UNCHANGED <<links, busy>>
    BY <1>5 DEF HandleLossTimeout, AbortRecovery, Attempting
  <2> QED BY <1>1, <1>4, <2>1, OwnsReset
<1>6. ASSUME NEW l \in Link, HandleDisconnectRequest(l)
      PROVE  Owning'
  <2>1. ConnectFails(l) \/ UNCHANGED <<links, busy>>
    BY <1>6 DEF HandleDisconnectRequest
  <2> QED BY <1>1, <2>1, OwnsFails
<1>7. ASSUME NEW l \in Link, AtSetup(l)
      PROVE  Owning'
  <2>1. \/ /\ links[l].slc # "idle" /\ busy' = busy
           /\ links' = [links EXCEPT ![l].slc = "complete", ![l].loss = "none"]
        \/ UNCHANGED <<links, busy>>
    BY <1>7 DEF AtSetup, SetupDone, Completes, SetupFails
  <2>2. CASE /\ links[l].slc # "idle" /\ busy' = busy
             /\ links' = [links EXCEPT ![l].slc = "complete", ![l].loss = "none"]
    <3>1. /\ Kept(links', links, l)
          /\ Fields(links'[l], "complete", links[l].dev, links[l].sink, "none",
                    links[l].svc, links[l].owns)
      BY <2>2, CompleteLinks
    <3> QED BY <2>2, <3>1, OwnsUpdate
  <2> QED BY <1>1, <2>1, <2>2
<1>8. ASSUME NEW d \in Device, SdpFound(d)
      PROVE  Owning'
  <2> DEFINE l == hfpGetLinkFromBdaddr(d)
  <2>1. \/ UNCHANGED <<links, busy>>
        \/ /\ l # Null /\ busy' = busy
           /\ links' = [links EXCEPT ![l].slc = "outgoing", ![l].retry = FALSE]
    BY <1>8 DEF SdpFound
  <2>2. l # Null => l \in Link /\ links[l].slc # "idle"
    BY LinkOfDevice
  <2> HIDE DEF l
  <2>3. CASE /\ l # Null /\ busy' = busy
             /\ links' = [links EXCEPT ![l].slc = "outgoing", ![l].retry = FALSE]
    <3>1. /\ Kept(links', links, l)
          /\ Fields(links'[l], "outgoing", links[l].dev, links[l].sink, links[l].loss,
                    links[l].svc, links[l].owns)
      BY <2>2, <2>3, FoundLinks
    <3> QED BY <2>2, <2>3, <3>1, OwnsUpdate
  <2> QED BY <1>1, <2>1, <2>3
<1>9. ASSUME NEW d \in Device, NEW noData \in BOOLEAN, SdpFails(d, noData)
      PROVE  Owning'
  <2> DEFINE l == hfpGetLinkFromBdaddr(d)
  <2>1. \/ UNCHANGED <<links, busy>>
        \/ l # Null /\ Retries(l, d)
        \/ l # Null /\ ConnectFails(l)
    BY <1>9, RetriesAre
  <2>2. l # Null => l \in Link /\ links[l].slc # "idle" /\ d = links[l].dev
    BY LinkOfDevice
  <2> HIDE DEF l
  <2>3. CASE l # Null /\ ConnectFails(l)
    BY <2>2, <2>3, OwnsFails
  <2>4. CASE l # Null /\ Retries(l, d)
    <3>1. PICK s \in Service :
            links' = Setup([links EXCEPT ![l].retry = FALSE], l, s, d, None, "searching")
      BY <2>4 DEF Retries
    <3>2. ~links[l].owns /\ busy' = busy
      BY <2>2, <2>4 DEF Retries, Owning
    <3>3. /\ Kept(links', links, l)
          /\ Fields(links'[l], "searching", d, None, links[l].loss, s, links[l].owns)
      BY <2>2, <2>4, <3>1, RetryLinks
    <3>4. ~links'[l].owns
      BY <3>2, <3>3 DEF Fields
    <3> QED BY <2>2, <2>4, <3>2, <3>3, <3>4, OwnsSame
  <2> QED BY <1>1, <2>1, <2>3, <2>4
<1>10. ASSUME NEW d \in Device, OutgoingPending(d)
       PROVE  Owning'
  <2> DEFINE l == hfpGetLinkFromBdaddr(d)
             c == <<d, "out">>
  <2>1. \/ UNCHANGED <<links, busy>>
        \/ l # Null /\ links' = [links EXCEPT ![l].sink = c] /\ busy' = busy
    BY <1>10 DEF OutgoingPending
  <2>2. l # Null => l \in Link /\ links[l].slc # "idle"
    BY LinkOfDevice
  <2>3. c \in Channel
    BY DEF Channel
  <2> HIDE DEF l, c
  <2>4. CASE l # Null /\ links' = [links EXCEPT ![l].sink = c] /\ busy' = busy
    <3>1. /\ Kept(links', links, l)
          /\ Fields(links'[l], links[l].slc, links[l].dev, c, links[l].loss,
                    links[l].svc, links[l].owns)
      BY <2>2, <2>3, <2>4, SinkLinks
    <3> QED BY <2>2, <2>4, <3>1, OwnsUpdate
  <2> QED BY <1>1, <2>1, <2>4
<1>11. ASSUME NEW c \in Channel, Opening(c)
       PROVE  Owning'
  <2> DEFINE l == hfpGetLinkFromBdaddr(c[1])
  <2>1. \/ UNCHANGED <<links, busy>>
        \/ l # Null /\ links' = [links EXCEPT ![l].slc = "connected"] /\ busy' = busy
        \/ /\ l # Null /\ busy' = busy
           /\ links' = [links EXCEPT ![l].slc = "complete", ![l].loss = "none"]
        \/ l # Null /\ ConnectFails(l)
    BY <1>11 DEF Opening, ChannelOpens, Completes, ChannelFails, Panics
  <2>2. l # Null => l \in Link /\ links[l].slc # "idle"
    BY LinkOfDevice
  <2> HIDE DEF l
  <2>3. CASE l # Null /\ ConnectFails(l)
    BY <2>2, <2>3, OwnsFails
  <2>4. CASE l # Null /\ links' = [links EXCEPT ![l].slc = "connected"] /\ busy' = busy
    <3>1. /\ Kept(links', links, l)
          /\ Fields(links'[l], "connected", links[l].dev, links[l].sink, links[l].loss,
                    links[l].svc, links[l].owns)
      BY <2>2, <2>4, OpenLinks
    <3> QED BY <2>2, <2>4, <3>1, OwnsUpdate
  <2>5. CASE /\ l # Null /\ busy' = busy
             /\ links' = [links EXCEPT ![l].slc = "complete", ![l].loss = "none"]
    <3>1. /\ Kept(links', links, l)
          /\ Fields(links'[l], "complete", links[l].dev, links[l].sink, "none",
                    links[l].svc, links[l].owns)
      BY <2>2, <2>5, CompleteLinks
    <3> QED BY <2>2, <2>5, <3>1, OwnsUpdate
  <2> QED BY <1>1, <2>1, <2>3, <2>4, <2>5
<1>12. ASSUME NEW call \in Calls, RemoteConnects(call[1], call[2]) \/ LookAgain(call[1], call[2])
       PROVE  Owning'
  <2>1. PICK d \in Device, s \in Service : call = <<d, s>>
    <3>1. call \in Device \X Service
      BY ServiceAssumption
    <3> QED BY <3>1
  <2>2. HandleConnectInd(d, s) \/ UNCHANGED <<links, busy>>
    BY <1>12, <2>1 DEF RemoteConnects, LookAgain
  <2>3. <<d, s>> \in Calls
    BY <2>1
  <2> QED BY <1>1, <2>2, <2>3, OwnsConnectInd
<1>13. ASSUME NEW c \in Channel, NEW linkLoss \in BOOLEAN, Disconnected(c, linkLoss)
       PROVE  Owning'
  BY <1>13, OwnsDisconnected
<1>14. CASE UNCHANGED vars
  BY <1>1, <1>14 DEF vars
<1>15. CASE Client
  BY <1>15, <1>1, <1>2 DEF Client, SlcDisconnectRequest
<1>16. CASE \E l \in Link : Timers(l) \/ Requests(l) \/ AtSetup(l)
  BY <1>16, <1>3, <1>5, <1>6, <1>7 DEF Timers, Requests
<1>17. CASE \E d \in Device : Sdp(d) \/ Rfcomm(d) \/ RemoteGivesUp(d)
  <2> PICK d \in Device : Sdp(d) \/ Rfcomm(d) \/ RemoteGivesUp(d)
    BY <1>17
  <2>1. CASE Sdp(d)
    BY <2>1, <1>8, <1>9 DEF Sdp
  <2>2. CASE Rfcomm(d)
    <3>1. CASE OutgoingPending(d)
      BY <3>1, <1>10
    <3>2. CASE \E c \in {d} \X {"out", "in"} : Opening(c) \/ ChannelCloses(c)
      <4>1. PICK c \in Channel : Opening(c) \/ Disconnected(c, FALSE)
        BY <3>2 DEF Channel, ChannelCloses
      <4> QED BY <4>1, <1>11, <1>13
    <3> QED BY <2>2, <3>1, <3>2 DEF Rfcomm
  <2>3. CASE RemoteGivesUp(d)
    BY <2>3, <1>1 DEF RemoteGivesUp
  <2> QED BY <2>1, <2>2, <2>3
<1>18. CASE \E call \in Calls : RemoteConnects(call[1], call[2]) \/ LookAgain(call[1], call[2])
  BY <1>18, <1>12
<1>19. CASE \E c \in Channel, linkLoss \in BOOLEAN : ChannelDrops(c, linkLoss)
  BY <1>19, <1>13 DEF ChannelDrops
<1> QED BY <1>14, <1>15, <1>16, <1>17, <1>18, <1>19 DEF Next

(* The busy services are the ones that links own: no service is blocked    *)
(* for incoming calls for ever, also where calls cross a recovery          *)
(* (hfpLinkReset, hfpHandleRfcommConnectInd).                              *)
THEOREM ServicesAreAccountedFor ==
  ASSUME OneService
  PROVE  Spec => []ServicesAccountedFor
<1> DEFINE I == LinksOK(links) /\ Owning
<1>1. Init => I
  <2> SUFFICES ASSUME Init PROVE I
    OBVIOUS
  <2>1. LinksOK(links)
    BY MatchingInit DEF MInv
  <2>2. Owning
    BY DEF Init, Owning, NoLink
  <2> QED BY <2>1, <2>2
<1>2. I /\ [Next]_vars => I'
  <2> SUFFICES ASSUME I, [Next]_vars PROVE LinksOK(links') /\ Owning'
    OBVIOUS
  <2> QED BY LinksStep, OwningStep
<1>3. I => ServicesAccountedFor
  <2> SUFFICES ASSUME Owning PROVE busy = {links[l].svc : l \in {k \in Link : links[k].owns}}
    BY DEF ServicesAccountedFor
  <2>1. ASSUME NEW s \in busy PROVE s \in {links[l].svc : l \in {k \in Link : links[k].owns}}
    BY DEF Owning
  <2>2. ASSUME NEW l \in {k \in Link : links[k].owns} PROVE links[l].svc \in busy
    BY DEF Owning
  <2> QED BY <2>1, <2>2
<1> QED BY <1>1, <1>2, <1>3, PTL DEF Spec
=============================================================================
