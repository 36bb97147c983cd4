-------------------------- MODULE KernelTaskProofs --------------------------
(***************************************************************************)
(* Proofs about the message list of kernel/task.c, for any heap, any set   *)
(* of identifiers and any number of messages.                              *)
(***************************************************************************)
EXTENDS KernelTask, SequenceTheorems, TLAPS

(* Appending to the second part of a concatenation appends to the whole.   *)
LEMMA ConcatAppend ==
  ASSUME NEW S, NEW s \in Seq(S), NEW t \in Seq(S), NEW e \in S
  PROVE  s \o Append(t, e) = Append(s \o t, e)
  BY AppendIsConcat, ConcatAssociative, ConcatProperties, <<e>> \in Seq(S)

(* Moving the head of the second part to the end of the first changes      *)
(* nothing of the concatenation.                                           *)
LEMMA ConcatHeadTail ==
  ASSUME NEW S, NEW s \in Seq(S), NEW t \in Seq(S), t # <<>>
  PROVE  Append(s, Head(t)) \o Tail(t) = s \o t
<1> DEFINE a == Append(s, Head(t)) \o Tail(t)
           b == s \o t
<1>1. /\ Head(t) \in S /\ Tail(t) \in Seq(S) /\ Len(Tail(t)) = Len(t) - 1
      /\ \A i \in 1 .. Len(Tail(t)) : Tail(t)[i] = t[i + 1]
      /\ Head(t) = t[1] /\ Len(t) \in Nat /\ Len(s) \in Nat /\ Len(t) > 0
  BY HeadTailProperties, LenProperties, EmptySeq
<1>2. /\ Append(s, Head(t)) \in Seq(S)
      /\ Len(Append(s, Head(t))) = Len(s) + 1
      /\ \A i \in 1 .. Len(s) : Append(s, Head(t))[i] = s[i]
      /\ Append(s, Head(t))[Len(s) + 1] = Head(t)
  BY <1>1, AppendProperties
<1>3. /\ a \in Seq(S) /\ Len(a) = Len(s) + 1 + (Len(t) - 1)
      /\ \A i \in 1 .. (Len(s) + 1 + (Len(t) - 1)) :
           a[i] = IF i <= Len(s) + 1 THEN Append(s, Head(t))[i]
                                     ELSE Tail(t)[i - (Len(s) + 1)]
  BY <1>1, <1>2, ConcatProperties
<1>4. /\ b \in Seq(S) /\ Len(b) = Len(s) + Len(t)
      /\ \A i \in 1 .. Len(s) + Len(t) :
           b[i] = IF i <= Len(s) THEN s[i] ELSE t[i - Len(s)]
  BY ConcatProperties
<1>5. \A i \in 1 .. Len(a) : a[i] = b[i]
  <2> SUFFICES ASSUME NEW i \in 1 .. Len(a) PROVE a[i] = b[i]
    OBVIOUS
  <2>1. CASE i <= Len(s)
    BY <2>1, <1>1, <1>2, <1>3, <1>4
  <2>2. CASE i = Len(s) + 1
    BY <2>2, <1>1, <1>2, <1>3, <1>4
  <2>3. CASE i > Len(s) + 1
    <3>1. i - (Len(s) + 1) \in 1 .. Len(Tail(t))
      BY <2>3, <1>1, <1>3
    <3>2. Tail(t)[i - (Len(s) + 1)] = t[i - (Len(s) + 1) + 1]
      BY <3>1, <1>1
    <3> QED BY <2>3, <3>2, <1>1, <1>3, <1>4
  <2> QED BY <2>1, <2>2, <2>3, <1>1, <1>3
<1> QED BY <1>1, <1>3, <1>4, <1>5, SeqEqual

(* What waits is a sequence of identifiers as long as the list.            *)
LEMMA WaitingType ==
  ASSUME TypeOK, NodesAccountedFor, \A n \in NodeBlock : idOf[n] \in Id
  PROVE  /\ Waiting \in Seq(Id) /\ Len(Waiting) = Len(order)
         /\ \A i \in 1 .. Len(order) : Waiting[i] = idOf[order[i]]
<1>1. DOMAIN order = 1 .. Len(order) /\ Len(order) \in Nat
  BY LenProperties DEF TypeOK
<1>2. \A i \in 1 .. Len(order) : idOf[order[i]] \in Id
  BY <1>1 DEF NodesAccountedFor, Nodes
<1> QED BY <1>1, <1>2 DEF Waiting

(* The initial state has an empty list.                                    *)
LEMMA InitIInv == Init => IInv
<1> SUFFICES ASSUME Init PROVE IInv
  OBVIOUS
<1>1. NodeBlock = {} /\ Nodes = {} /\ Waiting = <<>>
  BY DEF Init, NodeBlock, Nodes, Waiting
<1>2. TypeOK
  BY DEF Init, TypeOK, Pointer
<1> QED BY <1>1, <1>2, BlockAssumption
        DEF Init, IInv, ListShape, NodesAccountedFor, CurrWhileHandling, InOrder

(* Linking a new node at the tail keeps the list well formed.              *)
LEMMA LinkStep ==
  ASSUME IInv, NEW id \in Id, NEW p \in Pointer, NEW n \in Block,
         Link(id, p, n)
  PROVE  IInv' /\ Waiting' = Append(Waiting, id)
<1> USE BlockAssumption
<1>1. /\ TypeOK /\ ListShape /\ NodesAccountedFor /\ CurrWhileHandling /\ InOrder
      /\ \A m \in NodeBlock : idOf[m] \in Id
  BY DEF IInv
<1>2. DOMAIN order = 1 .. Len(order) /\ Len(order) \in Nat
      /\ \A i \in 1 .. Len(order) : order[i] \in Block
  BY <1>1, LenProperties DEF TypeOK
<1>3. /\ order' \in Seq(Block) /\ Len(order') = Len(order) + 1
      /\ \A i \in 1 .. Len(order) : order'[i] = order[i]
      /\ order'[Len(order) + 1] = n
      /\ DOMAIN order' = 1 .. Len(order) + 1
  <2>1. order' = Append(order, n) /\ order \in Seq(Block)
    BY <1>1 DEF Link, Fill, LinkNode, TypeOK
  <2> QED BY <2>1, AppendProperties, LenProperties, <1>2
<1>4. order' # <<>>
  BY <1>3, <1>2
<1>5. n \notin NodeBlock /\ n \notin Nodes /\ n # curr /\ p \notin NodeBlock
  <2>1. n \in FreeBlock /\ (p \in FreeBlock \/ p = NULL)
    BY DEF Link, Fill, LinkNode
  <2>2. n \notin NodeBlock /\ p \notin NodeBlock
    BY <2>1 DEF FreeBlock, NodeBlock
  <2> QED BY <2>2, <1>1 DEF NodesAccountedFor
<1>6. Nodes' = Nodes \cup {n}
  BY <1>2, <1>3 DEF Nodes
<1>7. NodeBlock' = NodeBlock \cup {n}
  BY <1>5 DEF Link, Fill, LinkNode, NodeBlock
<1>8. TypeOK'
  <2>1. sent' \in Seq(Id)
    BY <1>1 DEF Link, Fill, LinkNode, TypeOK
  <2>2. order = <<>> \/ tail \in Block
    BY <1>1, <1>2 DEF ListShape
  <2>3. nextOf' \in [Block -> Pointer] /\ first' \in Pointer /\ tail' \in Pointer
    BY <1>1 DEF Link, Fill, LinkNode, TypeOK, Pointer
  <2> QED BY <1>1, <1>3, <2>1, <2>3 DEF Link, Fill, LinkNode, TypeOK, Pointer
<1>9. ListShape'
  <2>1. CASE order = <<>>
    <3>1. Len(order) = 0 /\ first = NULL
      BY <2>1, <1>1 DEF ListShape
    <3>2. nextOf' = [nextOf EXCEPT ![n] = NULL] /\ first' = n /\ tail' = n
      BY <3>1 DEF Link, Fill, LinkNode
    <3>3. nextOf'[n] = NULL
      BY <3>2, <1>1 DEF TypeOK
    <3> QED BY <3>1, <3>2, <3>3, <1>3, <1>4 DEF ListShape
  <2>2. CASE order # <<>>
    <3>1. /\ first = order[1] /\ tail = order[Len(order)] /\ nextOf[tail] = NULL
          /\ \A i \in 1 .. Len(order) - 1 : nextOf[order[i]] = order[i + 1]
      BY <2>2, <1>1 DEF ListShape
    <3>2. Len(order) > 0
      BY <2>2, <1>1, <1>2, EmptySeq DEF TypeOK
    <3>3. first \in Block /\ tail \in Nodes /\ tail \in Block
      BY <3>1, <3>2, <1>2 DEF Nodes
    <3>4. nextOf' = [nextOf EXCEPT ![n] = NULL, ![tail] = n]
          /\ first' = first /\ tail' = n
      BY <3>3 DEF Link, Fill, LinkNode
    <3>5. nextOf'[n] = NULL /\ nextOf'[tail] = n
          /\ \A b \in Block \ {n, tail} : nextOf'[b] = nextOf[b]
      BY <3>3, <3>4, <1>1, <1>5 DEF TypeOK
    <3>6. \A i \in 1 .. Len(order) : nextOf'[order'[i]] = order'[i + 1]
      <4> SUFFICES ASSUME NEW i \in 1 .. Len(order)
                   PROVE  nextOf'[order'[i]] = order'[i + 1]
        OBVIOUS
      <4>1. CASE i = Len(order)
        BY <4>1, <3>1, <3>5, <1>2, <1>3
      <4>2. CASE i # Len(order)
        <5>1. i \in 1 .. Len(order) - 1 /\ i + 1 \in 1 .. Len(order)
          <6>1. Len(order) \in Nat
            BY <1>2
          <6> QED BY <4>2, <6>1
        <5>2. order[i] # order[Len(order)]
          BY <4>2, <1>1, <1>2, <3>2 DEF NodesAccountedFor
        <5>3. order[i] \in Block \ {n, tail}
          BY <5>2, <3>1, <1>2, <1>5 DEF Nodes
        <5> QED BY <5>1, <5>3, <3>1, <3>5, <1>3
      <4> QED BY <4>1, <4>2
    <3>7. first' = order'[1] /\ tail' = order'[Len(order')]
      BY <3>1, <3>2, <3>4, <1>2, <1>3
    <3>8. Len(order') - 1 = Len(order)
      BY <1>2, <1>3
    <3> QED BY <3>4, <3>5, <3>6, <3>7, <3>8, <1>4 DEF ListShape
  <2> QED BY <2>1, <2>2
<1>10. NodesAccountedFor'
  <2>1. curr' = curr
    BY DEF Link, Fill, LinkNode
  <2>2. \A i, j \in DOMAIN order' : order'[i] = order'[j] => i = j
    <3>1. \A i \in 1 .. Len(order) : order[i] # n
      BY <1>2, <1>5 DEF Nodes
    <3> QED BY <3>1, <1>1, <1>2, <1>3 DEF NodesAccountedFor
  <2> QED BY <2>1, <2>2, <1>1, <1>5, <1>6, <1>7 DEF NodesAccountedFor
<1>11. \A m \in NodeBlock' : idOf'[m] \in Id
  BY <1>1, <1>7 DEF Link, Fill, LinkNode, TypeOK, NodeBlock
<1>12. CurrWhileHandling'
  BY <1>1 DEF Link, Fill, LinkNode, CurrWhileHandling
<1>13. Waiting' = Append(Waiting, id)
  <2>1. Waiting \in Seq(Id) /\ Len(Waiting) = Len(order)
        /\ \A i \in 1 .. Len(order) : Waiting[i] = idOf[order[i]]
    BY <1>1, WaitingType
  <2>2. Waiting' \in Seq(Id) /\ Len(Waiting') = Len(order) + 1
        /\ \A i \in 1 .. Len(order) + 1 : Waiting'[i] = idOf'[order'[i]]
    <3>1. \A i \in 1 .. Len(order) + 1 : order'[i] \in NodeBlock'
      BY <1>3, <1>10 DEF NodesAccountedFor, Nodes
    <3>2. \A i \in 1 .. Len(order) + 1 : idOf'[order'[i]] \in Id
      BY <3>1, <1>11
    <3> QED BY <3>2, <1>2, <1>3 DEF Waiting
  <2>3. \A i \in 1 .. Len(order) : idOf'[order'[i]] = idOf[order[i]]
    <3>1. \A i \in 1 .. Len(order) : order[i] # n
      BY <1>2, <1>5 DEF Nodes
    <3> QED BY <3>1, <1>1, <1>2, <1>3 DEF Link, Fill, LinkNode, TypeOK
  <2>4. idOf'[order'[Len(order) + 1]] = id
    BY <1>1, <1>3 DEF Link, Fill, LinkNode, TypeOK
  <2>5. /\ Append(Waiting, id) \in Seq(Id)
        /\ Len(Append(Waiting, id)) = Len(order) + 1
        /\ \A i \in 1 .. Len(order) : Append(Waiting, id)[i] = Waiting[i]
        /\ Append(Waiting, id)[Len(order) + 1] = id
    BY <2>1, AppendProperties
  <2>6. \A i \in 1 .. Len(order) + 1 : Waiting'[i] = Append(Waiting, id)[i]
    BY <2>1, <2>2, <2>3, <2>4, <2>5, <1>2
  <2> QED BY <2>2, <2>5, <2>6, SeqEqual
<1>14. InOrder'
  <2>1. Waiting \in Seq(Id) /\ delivered \in Seq(Id)
    BY <1>1, WaitingType DEF TypeOK
  <2>2. delivered \o Append(Waiting, id) = Append(delivered \o Waiting, id)
    BY <2>1, ConcatAppend
  <2>3. sent' = Append(sent, id) /\ delivered' = delivered
    BY DEF Link, Fill, LinkNode
  <2> QED BY <2>2, <2>3, <1>1, <1>13 DEF InOrder
<1> QED BY <1>8, <1>9, <1>10, <1>11, <1>12, <1>13, <1>14 DEF IInv

(* Unlinking the first node keeps the rest of the list well formed.        *)
LEMMA DispatchStep ==
  ASSUME IInv, Dispatch
  PROVE  /\ IInv'
         /\ Waiting # <<>> /\ Head(Waiting) = idOf[first]
         /\ Waiting' = Tail(Waiting)
<1> USE BlockAssumption
<1>1. /\ TypeOK /\ ListShape /\ NodesAccountedFor /\ CurrWhileHandling /\ InOrder
      /\ \A m \in NodeBlock : idOf[m] \in Id
  BY DEF IInv
<1>2. order # <<>> /\ order \in Seq(Block)
  BY <1>1 DEF Dispatch, ListShape, TypeOK
<1>3. /\ Len(order) \in Nat /\ Len(order) > 0 /\ DOMAIN order = 1 .. Len(order)
      /\ \A i \in 1 .. Len(order) : order[i] \in Block
  BY <1>2, EmptySeq, LenProperties
<1>4. /\ order' \in Seq(Block) /\ Len(order') = Len(order) - 1
      /\ DOMAIN order' = 1 .. Len(order) - 1
      /\ \A i \in 1 .. Len(order) - 1 : order'[i] = order[i + 1]
  <2>1. order' = Tail(order)
    BY <1>2, TailIsSubSeq DEF Dispatch
  <2> QED BY <2>1, <1>2, <1>3, HeadTailProperties, LenProperties
<1>5. /\ first = order[1] /\ tail = order[Len(order)] /\ nextOf[tail] = NULL
      /\ \A i \in 1 .. Len(order) - 1 : nextOf[order[i]] = order[i + 1]
  BY <1>1, <1>2 DEF ListShape
<1>6. first \in Nodes /\ first \in NodeBlock /\ first \in Block
  <2>1. first \in Nodes
    BY <1>3, <1>5 DEF Nodes
  <2> QED BY <2>1, <1>1 DEF NodesAccountedFor, NodeBlock
<1>7. /\ curr = NULL /\ curr' = first /\ first' = nextOf[first] /\ pc' = "handler"
      /\ delivered' = Append(delivered, idOf[first])
      /\ UNCHANGED <<tail, block, nextOf, idOf, payloadOf, sent>>
  BY <1>1 DEF Dispatch, Unlink, CurrWhileHandling, memory
<1>8. NodeBlock' = NodeBlock
  BY <1>7 DEF NodeBlock
<1>9. TypeOK'
  <2>1. idOf[first] \in Id
    BY <1>1, <1>6
  <2> QED BY <2>1, <1>1, <1>4, <1>6, <1>7 DEF TypeOK, Pointer
<1>10. Nodes = Nodes' \cup {first} /\ first \notin Nodes'
  <2>1. \A i \in 1 .. Len(order) : i # 1 => order[i] # first
    BY <1>1, <1>3, <1>5 DEF NodesAccountedFor
  <2>2. first \notin Nodes'
    BY <2>1, <1>3, <1>4 DEF Nodes
  <2>3. Nodes' \subseteq Nodes
    BY <1>3, <1>4 DEF Nodes
  <2>4. ASSUME NEW i \in 1 .. Len(order) PROVE order[i] \in Nodes' \cup {first}
    <3>1. CASE i = 1
      BY <3>1, <1>5
    <3>2. CASE i # 1
      <4>1. i - 1 \in 1 .. Len(order) - 1 /\ (i - 1) + 1 = i
        BY <3>2, <1>3
      <4> QED BY <4>1, <1>4 DEF Nodes
    <3> QED BY <3>1, <3>2
  <2> QED BY <2>2, <2>3, <2>4, <1>3, <1>6 DEF Nodes
<1>11. ListShape'
  <2>1. CASE Len(order) = 1
    BY <2>1, <1>4, <1>5, <1>7, EmptySeq DEF ListShape
  <2>2. CASE Len(order) # 1
    <3>1. Len(order) > 1 /\ 1 \in 1 .. Len(order) - 1
          /\ Len(order) - 1 \in 1 .. Len(order) - 1
      BY <2>2, <1>3
    <3>2. order' # <<>>
      BY <3>1, <1>4, EmptySeq
    <3>3. first' = order'[1] /\ tail' = order'[Len(order')]
      BY <3>1, <1>3, <1>4, <1>5, <1>7
    <3>4. \A i \in 1 .. Len(order') - 1 : nextOf'[order'[i]] = order'[i + 1]
      <4> SUFFICES ASSUME NEW i \in 1 .. Len(order') - 1
                   PROVE  nextOf'[order'[i]] = order'[i + 1]
        OBVIOUS
      <4>1. /\ i \in 1 .. Len(order) - 1 /\ i + 1 \in 1 .. Len(order) - 1
        BY <1>3, <1>4
      <4> QED BY <4>1, <1>4, <1>5, <1>7
    <3> QED BY <3>2, <3>3, <3>4, <1>5, <1>7 DEF ListShape
  <2> QED BY <2>1, <2>2
<1>12. NodesAccountedFor'
  <2>1. \A i, j \in DOMAIN order' : order'[i] = order'[j] => i = j
    BY SMTT(30), <1>1, <1>3, <1>4 DEF NodesAccountedFor
  <2> QED BY <2>1, <1>1, <1>6, <1>7, <1>8, <1>10 DEF NodesAccountedFor
<1>13. CurrWhileHandling'
  BY <1>6, <1>7 DEF CurrWhileHandling
<1>14. Waiting # <<>> /\ Head(Waiting) = idOf[first] /\ Waiting' = Tail(Waiting)
  <2>1. Waiting \in Seq(Id) /\ Len(Waiting) = Len(order)
        /\ \A i \in 1 .. Len(order) : Waiting[i] = idOf[order[i]]
    BY <1>1, WaitingType
  <2>2. Waiting # <<>>
    BY <2>1, <1>3, EmptySeq
  <2>3. Head(Waiting) = idOf[first]
    BY <2>1, <1>3, <1>5
  <2>4. /\ Waiting' \in Seq(Id) /\ Len(Waiting') = Len(order) - 1
        /\ \A i \in 1 .. Len(order) - 1 : Waiting'[i] = idOf[order[i + 1]]
    <3>1. \A i \in 1 .. Len(order) - 1 : order[i + 1] \in NodeBlock
      BY <1>1, <1>3 DEF NodesAccountedFor, Nodes
    <3> QED BY <3>1, <1>1, <1>3, <1>4, <1>7 DEF Waiting
  <2>5. /\ Tail(Waiting) \in Seq(Id) /\ Len(Tail(Waiting)) = Len(order) - 1
        /\ \A i \in 1 .. Len(order) - 1 : Tail(Waiting)[i] = Waiting[i + 1]
    BY <2>1, <2>2, HeadTailProperties
  <2>6. \A i \in 1 .. Len(order) - 1 : Waiting'[i] = Tail(Waiting)[i]
    <3> TAKE i \in 1 .. Len(order) - 1
    <3>1. i + 1 \in 1 .. Len(order)
      BY <1>3
    <3> QED BY <3>1, <2>1, <2>4, <2>5
  <2> QED BY <2>2, <2>3, <2>4, <2>5, <2>6, SeqEqual
<1>15. InOrder'
  <2>1. Waiting \in Seq(Id) /\ delivered \in Seq(Id)
    BY <1>1, WaitingType DEF TypeOK
  <2>2. Append(delivered, Head(Waiting)) \o Tail(Waiting) = delivered \o Waiting
    BY <2>1, <1>14, ConcatHeadTail
  <2> QED BY <2>2, <1>1, <1>7, <1>14 DEF InOrder
<1>16. \A m \in NodeBlock' : idOf'[m] \in Id
  BY <1>1, <1>7, <1>8
<1> QED BY <1>9, <1>11, <1>12, <1>13, <1>14, <1>15, <1>16 DEF IInv

(* Freeing the node of the message just handled leaves the list alone.     *)
LEMMA FreeCurrStep ==
  ASSUME IInv, FreeCurr
  PROVE  IInv' /\ Waiting' = Waiting
<1> USE BlockAssumption
<1>1. /\ TypeOK /\ ListShape /\ NodesAccountedFor /\ CurrWhileHandling /\ InOrder
      /\ \A m \in NodeBlock : idOf[m] \in Id
  BY DEF IInv
<1>2. /\ curr \in Block /\ curr' = NULL /\ pc' = "loop"
      /\ block' = [block EXCEPT ![curr] = "free"]
      /\ UNCHANGED <<first, tail, nextOf, idOf, payloadOf, order,
                     sent, delivered>>
  BY <1>1 DEF FreeCurr, Release, CurrWhileHandling, history
<1>3. NodeBlock' = NodeBlock \ {curr} /\ Nodes' = Nodes /\ Waiting' = Waiting
  <2>1. NodeBlock' = NodeBlock \ {curr}
    BY <1>1, <1>2 DEF NodeBlock, TypeOK
  <2>2. Nodes' = Nodes
    BY <1>2 DEF Nodes
  <2>3. Waiting' = Waiting
    BY <1>2 DEF Waiting
  <2> QED BY <2>1, <2>2, <2>3
<1>4. TypeOK'
  BY <1>1, <1>2 DEF TypeOK, Pointer
<1>5. ListShape'
  BY <1>1, <1>2 DEF ListShape
<1>6. NodesAccountedFor'
  <2>1. NULL \notin Nodes
    BY <1>1, <1>2, LenProperties DEF Nodes, TypeOK
  <2> QED BY <2>1, <1>1, <1>2, <1>3 DEF NodesAccountedFor
<1> QED BY <1>1, <1>2, <1>3, <1>4, <1>5, <1>6
        DEF IInv, CurrWhileHandling, InOrder

(* No other step touches the list, its nodes or the histories.             *)
LEMMA OtherStep ==
  ASSUME IInv, PanicUnlessNew \/ EnterLoop \/ UNCHANGED vars
  PROVE  IInv' /\ Waiting' = Waiting
<1>1. /\ UNCHANGED <<first, tail, curr, block, nextOf, idOf, payloadOf,
                     order, sent, delivered>>
      /\ pc' = pc \/ pc' = "panicked" \/ (pc = "init" /\ pc' = "loop")
  BY DEF PanicUnlessNew, EnterLoop, vars, memory, history
<1>2. NodeBlock' = NodeBlock /\ Nodes' = Nodes /\ Waiting' = Waiting
  BY <1>1 DEF NodeBlock, Nodes, Waiting
<1>3. TypeOK'
  BY <1>1 DEF IInv, TypeOK, Pointer
<1> QED BY <1>1, <1>2, <1>3
        DEF IInv, ListShape, NodesAccountedFor, CurrWhileHandling, InOrder

LEMMA NextIInv == IInv /\ [Next]_vars => IInv'
<1> SUFFICES ASSUME IInv, [Next]_vars PROVE IInv'
  OBVIOUS
<1>1. CASE Send
  <2> PICK id \in Id, p \in Pointer, n \in Block :
        \/ MessageSend(id, p, n)
        \/ MessageSendLater(id, p, n)
    BY <1>1 DEF Send
  <2>1. Link(id, p, n)
    BY DEF MessageSend, MessageSendLater
  <2> QED BY <2>1, LinkStep
<1>2. CASE Dispatch
  BY <1>2, DispatchStep
<1>3. CASE FreeCurr
  BY <1>3, FreeCurrStep
<1>4. CASE PanicUnlessNew \/ EnterLoop \/ UNCHANGED vars
  BY <1>4, OtherStep
<1> QED BY <1>1, <1>2, <1>3, <1>4 DEF Next

(* The inductive invariant holds of every behaviour of the scheduler.      *)
THEOREM Invariance == Spec => []IInv
  BY InitIInv, NextIInv, PTL DEF Spec

(* The pointers, blocks and histories of task.c keep their types.          *)
THEOREM TypeCorrect == Spec => []TypeOK
<1>1. IInv => TypeOK
  BY DEF IInv
<1> QED BY <1>1, Invariance, PTL

(* The list of task.c always links exactly the waiting messages.           *)
THEOREM ListAlwaysLinked == Spec => []ListShape
<1>1. IInv => ListShape
  BY DEF IInv
<1> QED BY <1>1, Invariance, PTL

(* No node of task.c is lost, freed twice or linked twice.                 *)
THEOREM NodesNeverLost == Spec => []NodesAccountedFor
<1>1. IInv => NodesAccountedFor
  BY DEF IInv
<1> QED BY <1>1, Invariance, PTL

(* While a message waits, both ends of the list are nodes in use.          *)
LEMMA EndsInUse ==
  ASSUME IInv, first # NULL
  PROVE  first \in NodeBlock /\ tail \in NodeBlock
<1>1. order # <<>> /\ first = order[1] /\ tail = order[Len(order)]
  BY DEF IInv, ListShape
<1>2. Len(order) \in Nat /\ Len(order) > 0 /\ DOMAIN order = 1 .. Len(order)
  BY <1>1, EmptySeq, LenProperties DEF IInv, TypeOK
<1>3. first \in Nodes /\ tail \in Nodes
  BY <1>1, <1>2 DEF Nodes
<1> QED BY <1>3 DEF IInv, NodesAccountedFor

(* Every write goes to a node in use, and MessageLoop reads only such a    *)
(* node: `tail' is stale exactly when `first' is NULL.                     *)
LEMMA StepUsesNodes ==
  ASSUME IInv, [Next]_vars, NEW b \in Block,
         \/ nextOf'[b] # nextOf[b]
         \/ idOf'[b] # idOf[b]
         \/ payloadOf'[b] # payloadOf[b]
  PROVE  block'[b] = "node"
<1>1. CASE Send
  <2> PICK id \in Id, p \in Pointer, n \in Block :
        \/ MessageSend(id, p, n)
        \/ MessageSendLater(id, p, n)
    BY <1>1 DEF Send
  <2>1. Link(id, p, n)
    BY DEF MessageSend, MessageSendLater
  <2>2. TypeOK
    BY DEF IInv
  <2>3. CASE b = n
    BY <2>1, <2>3 DEF Link
  <2>4. CASE b # n
    <3>1. idOf'[b] = idOf[b] /\ payloadOf'[b] = payloadOf[b]
      BY <2>1, <2>2, <2>4 DEF Link, Fill, TypeOK
    <3>2. first # NULL /\ b = tail
      BY <2>1, <2>2, <2>4, <3>1 DEF Link, LinkNode, TypeOK
    <3>3. block[b] = "node"
      BY <3>2, EndsInUse DEF NodeBlock
    <3>4. p # b
      BY <2>1, <3>3, BlockAssumption DEF Link, FreeBlock
    <3> QED BY <2>1, <2>4, <3>3, <3>4 DEF Link
  <2> QED BY <2>3, <2>4
<1>2. CASE ~Send
  BY <1>2 DEF Next, PanicUnlessNew, EnterLoop, Dispatch, FreeCurr, Unlink, vars, memory
<1> QED BY <1>1, <1>2

(* MessageSend and MessageLoop never use a freed block.                    *)
THEOREM NoFreedBlockUsed == Spec => NoUseAfterFree
<1> DEFINE A == /\ \A b \in Block :
                     (\/ nextOf'[b] # nextOf[b]
                      \/ idOf'[b] # idOf[b]
                      \/ payloadOf'[b] # payloadOf[b]) => block'[b] = "node"
                /\ Dispatch => block[first] = "node"
<1>1. IInv /\ [Next]_vars => [A]_vars
  <2> SUFFICES ASSUME IInv, [Next]_vars PROVE A
    OBVIOUS
  <2>1. Dispatch => block[first] = "node"
    BY EndsInUse DEF Dispatch, NodeBlock
  <2> QED BY <2>1, StepUsesNodes
<1> QED BY <1>1, Invariance, PTL DEF Spec, NoUseAfterFree

(* Handlers see the messages in the order MessageSend was called, each     *)
(* exactly once.                                                           *)
THEOREM DeliveryInOrder == Spec => []InOrder
<1>1. IInv => InOrder
  BY DEF IInv
<1> QED BY <1>1, Invariance, PTL

(* A step of the linked list is a step of the abstract queue: MessageSend  *)
(* posts, taking the first node hands over the oldest message, freeing it  *)
(* is the return of the handler, and nothing else is visible.              *)
LEMMA StepRefines ==
  ASSUME IInv, [Next]_vars
  PROVE  [Queue!QNext]_(Queue!qvars)
<1> DEFINE current == IF curr = NULL THEN NoId ELSE idOf[curr]
<1> USE BlockAssumption
<1>1. /\ NodesAccountedFor /\ CurrWhileHandling /\ TypeOK
      /\ \A m \in NodeBlock : idOf[m] \in Id
  BY DEF IInv
<1>2. CASE Send
  <2> PICK id \in Id, p \in Pointer, n \in Block :
        \/ MessageSend(id, p, n)
        \/ MessageSendLater(id, p, n)
    BY <1>2 DEF Send
  <2>1. Link(id, p, n)
    BY DEF MessageSend, MessageSendLater
  <2>3. Waiting' = Append(Waiting, id)
    BY <2>1, LinkStep
  <2>4. Len(sent') = Len(sent) + 1 /\ Len(sent) < MaxSends
    BY <2>1, <1>1, AppendProperties DEF Link, Fill, LinkNode, TypeOK
  <2>5. current' = current
    <3>1. curr' = curr /\ idOf' = [idOf EXCEPT ![n] = id] /\ block[n] = "free"
      BY <2>1 DEF Link, Fill, LinkNode, FreeBlock
    <3>2. curr = NULL \/ curr \in NodeBlock
      BY <1>1 DEF NodesAccountedFor
    <3>3. curr # n
      BY <3>1, <3>2 DEF NodeBlock
    <3>4. curr # NULL => curr \in Block
      BY <1>1 DEF TypeOK, Pointer
    <3> QED BY <3>1, <3>3, <3>4, <1>1 DEF TypeOK
  <2>6. Queue!Post(id)
    BY <2>3, <2>4, <2>5 DEF Queue!Post
  <2> QED BY <2>6 DEF Queue!QNext
<1>3. CASE Dispatch
  <2>1. Waiting # <<>> /\ Head(Waiting) = idOf[first] /\ Waiting' = Tail(Waiting)
    BY <1>3, DispatchStep
  <2>2. curr = NULL /\ curr' = first /\ first # NULL /\ idOf' = idOf /\ sent' = sent
    BY <1>1, <1>3 DEF Dispatch, Unlink, CurrWhileHandling, memory
  <2>3. Queue!HandOver
    BY <2>1, <2>2 DEF Queue!HandOver
  <2> QED BY <2>3 DEF Queue!QNext
<1>4. CASE FreeCurr
  <2>1. Waiting' = Waiting /\ curr' = NULL /\ sent' = sent
    BY <1>4, FreeCurrStep DEF FreeCurr, Release, history
  <2>2. curr \in Block /\ curr \in NodeBlock
    BY <1>1, <1>4 DEF FreeCurr, Release, CurrWhileHandling, NodesAccountedFor
  <2>3. current # NoId
    BY <2>2, <1>1, IdAssumption
  <2>4. Queue!Finish
    BY <2>1, <2>2, <2>3 DEF Queue!Finish
  <2> QED BY <2>4 DEF Queue!QNext
<1>5. CASE PanicUnlessNew \/ EnterLoop \/ UNCHANGED vars
  <2>1. Waiting' = Waiting
    BY <1>5, OtherStep
  <2>2. curr' = curr /\ idOf' = idOf /\ sent' = sent
    BY <1>5 DEF PanicUnlessNew, EnterLoop, vars, memory, history
  <2> QED BY <2>1, <2>2 DEF Queue!qvars
<1> QED BY <1>2, <1>3, <1>4, <1>5 DEF Next

(* The linked list of kernel/task.c implements the queue of MessageQueue.  *)
THEOREM ListImplementsQueue == Spec => ImplementsQueue
<1>1. Init => Queue!QInit
  BY SMT DEF Init, Queue!QInit, Waiting
<1> QED BY <1>1, StepRefines, Invariance, PTL DEF Spec, ImplementsQueue, Queue!QSpec
=============================================================================
