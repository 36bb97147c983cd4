----------------------------- MODULE KernelTask -----------------------------
(***************************************************************************)
(* kernel/task.c: the message scheduler of the port.  Messages wait in a   *)
(* singly linked list of malloc'ed nodes with the file-scope pointers      *)
(* `first' and `tail'; MessageLoop unlinks the first node, runs the        *)
(* handler of its task and frees the node.  Everything runs on one thread: *)
(* main() initialises the libraries, which already post messages, and then *)
(* enters MessageLoop; from then on messages are posted by handlers only.  *)
(*                                                                         *)
(* Memory is modelled: a block of the heap is free, a list node or a       *)
(* payload made by MESSAGE_MAKE, a freed block keeps its contents, and     *)
(* malloc may return any free block, one that `tail' still points at       *)
(* included.                                                               *)
(***************************************************************************)
EXTENDS Naturals, Sequences, FiniteSets

CONSTANTS
  Block,     \* the blocks of the heap
  Id,        \* message identifiers
  NULL,      \* the null pointer
  NoId,      \* what a block that never was a node holds as identifier
  MaxSends   \* bound: messages posted in a behaviour

ASSUME BlockAssumption == NULL \notin Block /\ IsFiniteSet(Block)
ASSUME IdAssumption    == NoId \notin Id
ASSUME BoundAssumption == MaxSends \in Nat

VARIABLES
  pc,         \* where the thread is: "init", "loop", "handler", "panicked"
  first,      \* static struct task_list *first
  tail,       \* static struct task_list *tail
  curr,       \* MessageLoop's local curr, NULL outside a handler
  block,      \* what each heap block is in use for
  nextOf,     \* task_list.next, per block
  idOf,       \* task_list.id (with task_list.task), per block
  payloadOf,  \* task_list.message, per block
  order,      \* auxiliary: the nodes waiting, in the order they were posted
  sent,       \* auxiliary: every identifier posted, in order
  delivered   \* auxiliary: every identifier handed to a handler, in order

memory  == <<block, nextOf, idOf, payloadOf>>
history == <<order, sent, delivered>>
vars    == <<pc, first, tail, curr, memory, history>>

Pointer   == Block \cup {NULL}
FreeBlock == {b \in Block : block[b] = "free"}
NodeBlock == {b \in Block : block[b] = "node"}
PayloadBlock == {b \in Block : block[b] = "payload"}
Nodes     == {order[i] : i \in DOMAIN order}

Init ==
  /\ pc = "init"
  /\ first = NULL /\ tail = NULL /\ curr = NULL
  /\ block = [b \in Block |-> "free"]
  /\ nextOf = [b \in Block |-> NULL]
  /\ idOf = [b \in Block |-> NoId]
  /\ payloadOf = [b \in Block |-> NULL]
  /\ order = <<>> /\ sent = <<>> /\ delivered = <<>>

(* Code that may call the message functions is running.                    *)
Running == pc \in {"init", "handler"}

(* The fields MessageSend fills in, and the bug of filling in each other's. *)
FillSwapped(id, p, n) ==
  /\ idOf' = [idOf EXCEPT ![n] = p]
  /\ payloadOf' = [payloadOf EXCEPT ![n] = id]

Fill(id, p, n) ==
  /\ idOf' = [idOf EXCEPT ![n] = id]
  /\ payloadOf' = [payloadOf EXCEPT ![n] = p]

(* Wrong ways to put node n into the list: to forget `tail' when the list  *)
(* is empty, to forget it when it is not, to push at the front.            *)
LinkForgetsFirstTail(n) ==
  IF first = NULL
    THEN first' = n /\ nextOf' = [nextOf EXCEPT ![n] = NULL] /\ tail' = tail
    ELSE /\ first' = first
         /\ nextOf' = IF tail = NULL THEN [nextOf EXCEPT ![n] = NULL]
                      ELSE [nextOf EXCEPT ![n] = NULL, ![tail] = n]
         /\ tail' = n

LinkForgetsTail(n) ==
  IF first = NULL
    THEN first' = n /\ nextOf' = [nextOf EXCEPT ![n] = NULL] /\ tail' = n
    ELSE first' = first /\ nextOf' = [nextOf EXCEPT ![n] = NULL, ![tail] = n]
         /\ tail' = tail

LinkInFront(n) ==
  /\ first' = n
  /\ nextOf' = [nextOf EXCEPT ![n] = first]
  /\ tail' = IF first = NULL THEN n ELSE tail

(* The list operation of MessageSend.                                      *)
LinkNode(n) ==
  /\ IF first = NULL
       THEN first' = n /\ nextOf' = [nextOf EXCEPT ![n] = NULL]
       ELSE first' = first /\ nextOf' = [nextOf EXCEPT ![n] = NULL, ![tail] = n]
  /\ tail' = n

(* MESSAGE_MAKE of payload p (NULL: no payload) and the body of            *)
(* MessageSend with n the block PanicUnlessNew returned.                   *)
Link(id, p, n) ==
  /\ Running
  /\ Len(sent) < MaxSends
  /\ p \in FreeBlock \cup {NULL}
  /\ n \in FreeBlock \ {p}
  /\ block' = [b \in Block |-> IF b = n THEN "node"
                               ELSE IF b = p THEN "payload" ELSE block[b]]
  /\ Fill(id, p, n)
  /\ LinkNode(n)
  /\ order' = Append(order, n)
  /\ sent' = Append(sent, id)
  /\ UNCHANGED <<pc, curr, delivered>>

MessageSend(id, p, n) == Link(id, p, n)

(* The port logs the delay and calls MessageSend: the message is posted at *)
(* once, and no clock is kept.                                             *)
MessageSendLater(id, p, n) == MessageSend(id, p, n)

(* malloc fails for the payload or for the node: Panic() exits.            *)
PanicUnlessNew ==
  /\ Running
  /\ Len(sent) < MaxSends
  /\ Cardinality(FreeBlock) < 2
  /\ pc' = "panicked"
  /\ UNCHANGED <<first, tail, curr, memory, history>>

(* main() is done with initialisation.                                     *)
EnterLoop ==
  /\ pc = "init"
  /\ pc' = "loop"
  /\ UNCHANGED <<first, tail, curr, memory, history>>

(* Taking the first node out of the list, and the bug of leaving it in.    *)
UnlinkNothing == curr' = first /\ first' = first

Unlink == curr' = first /\ first' = nextOf[first]

(* One turn of MessageLoop, up to the call of the handler.                 *)
Dispatch ==
  /\ pc = "loop"
  /\ first # NULL
  /\ Unlink
  /\ pc' = "handler"
  /\ delivered' = Append(delivered, idOf[first])
  /\ order' = SubSeq(order, 2, Len(order))
  /\ UNCHANGED <<tail, memory, sent>>

(* After the handler has returned the node is freed; `return' before the   *)
(* free would leak it.                                                     *)
KeepCurr == UNCHANGED block

Release == block' = [block EXCEPT ![curr] = "free"]

FreeCurr ==
  /\ pc = "handler"
  /\ Release
  /\ curr' = NULL
  /\ pc' = "loop"
  /\ UNCHANGED <<first, tail, nextOf, idOf, payloadOf, history>>

Send == \E id \in Id, p \in Pointer, n \in Block :
          \/ MessageSend(id, p, n)
          \/ MessageSendLater(id, p, n)

Next == Send \/ PanicUnlessNew \/ EnterLoop \/ Dispatch \/ FreeCurr

Spec == Init /\ [][Next]_vars

(* One thread that never blocks runs the loop, and handlers return.        *)
Fairness == WF_vars(EnterLoop) /\ WF_vars(Dispatch) /\ WF_vars(FreeCurr)

FairSpec == Spec /\ Fairness
-----------------------------------------------------------------------------
(* The static pointers of task.c and MessageLoop's curr hold NULL or a     *)
(* block of the heap, and a node holds what MessageSend was given.         *)
TypeOK ==
  /\ pc \in {"init", "loop", "handler", "panicked"}
  /\ first \in Pointer /\ tail \in Pointer /\ curr \in Pointer
  /\ block \in [Block -> {"free", "node", "payload"}]
  /\ nextOf \in [Block -> Pointer]
  /\ idOf \in [Block -> Id \cup {NoId}]
  /\ payloadOf \in [Block -> Pointer]
  /\ order \in Seq(Block)
  /\ sent \in Seq(Id) /\ delivered \in Seq(Id)

(* The identifiers that wait, oldest first.                                *)
Waiting == [i \in DOMAIN order |-> idOf[order[i]]]

(* The list rooted at `first' links exactly the waiting nodes in the order *)
(* they were posted, and ends at `tail'.  When the list is empty `tail' is *)
(* a pointer to a freed block and only `first = NULL' says so.             *)
ListShape ==
  IF order = <<>>
    THEN first = NULL
    ELSE /\ first = order[1]
         /\ tail = order[Len(order)]
         /\ nextOf[tail] = NULL
         /\ \A i \in 1 .. Len(order) - 1 : nextOf[order[i]] = order[i + 1]

(* No node is lost or freed twice: the blocks in use as nodes are the ones *)
(* that wait and the one being handled, and these are all different.       *)
NodesAccountedFor ==
  /\ NodeBlock = Nodes \cup ({curr} \ {NULL})
  /\ curr \notin Nodes
  /\ \A i, j \in DOMAIN order : order[i] = order[j] => i = j

(* MessageSend and MessageLoop of kernel/task.c never use a freed block:   *)
(* what is written is a node in use, and the node MessageLoop reads is one *)
(* too, although `tail' goes on pointing at the last node after that node  *)
(* has been taken out of the list and freed.                               *)
NoUseAfterFree ==
  [][/\ \A b \in Block :
          (\/ nextOf'[b] # nextOf[b]
           \/ idOf'[b] # idOf[b]
           \/ payloadOf'[b] # payloadOf[b]) => block'[b] = "node"
     /\ Dispatch => block[first] = "node"]_vars

(* Messages reach their handlers in the order they were posted, none is    *)
(* lost and none is handled twice.                                         *)
InOrder == sent = delivered \o Waiting

(* `curr' is set exactly while a handler runs.                             *)
CurrWhileHandling ==
  /\ pc = "handler" => curr \in Block
  /\ pc \in {"init", "loop"} => curr = NULL

(* The inductive invariant behind the safety theorems.                     *)
IInv == /\ TypeOK
        /\ ListShape
        /\ NodesAccountedFor
        /\ \A n \in NodeBlock : idOf[n] \in Id
        /\ CurrWhileHandling
        /\ InOrder

(* The linked list implements the queue of MessageQueue.                   *)
Queue == INSTANCE MessageQueue WITH
           queue   <- Waiting,
           current <- IF curr = NULL THEN NoId ELSE idOf[curr],
           posted  <- Len(sent)

ImplementsQueue == Queue!QSpec

(* Every posted message is handled, unless the program has panicked.       *)
EveryMessageDelivered ==
  \A i \in 1 .. MaxSends :
    (Len(sent) >= i) ~> (Len(delivered) >= i \/ pc = "panicked")
=============================================================================
