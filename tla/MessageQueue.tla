---------------------------- MODULE MessageQueue ----------------------------
(***************************************************************************)
(* What the scheduler of the port promises to the libraries, as a queue    *)
(* and nothing else: MessageSend posts at the back, the loop hands over    *)
(* the front, one message at a time, and the next message is handed over   *)
(* only when the handler of the previous one has returned.  There is no    *)
(* memory here: KernelTask, the linked list of kernel/task.c, implements   *)
(* this module under a refinement mapping.                                 *)
(***************************************************************************)
EXTENDS Naturals, Sequences

CONSTANTS
  Id,       \* message identifiers
  NoId,     \* no message is being handled
  MaxSends  \* bound on the number of messages posted in a behaviour

VARIABLES
  queue,    \* the messages posted and not yet handed over, oldest first
  current,  \* the message whose handler is running, or NoId
  posted    \* how many messages have been posted

qvars == <<queue, current, posted>>

QInit == queue = <<>> /\ current = NoId /\ posted = 0

(* Posting a message.  It never waits and never reorders.                  *)
Post(id) ==
  /\ posted < MaxSends
  /\ posted' = posted + 1
  /\ queue' = Append(queue, id)
  /\ UNCHANGED current

(* The scheduler runs the handler of the oldest message.                   *)
HandOver ==
  /\ current = NoId
  /\ queue # <<>>
  /\ current' = Head(queue)
  /\ queue' = Tail(queue)
  /\ UNCHANGED posted

(* The handler returns to the scheduler.                                   *)
Finish ==
  /\ current # NoId
  /\ current' = NoId
  /\ UNCHANGED <<queue, posted>>

QNext == (\E id \in Id : Post(id)) \/ HandOver \/ Finish

QSpec == QInit /\ [][QNext]_qvars
=============================================================================
