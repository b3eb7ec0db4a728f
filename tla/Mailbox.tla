-------------------------------- MODULE Mailbox --------------------------------
(***************************************************************************)
(* A mailbox (mailbox.rs) as a record and what its operations make of it.   *)
(* The channel is tokio's: a bounded one hands a freed place to the sender   *)
(* that has waited longest, which puts its message there when it runs next;  *)
(* until then the place is taken.  What messages say does not matter here.   *)
(*                                                                           *)
(* An operator X_Y written just before X is X with a plausible mistake in    *)
(* it; the specification never uses it.                                      *)
(***************************************************************************)
EXTENDS Integers, Sequences, FiniteSets

\* MailboxConfig: a capacity, or 0 for Unbounded; bounded() rejects a capacity
\* of 0.
MailboxConfig == Nat

\* mailbox(config): `len` messages; senders that wait, and senders that a place
\* was given to; are the receiver and some handle alive?
NewMailbox(capacity) ==
  [capacity |-> capacity, len |-> 0, waiting |-> <<>>, granted |-> {},
   open |-> TRUE, handles |-> TRUE]

Bounded(b) == b.capacity > 0
Taken(b) == b.len + Cardinality(b.granted)
HasRoom(b) == ~Bounded(b) \/ Taken(b) < b.capacity

\* send: the message is put, or the sender t waits.
SendTo(b, t) ==
  IF HasRoom(b) THEN [b EXCEPT !.len = @ + 1] ELSE [b EXCEPT !.waiting = Append(@, t)]

TrySendTo_Overtakes(b) ==
  IF b.open /\ (~Bounded(b) \/ b.len < b.capacity) THEN [b EXCEPT !.len = @ + 1] ELSE b

\* try_send: a mailbox that is full or closed is left as it is.
TrySendTo(b) == IF b.open /\ HasRoom(b) THEN [b EXCEPT !.len = @ + 1] ELSE b

Put_KeepsPlace(b, t) == [b EXCEPT !.len = @ + 1]

\* A sender that was given a place puts its message.
Put(b, t) == [b EXCEPT !.len = @ + 1, !.granted = @ \ {t}]

\* recv or try_recv takes a message; its place goes to who waits first.
TakenFrom(b) ==
  IF b.waiting = <<>> THEN [b EXCEPT !.len = @ - 1]
  ELSE [b EXCEPT !.len = @ - 1, !.granted = @ \cup {Head(b.waiting)}, !.waiting = Tail(@)]

\* The receiver is dropped: its messages are lost, who waits is told Closed.
CloseReceiver(b) ==
  [b EXCEPT !.open = FALSE, !.len = 0, !.waiting = <<>>, !.granted = {}]

WaitsToSend(b, t) == t \in b.granted \/ \E i \in DOMAIN b.waiting : b.waiting[i] = t

\* The capacity is kept, counting the places given away, and nobody waits while
\* there is room.
CapacityKept(b) ==
  /\ Bounded(b) => Taken(b) <= b.capacity
  /\ b.waiting # <<>> => ~HasRoom(b)

================================================================================
