----------------------------- MODULE WorkQueue -----------------------------
(***************************************************************************)
(* The rate limited work queue of client-go, as the controllers use it.    *)
(* An item waits in `dirty' until a worker takes it; while it is in        *)
(* `processing' a new Add only marks it dirty again, and Done puts it back *)
(* in the queue.  `waiting' holds the items AddRateLimited keeps back      *)
(* until their back-off has passed.                                        *)
(*                                                                         *)
(* The library is not part of the repository: these operators say what     *)
(* the controllers rely on.  The order of the queue is left to the         *)
(* fairness of the specifications that use it.                             *)
(***************************************************************************)
EXTENDS FiniteSets

QueueState(Item) == [dirty : SUBSET Item, processing : SUBSET Item, waiting : SUBSET Item]

EmptyQueue == [dirty |-> {}, processing |-> {}, waiting |-> {}]

\* Items a worker may take now.
Queued(q) == q.dirty \ q.processing

AddAll(q, items) == [q EXCEPT !.dirty = @ \cup items]
Add(q, item) == AddAll(q, {item})

Get(q, item) == [q EXCEPT !.dirty = @ \ {item}, !.processing = @ \cup {item}]

Done(q, item) == [q EXCEPT !.processing = @ \ {item}]

AddRateLimited(q, item) == [q EXCEPT !.waiting = @ \cup {item}]

\* The back-off of an item has passed: the delaying queue calls Add.
AddAfterBackoff(q, item) == [Add(q, item) EXCEPT !.waiting = @ \ {item}]

\* Somewhere in the queue, whether or not a worker may take it now.
Known(q) == q.dirty \cup q.processing \cup q.waiting
=============================================================================
