----------------------------- MODULE WorkQueue -----------------------------
(***************************************************************************)
(* The work queue of client-go (util/workqueue/queue.go) as operators on   *)
(* its three fields: the queue proper, the dirty set of what needs         *)
(* processing and the processing set of what has been handed out and is    *)
(* not done.  Every operation holds the queue's lock.                      *)
(***************************************************************************)
EXTENDS Sequences

Empty == [queue |-> <<>>, dirty |-> {}, processing |-> {}]

\* Add: an item that is being processed is only marked, and queued by Done.
Add(q, item) ==
    IF item \in q.dirty THEN q
    ELSE [q EXCEPT !.dirty = @ \cup {item},
                   !.queue = IF item \in q.processing THEN @ ELSE Append(@, item)]

Next(q) == Head(q.queue)

Get(q) == [queue      |-> Tail(q.queue),
           dirty      |-> q.dirty \ {Next(q)},
           processing |-> q.processing \cup {Next(q)}]

Done(q, item) ==
    [q EXCEPT !.processing = @ \ {item},
              !.queue = IF item \in q.dirty THEN Append(@, item) ELSE @]
=============================================================================
