------------------------- MODULE ProducerConsumerQueue -------------------------
(***************************************************************************)
(* The blocking queue of shared/Threading/ProducerConsumerQueue.h, used by *)
(* the map updater and by the asynchronous side of the database pool.      *)
(*                                                                         *)
(* Every method holds _queueLock, so each is one atomic step, except       *)
(* WaitAndPop: it may sleep on _condition.  A sleeping caller is a member   *)
(* of `waiting`; a caller that is not in `waiting` holds the lock and      *)
(* evaluates the predicate of line 73.                                     *)
(***************************************************************************)
EXTENDS Sequences

VARIABLES
    queue,      \* _queue: the queued values, oldest first
    waiting,    \* the threads asleep on _condition
    shutdown    \* _shutdown

queueVars == <<queue, waiting, shutdown>>

QueueInit ==
    /\ queue = <<>>
    /\ waiting = {}
    /\ shutdown = FALSE

\* notify_one: any one sleeper wakes; with nobody asleep the signal is lost.
NotifyOne ==
    \/ waiting = {} /\ UNCHANGED waiting
    \/ \E c \in waiting : waiting' = waiting \ {c}

\* Mutant of Push: the newest value goes first.
PushFront(value) == queue' = <<value>> \o queue /\ NotifyOne /\ UNCHANGED shutdown

\* Push does not look at _shutdown: a value pushed after Cancel stays queued.
Push(value) ==
    /\ queue' = Append(queue, value)
    /\ NotifyOne
    /\ UNCHANGED shutdown

\* WaitAndPop, one disjunct of its predicate each: sleep, take the oldest
\* value, or return without a value after Cancel.
Block(c) ==
    /\ c \notin waiting
    /\ queue = <<>> /\ ~shutdown
    /\ waiting' = waiting \cup {c}
    /\ UNCHANGED <<queue, shutdown>>

Take(c) ==
    /\ c \notin waiting
    /\ queue # <<>> /\ ~shutdown
    /\ queue' = Tail(queue)
    /\ UNCHANGED <<waiting, shutdown>>

ReturnEmpty(c) ==
    /\ c \notin waiting
    /\ shutdown
    /\ UNCHANGED queueVars

\* std::condition_variable may wake a sleeper with no notification.
SpuriousWakeup(c) ==
    /\ c \in waiting
    /\ waiting' = waiting \ {c}
    /\ UNCHANGED <<queue, shutdown>>

\* Mutant of Cancel: notify_one instead of notify_all.
CancelOne == queue' = <<>> /\ shutdown' = TRUE /\ NotifyOne

Cancel ==
    /\ queue' = <<>>
    /\ shutdown' = TRUE
    /\ waiting' = {}
=============================================================================
