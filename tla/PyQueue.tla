------------------------------ MODULE PyQueue ------------------------------
(***************************************************************************)
(* The queue of the gevent scheduler of lafrpc (python/lafrpc/scheduler/   *)
(* queue.py and GeventQueueWithGetting of gevent.py), on which its         *)
(* channels send, receive and keep their pending channels: blocking gets,  *)
(* peeks and puts, items that are given back, and the callback of the hub  *)
(* that wakes whoever can go on.                                           *)
(*                                                                         *)
(* One task runs at a time and keeps its turn until it blocks.  A task     *)
(* that _unlock() wakes runs inside it: the callback goes on when the task *)
(* blocks.  Calls made by the hub itself, and those that do not block, are *)
(* left out: lafrpc makes none.                                            *)
(***************************************************************************)
EXTENDS Integers, Sequences, FiniteSets, SequencesExt

CONSTANTS Tasks,
          Hub,       \* no task has the turn
          MaxSizes,  \* the sizes the queue may be made with; -1 has no bound
          MaxItems   \* bound on the items that are put

ASSUME QueueAssumption ==
    Hub \notin Tasks /\ MaxItems \in Nat /\ MaxSizes \subseteq {-1} \cup (Nat \ {0})

VARIABLES
    maxsize,   \* Queue._maxsize
    queue,     \* Queue.queue
    getters,   \* Queue.getters: who waits in get() or peek()
    putters,   \* Queue.putters: who waits in put(), with the item
    unlock,    \* Queue._event_unlock: _unlock() is scheduled or runs
    at,        \* where _unlock() is
    repeat,    \* its variable
    turn,      \* the task that runs
    pc,        \* what each task does
    held,      \* the items each task has got, in order
    put,       \* the items given to put() so far
    failed     \* those whose put() was interrupted

queueVars == <<queue, getters, putters, unlock>>
hubVars == <<at, repeat>>
itemVars == <<held, put, failed>>
vars == <<maxsize, queueVars, hubVars, turn, pc, itemVars>>

Waiting == {"getting", "peeking", "putting"}
Free == maxsize = -1 \/ Len(queue) < maxsize

\* The items that the tasks wait to put.
Promised == [i \in DOMAIN putters |-> putters[i].item]

Where(q, k) == {i \in DOMAIN q : q[i] = k}

\* Where item k is that was put: in the queue, with a task that waits to put it, or with a
\* task that got it.
Places(k) ==
    ({"queue"} \X Where(queue, k)) \cup ({"putters"} \X Where(Promised, k))
    \cup ({"held"} \X UNION {{t} \X Where(held[t], k) : t \in Tasks})

TypeOK ==
    /\ maxsize \in MaxSizes
    /\ unlock \in BOOLEAN /\ repeat \in BOOLEAN
    /\ at \in {"idle", "putters", "getters"} /\ (at # "idle" => unlock)
    /\ turn \in Tasks \cup {Hub}
    /\ pc \in [Tasks -> {"ready"} \cup Waiting]
    /\ turn # Hub => pc[turn] = "ready"
    /\ put \in 0 .. MaxItems
    /\ queue \in Seq(1 .. put) /\ held \in [Tasks -> Seq(1 .. put)]
    /\ getters \in Seq(Tasks) /\ putters \in Seq([task : Tasks, item : 1 .. put])
    \* A task that waits is in its queue, once, and nobody else is.
    /\ IsInjective(getters)
    /\ ToSet(getters) = {t \in Tasks : pc[t] \in {"getting", "peeking"}}
    /\ IsInjective([i \in DOMAIN putters |-> putters[i].task])
    /\ {putters[i].task : i \in DOMAIN putters} = {t \in Tasks : pc[t] = "putting"}
    \* An item is in one place, and in none if its put() was interrupted.
    /\ failed \subseteq 1 .. put
    /\ \A k \in 1 .. put : /\ k \in failed <=> Places(k) = {}
                          /\ \A x, y \in Places(k) : x = y

Init ==
    /\ maxsize \in MaxSizes
    /\ queue = <<>> /\ getters = <<>> /\ putters = <<>>
    /\ unlock = FALSE /\ at = "idle" /\ repeat = FALSE
    /\ turn = Hub
    /\ pc = [t \in Tasks |-> "ready"]
    /\ held = [t \in Tasks |-> <<>>]
    /\ put = 0 /\ failed = {}

\* The task waits and the turn goes back to the hub, or to _unlock().
Block(t, how) == pc' = [pc EXCEPT ![t] = how] /\ turn' = Hub

-----------------------------------------------------------------------------
(* What a task does in its turn *)

\* _schedule_unlock(), if somebody waits who may go on.
Schedule(waiters) == unlock' = (unlock \/ waiters # <<>>)

Put(t) ==
    /\ turn = t /\ put < MaxItems
    /\ put' = put + 1
    /\ Schedule(getters)
    /\ IF Free
       THEN queue' = Append(queue, put + 1) /\ UNCHANGED <<putters, pc, turn>>
       ELSE /\ putters' = Append(putters, [task |-> t, item |-> put + 1])
            /\ Block(t, "putting")
            /\ UNCHANGED queue
    /\ UNCHANGED <<maxsize, getters, hubVars, held, failed>>

\* Wrong: nobody is told that there is room.
GetSilent(t) ==
    /\ turn = t
    /\ IF queue # <<>>
       THEN /\ held' = [held EXCEPT ![t] = Append(@, Head(queue))]
            /\ queue' = Tail(queue)
            /\ UNCHANGED <<getters, pc, turn, unlock>>
       ELSE /\ getters' = Append(getters, t)
            /\ Block(t, "getting")
            /\ Schedule(putters)
            /\ UNCHANGED <<queue, held>>
    /\ UNCHANGED <<maxsize, putters, hubVars, put, failed>>

Get(t) ==
    /\ turn = t
    /\ Schedule(putters)
    /\ IF queue # <<>>
       THEN /\ held' = [held EXCEPT ![t] = Append(@, Head(queue))]
            /\ queue' = Tail(queue)
            /\ UNCHANGED <<getters, pc, turn>>
       ELSE /\ getters' = Append(getters, t)
            /\ Block(t, "getting")
            /\ UNCHANGED <<queue, held>>
    /\ UNCHANGED <<maxsize, putters, hubVars, put, failed>>

\* peek() makes no room.
Peek(t) ==
    /\ turn = t /\ queue = <<>>
    /\ getters' = Append(getters, t)
    /\ Block(t, "peeking")
    /\ Schedule(putters)
    /\ UNCHANGED <<maxsize, queue, putters, hubVars, itemVars>>

\* return_many_forcely(): each item is inserted at the front, the last one first.
ReturnMany(t) ==
    /\ turn = t /\ held[t] # <<>>
    /\ queue' = Reverse(held[t]) \o queue
    /\ held' = [held EXCEPT ![t] = <<>>]
    /\ Schedule(getters)
    /\ UNCHANGED <<maxsize, getters, putters, hubVars, turn, pc, put, failed>>

\* The task waits for something else.
Yield(t) ==
    /\ turn = t
    /\ turn' = Hub
    /\ UNCHANGED <<maxsize, queueVars, hubVars, pc, itemVars>>

-----------------------------------------------------------------------------
(* The hub *)

Resume(t) ==
    /\ turn = Hub /\ at = "idle" /\ pc[t] = "ready"
    /\ turn' = t
    /\ UNCHANGED <<maxsize, queueVars, hubVars, pc, itemVars>>

\* Wrong: the waiter stays in the queue.
InterruptStays(t) ==
    /\ turn = Hub /\ at = "idle" /\ pc[t] \in Waiting
    /\ turn' = t
    /\ pc' = [pc EXCEPT ![t] = "ready"]
    /\ UNCHANGED <<maxsize, queueVars, hubVars, itemVars>>

\* A task that waits is killed, or its timeout expires: it runs, leaves the queue of
\* waiters, and does not put its item.
Interrupt(t) ==
    /\ turn = Hub /\ at = "idle" /\ pc[t] \in Waiting
    /\ turn' = t
    /\ pc' = [pc EXCEPT ![t] = "ready"]
    /\ \/ /\ \E i \in DOMAIN getters : getters[i] = t /\ getters' = RemoveAt(getters, i)
          /\ UNCHANGED <<putters, failed>>
       \/ /\ \E i \in DOMAIN putters :
                /\ putters[i].task = t
                /\ putters' = RemoveAt(putters, i)
                /\ failed' = failed \cup {putters[i].item}
          /\ UNCHANGED getters
    /\ UNCHANGED <<maxsize, queue, unlock, hubVars, held, put>>

UnlockStarts ==
    /\ turn = Hub /\ at = "idle" /\ unlock
    /\ at' = "putters" /\ repeat' = FALSE
    /\ UNCHANGED <<maxsize, queueVars, turn, pc, itemVars>>

\* The first who waits to put does so and runs.
UnlockPutter ==
    /\ turn = Hub /\ at = "putters"
    /\ at' = "getters"
    /\ IF putters # <<>> /\ Free
       THEN /\ queue' = Append(queue, Head(putters).item)
            /\ putters' = Tail(putters)
            /\ turn' = Head(putters).task
            /\ pc' = [pc EXCEPT ![turn'] = "ready"]
            /\ repeat' = TRUE
       ELSE UNCHANGED <<queue, putters, turn, pc, repeat>>
    /\ UNCHANGED <<maxsize, getters, unlock, itemVars>>

\* Wrong: one getter is woken, and the callback ends.
UnlockOnce ==
    /\ turn = Hub /\ at = "getters"
    /\ at' = "idle" /\ repeat' = FALSE /\ unlock' = FALSE
    /\ IF getters # <<>> /\ queue # <<>>
       THEN LET g == Head(getters) IN
            /\ getters' = Tail(getters)
            /\ turn' = g
            /\ pc' = [pc EXCEPT ![g] = "ready"]
            /\ IF pc[g] = "getting"
               THEN /\ held' = [held EXCEPT ![g] = Append(@, Head(queue))]
                    /\ queue' = Tail(queue)
               ELSE UNCHANGED <<queue, held>>
       ELSE UNCHANGED <<getters, queue, turn, pc, held>>
    /\ UNCHANGED <<maxsize, putters, put, failed>>

\* The first who waits to get or to peek does so and runs; _unlock() starts again until
\* nobody can go on.
UnlockGetter ==
    /\ turn = Hub /\ at = "getters"
    /\ IF getters # <<>> /\ queue # <<>>
       THEN LET g == Head(getters) IN
            /\ getters' = Tail(getters)
            /\ turn' = g
            /\ pc' = [pc EXCEPT ![g] = "ready"]
            /\ IF pc[g] = "getting"
               THEN /\ held' = [held EXCEPT ![g] = Append(@, Head(queue))]
                    /\ queue' = Tail(queue)
               ELSE UNCHANGED <<queue, held>>
            /\ at' = "putters" /\ repeat' = FALSE
            /\ UNCHANGED unlock
       ELSE /\ at' = IF repeat THEN "putters" ELSE "idle"
            /\ repeat' = FALSE
            /\ unlock' = repeat
            /\ UNCHANGED <<getters, queue, turn, pc, held>>
    /\ UNCHANGED <<maxsize, putters, put, failed>>

-----------------------------------------------------------------------------

TaskStep(t) == Put(t) \/ Get(t) \/ Peek(t) \/ ReturnMany(t) \/ Yield(t)
Unlock == UnlockStarts \/ UnlockPutter \/ UnlockGetter

Next ==
    \/ \E t \in Tasks : TaskStep(t) \/ Resume(t) \/ Interrupt(t)
    \/ Unlock

Spec == Init /\ [][Next]_vars

\* A task gives up its turn in the end, and the hub runs the callbacks in the order in
\* which they were scheduled.
FairSpec == Spec /\ SF_vars(Unlock) /\ \A t \in Tasks : WF_vars(Yield(t))

-----------------------------------------------------------------------------
(* Properties *)

\* Nobody sleeps on a queue that could serve it without a callback that will look: no
\* wake-up is lost, whoever came in between, was interrupted or gave items back
\* (queue.py 184-188, 204-205, 250-251, 270-273, gevent.py 56-65).
WakeUpPending ==
    ~unlock => /\ getters = <<>> \/ queue = <<>>
               /\ putters = <<>> \/ ~Free

\* A waiting get or peek and something to get, in the queue or in the hands of a put that
\* waits, find each other: one of the two is used up (queue.py 310-328).
WaitersMeet ==
    getters # <<>> /\ (queue # <<>> \/ putters # <<>>) ~>
        getters = <<>> \/ (queue = <<>> /\ putters = <<>>)
=============================================================================
