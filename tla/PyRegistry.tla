----------------------------- MODULE PyRegistry -----------------------------
(***************************************************************************)
(* The connections of one Python Rpc of lafrpc (python/lafrpc/rpc.py,      *)
(* transport/base.py) on the gevent scheduler: connect() by name and by    *)
(* address, inbound connections, prepare_peer(), the handle_packet task    *)
(* that the scheduler knows by the name of the peer (scheduler/base.py),   *)
(* and the removal of peers that lost their connection.                    *)
(*                                                                         *)
(* A connection is named after the caller that dials it, or is one of      *)
(* Inbound.  Greenlets switch only where they block: an action is the code *)
(* from one blocking call to the next.                                     *)
(***************************************************************************)
CONSTANTS Callers,    \* the tasks that call connect()
          Inbound,    \* the connections that others make to this program
          Names,      \* the names of other programs
          Servers,    \* the addresses others listen at
          Asks,       \* the name or the address each caller asks for
          None,       \* no peer, no address, no task
          Shutdown    \* Rpc.shutdown() as the holder of the lock

Conns == Callers \cup Inbound

\* The address of an inbound connection is the other end of its socket, where nobody
\* listens.
Addresses == Servers \cup Inbound

ASSUME RegistryAssumption ==
    /\ Callers \cap Inbound = {} /\ Names \cap Addresses = {}
    /\ Servers \cap Inbound = {}
    /\ Asks \in [Callers -> Names \cup Servers]
    /\ None \notin Conns \cup Names \cup Addresses
    /\ Shutdown \notin Callers \cup {None}

VARIABLES
    pc,          \* where each connect() is
    result,      \* the peer it returned
    address,     \* the address of each connection
    name,        \* the name the other program gave
    stage,       \* how far each connection is
    open,        \* the connections whose channel has no error and whose peer is not broken
    joins,       \* the peer whose task prepare_peer() of a connection, or shutdown() of its
                 \* peer, has killed and waits for
    peers,       \* Rpc.peers
    known,       \* Rpc.known_addresses
    connecting,  \* Rpc.connecting_events: the caller that made the event of an address
    tasks,       \* BaseScheduler.tasks: the peer that runs "<name>-handle_packet"
    holder       \* who holds Rpc.lock while it waits for the lock of a peer

callVars == <<pc, result, connecting>>
connVars == <<address, name, stage, open, joins>>
mapVars == <<peers, known, tasks>>
vars == <<callVars, connVars, mapVars, holder>>

\* "blocked": in is_ok() of a peer whose shutdown() has the lock.
CallActive == {"dialling", "waiting", "greeting", "blocked"}

TypeOK ==
    /\ pc \in [Callers -> {"idle", "returned"} \cup CallActive]
    /\ result \in [Callers -> Conns \cup {None}]
    /\ address \in [Conns -> Addresses \cup {None}]
    /\ name \in [Conns -> Names \cup {None}]
    \* "greeting", "joining" and "registering" are prepare_peer(): for the header, for the
    \* task of another peer, for the lock of the Rpc; "refused": it returned and left the
    \* channel open; "killing": Peer.shutdown() has the lock of the peer and waits for a
    \* task handle_packet; "gone": the peer's own task handle_packet has ended.
    /\ stage \in [Conns -> {"none", "accepted", "greeting", "joining", "registering", "live",
                            "killing", "refused", "gone"}]
    /\ open \subseteq Conns
    /\ joins \in [Conns -> Conns \cup {None}]
    /\ peers \in [Names -> Conns \cup {None}]
    /\ known \in [Names -> Addresses \cup {None}]
    /\ connecting \in [Addresses -> Callers \cup {None}]
    /\ tasks \in [Names -> Conns \cup {None}]
    /\ holder \in Callers \cup {None, Shutdown}
    /\ \A n \in Names : peers[n] # None => name[peers[n]] = n

Init ==
    /\ pc = [c \in Callers |-> "idle"]
    /\ result = [c \in Callers |-> None]
    /\ address = [k \in Conns |-> IF k \in Inbound THEN k ELSE None]
    /\ name = [k \in Conns |-> None]
    /\ stage = [k \in Conns |-> "none"]
    /\ open = {}
    /\ joins = [k \in Conns |-> None]
    /\ peers = [n \in Names |-> None]
    /\ known = [n \in Names |-> None]
    /\ connecting = [a \in Addresses |-> None]
    /\ tasks = [n \in Names |-> None]
    /\ holder = None

\* Peer.is_ok() of a peer that nobody is shutting down.
IsOk(k) == stage[k] = "live" /\ k \in open

\* The task handle_packet of k was killed for another connection of its name.
Killed(k) == \E j \in Conns \ {k} : joins[j] = k

Registered == {peers[n] : n \in Names} \ {None}

\* The peers without k.
Without(k) == [n \in Names |-> IF peers[n] = k THEN None ELSE peers[n]]

-----------------------------------------------------------------------------
(* Rpc.connect *)

\* The registered peers that connect() asks whether they are ok.
Candidates(c) ==
    IF Asks[c] \in Names THEN {peers[Asks[c]]} \ {None}
    ELSE {k \in Registered : address[k] = Asks[c]}

Return(c, k) ==
    /\ pc' = [pc EXCEPT ![c] = "returned"]
    /\ result' = [result EXCEPT ![c] = k]

\* The lock of the Rpc is taken and kept while is_ok() waits for the lock of the peer.
ConnectBlocks(c) ==
    /\ pc[c] = "idle" /\ holder = None
    /\ \E k \in Candidates(c) : stage[k] = "killing"
    /\ pc' = [pc EXCEPT ![c] = "blocked"]
    /\ holder' = c
    /\ UNCHANGED <<result, connecting, connVars, mapVars>>

\* A peer that is ok is returned.
ConnectFinds(c) ==
    /\ pc[c] = "idle" /\ holder = None
    /\ \E k \in Candidates(c) : IsOk(k) /\ Return(c, k)
    /\ UNCHANGED <<connecting, connVars, mapVars, holder>>

\* No peer: one that is not ok leaves the dictionary at once.
Misses(c) ==
    /\ pc[c] = "idle" /\ holder = None
    /\ IF Candidates(c) = {} THEN UNCHANGED peers
       ELSE \E k \in Candidates(c) :
                stage[k] # "killing" /\ ~IsOk(k) /\ peers' = Without(k)

\* The name is not known either.
ConnectUnknown(c) ==
    /\ Misses(c) /\ Asks[c] \in Names /\ known[Asks[c]] = None
    /\ Return(c, None)
    /\ UNCHANGED <<connecting, connVars, known, tasks, holder>>

\* The caller dials, or waits for whoever dials the same address.
ConnectDials(c) ==
    LET a == IF Asks[c] \in Names THEN known[Asks[c]] ELSE Asks[c] IN
    /\ Misses(c) /\ a # None
    /\ address' = [address EXCEPT ![c] = a]
    /\ IF connecting[a] = None
       THEN /\ connecting' = [connecting EXCEPT ![a] = c]
            /\ pc' = [pc EXCEPT ![c] = "dialling"]
       ELSE /\ pc' = [pc EXCEPT ![c] = "waiting"]
            /\ UNCHANGED connecting
    /\ UNCHANGED <<result, name, stage, open, joins, known, tasks, holder>>

\* Wrong: waits without a timeout.
WakeBySignal(c) ==
    /\ pc[c] = "waiting" /\ holder = None /\ connecting[address[c]] = None
    /\ \/ \E k \in Registered : address[k] = address[c] /\ Return(c, k)
       \/ (\A k \in Registered : address[k] # address[c]) /\ Return(c, None)
    /\ UNCHANGED <<connecting, connVars, mapVars, holder>>

\* Wrong: the waiter forgets the event too.
WakeForgets(c) ==
    /\ pc[c] = "waiting" /\ holder = None
    /\ \/ \E k \in Registered : address[k] = address[c] /\ Return(c, k)
       \/ (\A k \in Registered : address[k] # address[c]) /\ Return(c, None)
    /\ connecting' = [connecting EXCEPT ![address[c]] = None]
    /\ UNCHANGED <<connVars, mapVars, holder>>

\* The event is set, or the timeout has passed: the waiter returns whoever is registered
\* at the address, ok or not, and whatever its name.
Wake(c) ==
    /\ pc[c] = "waiting" /\ holder = None
    /\ \/ \E k \in Registered : address[k] = address[c] /\ Return(c, k)
       \/ (\A k \in Registered : address[k] # address[c]) /\ Return(c, None)
    /\ UNCHANGED <<connecting, connVars, mapVars, holder>>

\* transport.connect() returns no channel.  The event stays in the dictionary, not set.
DialFails(c) ==
    /\ pc[c] = "dialling"
    /\ Return(c, None)
    /\ UNCHANGED <<connecting, connVars, mapVars, holder>>

\* The connection is there, and the header is sent.
DialDone(c) ==
    /\ pc[c] = "dialling" /\ address[c] \in Servers
    /\ pc' = [pc EXCEPT ![c] = "greeting"]
    /\ stage' = [stage EXCEPT ![c] = "greeting"]
    /\ open' = open \cup {c}
    /\ UNCHANGED <<result, connecting, address, name, joins, mapVars, holder>>

-----------------------------------------------------------------------------
(* TcpTransport.start_server, BaseTransport.handle_request, Rpc.prepare_peer *)

\* A connection comes in, for a task of its own.
Accept(i) ==
    /\ stage[i] = "none"
    /\ stage' = [stage EXCEPT ![i] = "accepted"]
    /\ UNCHANGED <<callVars, address, name, open, joins, mapVars, holder>>

\* Its first bytes say that a channel is wanted, or it is left alone.
HandleRequest(i) ==
    /\ stage[i] = "accepted"
    /\ \/ /\ stage' = [stage EXCEPT ![i] = "greeting"]
          /\ open' = open \cup {i}
       \/ /\ stage' = [stage EXCEPT ![i] = "gone"]
          /\ UNCHANGED open
    /\ UNCHANGED <<callVars, address, name, joins, mapVars, holder>>

\* connect() sets the event and forgets it, with or without a peer.
DialEnds(k, peer) ==
    IF k \in Callers
    THEN /\ Return(k, peer)
         /\ connecting' = [connecting EXCEPT ![address[k]] = None]
    ELSE UNCHANGED callVars

\* The header of the other program does not come: the channel has an error.
GreetingFails(k) ==
    /\ stage[k] = "greeting" /\ k \notin open /\ holder = None
    /\ stage' = [stage EXCEPT ![k] = "gone"]
    /\ DialEnds(k, None)
    /\ UNCHANGED <<address, name, open, joins, mapVars, holder>>

\* The other program is not the one that was asked for.  Nobody closes the channel.
GreetingRefused(k) ==
    /\ stage[k] = "greeting" /\ k \in Callers /\ Asks[k] \in Names /\ holder = None
    /\ \E n \in Names \ {Asks[k]} : name' = [name EXCEPT ![k] = n]
    /\ stage' = [stage EXCEPT ![k] = "refused"]
    /\ DialEnds(k, None)
    /\ UNCHANGED <<address, open, joins, mapVars, holder>>

\* Wrong: registers the peer for every name known at its address.
InstallByAddress(k, n) ==
    /\ tasks' = [tasks EXCEPT ![n] = k]
    /\ IF holder = None
       THEN /\ stage' = [stage EXCEPT ![k] = "live"]
            /\ known' = [known EXCEPT ![n] = address[k]]
            /\ peers' = [m \in Names |-> IF known'[m] = address[k] THEN k ELSE peers[m]]
            /\ DialEnds(k, k)
       ELSE /\ stage' = [stage EXCEPT ![k] = "registering"]
            /\ UNCHANGED <<callVars, peers, known>>

\* The task is spawned under the name n, whoever has it by now.  Then the peer is
\* registered, and its address the one that its name is known by from now on: at once,
\* or never when somebody keeps the lock of the Rpc.
Install(k, n) ==
    /\ tasks' = [tasks EXCEPT ![n] = k]
    /\ IF holder = None
       THEN /\ stage' = [stage EXCEPT ![k] = "live"]
            /\ known' = [known EXCEPT ![n] = address[k]]
            /\ peers' = [peers EXCEPT ![n] = k]
            /\ DialEnds(k, k)
       ELSE /\ stage' = [stage EXCEPT ![k] = "registering"]
            /\ UNCHANGED <<callVars, peers, known>>

\* Peer.__init__ spawns handle_packet under the name of the peer: a task that runs under
\* this name is killed and waited for, and stays in the dictionary until it has ended.
Greeted(k) ==
    /\ stage[k] = "greeting"
    /\ \E n \in Names :
         /\ k \in Callers /\ Asks[k] \in Names => n = Asks[k]
         /\ name' = [name EXCEPT ![k] = n]
         /\ \/ tasks[n] = None /\ Install(k, n) /\ UNCHANGED joins
            \/ /\ tasks[n] # None
               /\ joins' = [joins EXCEPT ![k] = tasks[n]]
               /\ stage' = [stage EXCEPT ![k] = "joining"]
               /\ UNCHANGED <<callVars, mapVars>>
    /\ UNCHANGED <<address, open, holder>>

\* The task that was waited for has ended.  Two connections that waited for the same one
\* both go on: the second takes the place of the first, whose task runs on unnamed.
Joined(k) ==
    /\ stage[k] = "joining" /\ stage[joins[k]] = "gone"
    /\ Install(k, name[k])
    /\ UNCHANGED <<address, name, open, joins, holder>>

-----------------------------------------------------------------------------
(* The end of a peer *)

\* The channel gets an error.
ConnectionLost(k) ==
    /\ k \in open
    /\ open' = open \ {k}
    /\ UNCHANGED <<callVars, address, name, stage, joins, mapVars, holder>>

\* handle_packet of k is on its way out, and _remove_peer() can have the lock.
Leaving(k) == stage[k] = "live" /\ (k \notin open \/ Killed(k)) /\ holder = None

\* Wrong: removes whoever has the name.
RemoveByName(k) ==
    /\ Leaving(k)
    /\ stage' = [stage EXCEPT ![k] = "gone"]
    /\ open' = open \ {k}
    /\ peers' = [peers EXCEPT ![name[k]] = None]
    /\ tasks' = [tasks EXCEPT ![name[k]] = IF @ = k THEN None ELSE @]
    /\ UNCHANGED <<callVars, address, name, joins, known, holder>>

\* Wrong: the scheduler forgets the task by its name.
ForgetByName(k) ==
    /\ Leaving(k)
    /\ stage' = [stage EXCEPT ![k] = "gone"]
    /\ open' = open \ {k}
    /\ peers' = Without(k)
    /\ tasks' = [tasks EXCEPT ![name[k]] = None]
    /\ UNCHANGED <<callVars, address, name, joins, known, holder>>

\* Wrong: the signal disconnected is not emitted.
EndQuietly(k) ==
    /\ Leaving(k)
    /\ stage' = [stage EXCEPT ![k] = "gone"]
    /\ open' = open \ {k}
    /\ tasks' = [tasks EXCEPT ![name[k]] = IF @ = k THEN None ELSE @]
    /\ UNCHANGED <<callVars, address, name, joins, peers, known, holder>>

\* handle_packet ends in clean(), which breaks the peer and whose signal runs
\* _remove_peer(); then the scheduler forgets the task.
Clean(k) ==
    /\ Leaving(k)
    /\ stage' = [stage EXCEPT ![k] = "gone"]
    /\ open' = open \ {k}
    /\ peers' = Without(k)
    /\ tasks' = [tasks EXCEPT ![name[k]] = IF @ = k THEN None ELSE @]
    /\ UNCHANGED <<callVars, address, name, joins, known, holder>>

\* Peer.shutdown(): the peer is broken, and kill_many takes whoever runs under the name
\* out of the dictionary, kills it and waits for it.  It may be the task of this peer,
\* which waits for the lock of the peer (see PyPeer), or that of another one.
ShutdownKills(k) ==
    /\ stage[k] = "live" /\ tasks[name[k]] # None
    /\ stage' = [stage EXCEPT ![k] = "killing"]
    /\ open' = open \ {k}
    /\ joins' = [joins EXCEPT ![k] = tasks[name[k]]]
    /\ tasks' = [tasks EXCEPT ![name[k]] = None]
    /\ UNCHANGED <<callVars, address, name, peers, known>>

\* Peer.shutdown() after kill_many: the channel is closed, which ends a handle_packet that
\* has lost its name, and the signal runs _remove_peer().
Close(k) ==
    /\ stage' = [stage EXCEPT ![k] = "gone"]
    /\ open' = open \ {k}
    /\ peers' = Without(k)
    /\ UNCHANGED <<callVars, address, name, joins, known, tasks, holder>>

\* The application, or call() after a disconnection, closes the peer.
UserShutdown(k) ==
    \/ ShutdownKills(k) /\ UNCHANGED holder
    \/ stage[k] = "live" /\ tasks[name[k]] = None /\ holder = None /\ Close(k)

\* The task that shutdown() waited for has ended.
ShutdownEnds(k) ==
    /\ stage[k] = "killing" /\ stage[joins[k]] = "gone" /\ holder = None
    /\ Close(k)

\* Rpc.shutdown() closes the peers while it has the lock of the Rpc.
RpcShutdown ==
    /\ holder = None
    /\ \E k \in Registered : ShutdownKills(k)
    /\ holder' = Shutdown

-----------------------------------------------------------------------------

ConnectStep(c) ==
    \/ ConnectBlocks(c) \/ ConnectFinds(c) \/ ConnectUnknown(c) \/ ConnectDials(c)
    \/ Wake(c) \/ DialFails(c) \/ DialDone(c)

ConnStep(k) ==
    \/ GreetingFails(k) \/ GreetingRefused(k) \/ Greeted(k) \/ Joined(k)
    \/ ConnectionLost(k) \/ Clean(k) \/ UserShutdown(k) \/ ShutdownEnds(k)

Next ==
    \/ \E c \in Callers : ConnectStep(c)
    \/ \E i \in Inbound : Accept(i) \/ HandleRequest(i)
    \/ \E k \in Conns : ConnStep(k)
    \/ RpcShutdown

Spec == Init /\ [][Next]_vars

\* A dial and a greeting end, by the timeouts of the network and the keepalive; a wait
\* ends by its own timeout; the tasks run.
Fairness ==
    /\ \A c \in Callers : WF_vars(DialFails(c) \/ DialDone(c)) /\ WF_vars(Wake(c))
    /\ \A k \in Conns :
         /\ WF_vars(GreetingFails(k) \/ GreetingRefused(k) \/ Greeted(k))
         /\ WF_vars(Joined(k)) /\ WF_vars(Clean(k)) /\ WF_vars(ShutdownEnds(k))

FairSpec == Spec /\ Fairness

-----------------------------------------------------------------------------
(* Properties *)

\* A connection of the name of k, replaced in the scheduler or about to replace it, has
\* killed the task handle_packet of k and waits for it.
EndedForAnother(k) ==
    \E j \in Conns \ {k} :
        name[j] = name[k] /\ stage[j] \in {"joining", "killing"} /\ joins[j] = k

\* A peer that works leaves the dictionary only for another one of its name: for one that
\* takes its place, or because prepare_peer() or shutdown() of one ends its task, and never
\* because one ends by itself (rpc.py 278, 289, 449, 454-459, scheduler/base.py 166-187,
\* 212-230).
OnlyBrokenLeave ==
    [][\A n \in Names :
          peers[n] # None /\ IsOk(peers[n]) /\ peers'[n] # peers[n] =>
              \/ peers'[n] # None /\ stage'[peers'[n]] = "live"
              \/ EndedForAnother(peers[n])]_vars

\* The task of k is out of the dictionary: shutdown() of a connection that k had replaced
\* waits for its end, or one that came while somebody keeps the lock of the Rpc, and so is
\* never registered, has its task in the place.
Displaced(k) ==
    \E j \in Conns \ {k} :
        /\ name[j] = name[k]
        /\ \/ stage[j] = "killing" /\ joins[j] = k
           \/ stage[j] = "registering"

\* The peer that is registered and works is the one whose handle_packet the scheduler has
\* under the name, so that the next connection of that name, or shutdown(), ends that
\* task and no other (scheduler/base.py 166-187, rpc.py 448-449), unless it is displaced:
\* shutdown() kills by name and not its own task (peer.py 149).
RegisteredIsRun ==
    \A n \in Names :
        peers[n] # None /\ IsOk(peers[n]) => tasks[n] = peers[n] \/ Displaced(peers[n])

\* Whoever dials an address does so alone, and its event is there for those who come
\* after it until it ends (rpc.py 296-303, 321-323).
DialsAreAnnounced ==
    \A c \in Callers :
        pc[c] \in {"dialling", "greeting"} => connecting[address[c]] = c

\* Peer.shutdown() waits for the task of its own peer, which waits for it (see PyPeer).
Stuck(k) == stage[k] = "killing" /\ joins[k] = k

\* connect() ends, whatever became of the dial it waits for and of the peer it replaces,
\* unless somebody keeps the lock of the Rpc, or closes the peer it replaces and waits in
\* Peer.shutdown() for the task that connect() waits for (rpc.py 305-324,
\* scheduler/base.py 172-175, peer.py 142-149).
ConnectEnds ==
    \A c \in Callers :
        pc[c] \in CallActive ~>
            \/ pc[c] = "returned" \/ holder # None
            \/ joins[c] # None /\ Stuck(joins[c])

\* A peer that lost its connection, or whose task was killed for another connection of
\* its name, leaves the dictionary, unless somebody keeps the lock of the Rpc, or closes the
\* peer and waits in Peer.shutdown() for its own task (peer.py 300-317, rpc.py 447).
BrokenLeave ==
    \A n \in Names, k \in Conns :
        peers[n] = k /\ (k \notin open \/ Killed(k)) ~>
            peers[n] # k \/ holder # None \/ Stuck(k)
=============================================================================
