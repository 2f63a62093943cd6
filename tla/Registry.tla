------------------------------ MODULE Registry ------------------------------
(***************************************************************************)
(* The peers of one Rpc object (cpp/src/rpc.cpp): Rpc::connect with its    *)
(* one dial per address, the greeting of preparePeer, the peers accepted   *)
(* from outside, their removal once they are broken, and Rpc::shutdown.    *)
(*                                                                         *)
(* Many coroutines call connect at once; it blocks while it dials, while   *)
(* it waits for the other side's header, and while it waits for a dial of  *)
(* somebody else.  A peer is known here by how far its own shutdown() is   *)
(* (phase of Peer.tla): "live", "closing" until killall() and abort() are  *)
(* done, "closed" until the event loop removes it, then "gone".            *)
(***************************************************************************)
EXTENDS Naturals

CONSTANTS Callers,    \* the coroutines that call connect(), once each
          Inbound,    \* the connections other programs make to this Rpc
          Names,      \* the peer names
          Addresses,  \* the addresses that can be dialled
          Target,     \* the name or address each caller asks for
          None        \* no name, no address, no caller, no peer

ASSUME RegistryAssumption ==
    /\ Callers \cap Inbound = {} /\ Names \cap Addresses = {}
    /\ None \notin Callers \cup Inbound \cup Names \cup Addresses
    /\ Target \in [Callers -> Names \cup Addresses]

\* A peer is known by the caller whose dial, or the connection which, made it.
Peers == Callers \cup Inbound

VARIABLES pc,         \* where each connect() is
          address,    \* the address it dials or waits for
          waitsFor,   \* the caller whose Event it waits for
          result,     \* the peer it returned
          connecting, \* RpcPrivate::connectingEvents: the caller that dials each address
          signalled,  \* the callers whose Event is set
          known,      \* RpcPrivate::knownAddresses
          peers,      \* RpcPrivate::peers
          older,      \* the peers that were there when a peer was inserted
          name,       \* the name each peer was inserted under
          phase,      \* how far the shutdown() of each peer is
          stage,      \* how far Rpc::shutdown() is
          toClose,    \* the peers Rpc::shutdown() has still to close
          closes      \* the peer whose close() it waits for

callVars == <<pc, address, waitsFor, result>>
dialVars == <<connecting, signalled, known>>
peerVars == <<peers, older, name, phase>>
stopVars == <<stage, toClose, closes>>
vars == <<callVars, dialVars, peerVars, stopVars>>

Dialling == {"dialling", "greeting"}

TypeOK ==
    /\ pc \in [Callers -> Dialling \cup {"idle", "waiting", "returned", "threw"}]
    /\ address \in [Callers -> Addresses \cup {None}]
    /\ waitsFor \in [Callers -> Callers \cup {None}]
    /\ result \in [Callers -> Peers \cup {None}]
    /\ connecting \in [Addresses -> Callers \cup {None}]
    /\ signalled \in SUBSET Callers
    /\ known \in [Names -> Addresses \cup {None}]
    /\ peers \in SUBSET Peers
    /\ older \in [Peers -> SUBSET Peers]
    /\ name \in [Peers -> Names \cup {None}]
    /\ phase \in [Peers -> {"none", "greeting", "live", "closing", "closed", "gone"}]
    /\ stage \in {"running", "closing", "stopped"}
    /\ toClose \in SUBSET Peers
    /\ closes \in Peers \cup {None}

Init ==
    /\ pc = [c \in Callers |-> "idle"]
    /\ address = [c \in Callers |-> None]
    /\ waitsFor = [c \in Callers |-> None]
    /\ result = [c \in Callers |-> None]
    /\ connecting = [a \in Addresses |-> None]
    /\ signalled = {}
    /\ known \in [Names -> Addresses \cup {None}]
    /\ peers = {}
    /\ older = [p \in Peers |-> {}]
    /\ name = [p \in Peers |-> None]
    /\ phase = [p \in Peers |-> "none"]
    /\ stage = "running"
    /\ toClose = {}
    /\ closes = None

-----------------------------------------------------------------------------
(* The peers *)

Named(n) == {p \in peers : name[p] = n}

\* QMultiMap::value(): the peer of that name that was inserted last.
Newest(n) == {p \in Named(n) : Named(n) \subseteq older[p] \cup {p}}

\* An inbound peer has the address of its own socket, which nobody dials.
AddressOf(p) == IF p \in Callers THEN address[p] ELSE None

At(a) == {p \in peers : AddressOf(p) = a}

\* The end of preparePeer: the new peer p called n is in the map.
Insert(p, n) ==
    /\ peers' = peers \cup {p}
    /\ older' = [older EXCEPT ![p] = peers]
    /\ name' = [name EXCEPT ![p] = n]
    /\ phase' = [phase EXCEPT ![p] = "live"]

\* The connection of a peer ends, or somebody calls its shutdown().
Break(p) ==
    /\ phase[p] = "live"
    /\ phase' = [phase EXCEPT ![p] = "closing"]
    /\ UNCHANGED <<callVars, dialVars, peers, older, name, stopVars>>

\* Its coroutines are joined and its channel is aborted; the event loop will remove it.
Closed(p) ==
    /\ phase[p] = "closing"
    /\ phase' = [phase EXCEPT ![p] = "closed"]
    /\ UNCHANGED <<callVars, dialVars, peers, older, name, stopVars>>

\* Wrong: removes every peer of that name.
RemovePeerByName(p) ==
    /\ phase[p] = "closed"
    /\ phase' = [phase EXCEPT ![p] = "gone"]
    /\ peers' = IF p \in peers THEN peers \ Named(name[p]) ELSE peers
    /\ UNCHANGED <<callVars, dialVars, older, name, stopVars>>

\* The event loop runs removePeer: this peer leaves the map, and no other of its name.
RemovePeer(p) ==
    /\ phase[p] = "closed"
    /\ phase' = [phase EXCEPT ![p] = "gone"]
    /\ peers' = peers \ {p}
    /\ UNCHANGED <<callVars, dialVars, older, name, stopVars>>

\* A server accepts a connection and greets it.
Accept(p) ==
    /\ p \in Inbound /\ phase[p] = "none" /\ stage = "running"
    /\ phase' = [phase EXCEPT ![p] = "greeting"]
    /\ UNCHANGED <<callVars, dialVars, peers, older, name, stopVars>>

\* Its header arrives: a peer under the name it claims, whoever has that name already.
Greeted(p, n) ==
    /\ phase[p] = "greeting" /\ stage # "stopped"
    /\ Insert(p, n)
    /\ UNCHANGED <<callVars, dialVars, stopVars>>

\* Its header does not arrive, is no header, or bears this program's own name.
Turned(p) ==
    /\ phase[p] = "greeting"
    /\ phase' = [phase EXCEPT ![p] = "gone"]
    /\ UNCHANGED <<callVars, dialVars, peers, older, name, stopVars>>

-----------------------------------------------------------------------------
(* RpcPrivate::connect *)

Returns(c, p) ==
    /\ pc' = [pc EXCEPT ![c] = "returned"]
    /\ result' = [result EXCEPT ![c] = p]

\* The name is in the map: the newest peer of that name, broken or not.
ConnectByName(c) ==
    /\ pc[c] = "idle" /\ Target[c] \in Names
    /\ \E p \in Newest(Target[c]) : Returns(c, p)
    /\ UNCHANGED <<address, waitsFor, dialVars, peerVars, stopVars>>

\* A peer at that address is in the map: that peer, broken or not.
ConnectByAddress(c) ==
    /\ pc[c] = "idle" /\ Target[c] \in Addresses
    /\ \E p \in At(Target[c]) : Returns(c, p)
    /\ UNCHANGED <<address, waitsFor, dialVars, peerVars, stopVars>>

\* The name has no address (an address without a transport is not in Addresses).
ConnectUnknown(c) ==
    /\ pc[c] = "idle" /\ Target[c] \in Names
    /\ Named(Target[c]) = {} /\ known[Target[c]] = None
    /\ Returns(c, None)
    /\ UNCHANGED <<address, waitsFor, dialVars, peerVars, stopVars>>

\* The address that must be dialled for c, None when a peer is in the map already.
DialAddress(c) ==
    IF Target[c] \in Addresses
    THEN IF At(Target[c]) = {} THEN Target[c] ELSE None
    ELSE IF Named(Target[c]) = {} THEN known[Target[c]] ELSE None

\* Wrong: dials whether or not somebody does.
StartDialAlways(c) ==
    LET a == DialAddress(c) IN
    /\ pc[c] = "idle" /\ a # None
    /\ pc' = [pc EXCEPT ![c] = "dialling"]
    /\ address' = [address EXCEPT ![c] = a]
    /\ connecting' = [connecting EXCEPT ![a] = c]
    /\ UNCHANGED <<waitsFor, result, signalled, known, peerVars, stopVars>>

\* Nobody dials that address: an Event for those who come, and transport->connect.
StartDial(c) ==
    LET a == DialAddress(c) IN
    /\ pc[c] = "idle" /\ a # None /\ connecting[a] = None
    /\ pc' = [pc EXCEPT ![c] = "dialling"]
    /\ address' = [address EXCEPT ![c] = a]
    /\ connecting' = [connecting EXCEPT ![a] = c]
    /\ UNCHANGED <<waitsFor, result, signalled, known, peerVars, stopVars>>

\* Somebody dials it already: wait for the Event.
WaitForDial(c) ==
    LET a == DialAddress(c) IN
    /\ pc[c] = "idle" /\ a # None /\ connecting[a] # None
    /\ pc' = [pc EXCEPT ![c] = "waiting"]
    /\ address' = [address EXCEPT ![c] = a]
    /\ waitsFor' = [waitsFor EXCEPT ![c] = connecting[a]]
    /\ UNCHANGED <<result, dialVars, peerVars, stopVars>>

\* The Event is set: any peer at that address, or nothing.
Wake(c) ==
    /\ pc[c] = "waiting" /\ waitsFor[c] \in signalled
    /\ \/ At(address[c]) = {} /\ Returns(c, None)
       \/ \E p \in At(address[c]) : Returns(c, p)
    /\ UNCHANGED <<address, waitsFor, dialVars, peerVars, stopVars>>

\* Wrong: wakes the waiters before the other side's header is here.
DialledAndSignalled(c) ==
    /\ pc[c] = "dialling"
    /\ pc' = [pc EXCEPT ![c] = "greeting"]
    /\ signalled' = signalled \cup {c}
    /\ UNCHANGED <<address, waitsFor, result, connecting, known, peerVars, stopVars>>

\* transport->connect returns a channel; preparePeer sends a header and awaits one.
Dialled(c) ==
    /\ pc[c] = "dialling"
    /\ pc' = [pc EXCEPT ![c] = "greeting"]
    /\ UNCHANGED <<address, waitsFor, result, dialVars, peerVars, stopVars>>

\* The waiters are woken and the address may be dialled again.
EndDial(c) ==
    /\ signalled' = signalled \cup {c}
    /\ connecting' = [connecting EXCEPT ![address[c]] = None]

\* Wrong: a dial that fails leaves its Event, unset.
DialFailsQuietly(c) ==
    /\ pc[c] \in Dialling
    /\ Returns(c, None)
    /\ UNCHANGED <<address, waitsFor, dialVars, peerVars, stopVars>>

\* No connection, no header, or one with another name than was asked for or our own.
DialFails(c) ==
    /\ pc[c] \in Dialling
    /\ EndDial(c)
    /\ Returns(c, None)
    /\ UNCHANGED <<address, waitsFor, known, peerVars, stopVars>>

\* Wrong: learns what was asked for in place of the address.
DialLearnsTarget(c, n) ==
    /\ pc[c] = "greeting"
    /\ Target[c] \in Names => n = Target[c]
    /\ Insert(c, n)
    /\ EndDial(c)
    /\ known' = [known EXCEPT ![n] = Target[c]]
    /\ Returns(c, c)
    /\ UNCHANGED <<address, waitsFor, stopVars>>

\* The header is here and its name acceptable: the peer is registered, its address learnt.
DialSucceeds(c, n) ==
    /\ pc[c] = "greeting"
    /\ Target[c] \in Names => n = Target[c]
    /\ Insert(c, n)
    /\ EndDial(c)
    /\ known' = [known EXCEPT ![n] = address[c]]
    /\ Returns(c, c)
    /\ UNCHANGED <<address, waitsFor, stopVars>>

\* The coroutine is killed, times out, or the header cannot be unpacked: connect throws.
ConnectThrows(c) ==
    /\ pc[c] \in Dialling \cup {"waiting"}
    /\ pc' = [pc EXCEPT ![c] = "threw"]
    /\ IF pc[c] = "waiting" THEN UNCHANGED <<signalled, connecting>> ELSE EndDial(c)
    /\ UNCHANGED <<address, waitsFor, result, known, peerVars, stopVars>>

\* Rpc::setAddress: the application changes the address of a name.
SetAddress(n, a) ==
    /\ known' = [known EXCEPT ![n] = a]
    /\ UNCHANGED <<callVars, connecting, signalled, peerVars, stopVars>>

-----------------------------------------------------------------------------
(* RpcPrivate::shutdown *)

\* The servers are stopped and the peers to close are listed.
Stop ==
    /\ stage = "running"
    /\ stage' = "closing"
    /\ toClose' = peers
    /\ UNCHANGED <<callVars, dialVars, peerVars, closes>>

\* close() of one of them; it returns at once from a peer that is broken already.
ClosePeer(p) ==
    /\ stage = "closing" /\ closes = None /\ p \in toClose
    /\ toClose' = toClose \ {p}
    /\ IF phase[p] = "live"
       THEN /\ phase' = [phase EXCEPT ![p] = "closing"]
            /\ closes' = p
       ELSE UNCHANGED <<phase, closes>>
    /\ UNCHANGED <<callVars, dialVars, peers, older, name, stage>>

\* close() has joined the coroutines of the peer and aborted its channel.
CloseReturns ==
    /\ closes # None /\ phase[closes] # "closing"
    /\ closes' = None
    /\ UNCHANGED <<callVars, dialVars, peerVars, stage, toClose>>

\* All are closed: the map is cleared, whatever it holds by now.
Clear ==
    /\ stage = "closing" /\ toClose = {} /\ closes = None
    /\ stage' = "stopped"
    /\ peers' = {}
    /\ UNCHANGED <<callVars, dialVars, older, name, phase, toClose, closes>>

-----------------------------------------------------------------------------

ConnectStep(c) ==
    \/ ConnectByName(c) \/ ConnectByAddress(c) \/ ConnectUnknown(c)
    \/ StartDial(c) \/ WaitForDial(c) \/ Wake(c)
    \/ Dialled(c) \/ DialFails(c) \/ ConnectThrows(c)
    \/ \E n \in Names : DialSucceeds(c, n)

PeerStep(p) ==
    \/ Break(p) \/ Closed(p) \/ RemovePeer(p)
    \/ Accept(p) \/ Turned(p) \/ \E n \in Names : Greeted(p, n)

StopStep == Stop \/ CloseReturns \/ Clear \/ \E p \in Peers : ClosePeer(p)

Next ==
    \/ \E c \in Callers : ConnectStep(c)
    \/ \E p \in Peers : PeerStep(p)
    \/ StopStep
    \/ \E n \in Names, a \in Addresses : SetAddress(n, a)

Spec == Init /\ [][Next]_vars

\* A dial ends: the operating system and the channel's keepalive give up in the end,
\* and a woken coroutine runs.
DialEnds(c) == Dialled(c) \/ DialFails(c) \/ \E n \in Names : DialSucceeds(c, n)

FairSpec == Spec /\ \A c \in Callers : WF_vars(DialEnds(c)) /\ WF_vars(Wake(c))

-----------------------------------------------------------------------------
(* Properties *)

\* connectingEvents names exactly the coroutines that dial, each under the address it
\* dials: an address is never dialled twice at once, and no entry outlives its dial,
\* whichever way the dial ends (rpc.cpp:258-293).
EventsAreDials ==
    /\ \A c \in Callers : pc[c] \in Dialling => connecting[address[c]] = c
    /\ \A a \in Addresses : connecting[a] # None =>
         pc[connecting[a]] \in Dialling /\ address[connecting[a]] = a

\* Nobody waits for an Event that will not be set: the dial goes on, at the address the
\* waiter asked for, or the Event is set already (rpc.cpp:259-268, 283-291).
NoWaiterForgotten ==
    \A c \in Callers : pc[c] = "waiting" =>
        \/ waitsFor[c] \in signalled
        \/ pc[waitsFor[c]] \in Dialling /\ address[waitsFor[c]] = address[c]

\* Concurrent calls of connect() do not make two connections to the same program at the
\* same address, though some ask for its name and some for its address, and though the
\* other side, the application and shutdown() change the map while they are blocked.
NoTwins ==
    \A p, q \in peers \cap Callers :
        name[p] = name[q] /\ address[p] = address[q] => p = q

\* A waiter comes back empty-handed only from a dial that has ended, and whose peer, if
\* it made one, has broken since or was dropped by Rpc::shutdown (rpc.cpp:259-268).
WaitersShareTheDial ==
    [][\A c \in Callers :
         pc[c] = "waiting" /\ pc'[c] = "returned" /\ result'[c] = None =>
             /\ pc[waitsFor[c]] \notin Dialling
             /\ phase[waitsFor[c]] = "live" => stage = "stopped"]_vars

\* Until Rpc::shutdown() clears the map, a peer leaves it only after its own shutdown()
\* is done; the end of one connection does not take another peer of that name
\* (rpc.cpp:460-469).
OnlyBrokenLeave ==
    [][\A p \in peers \ peers' : phase[p] = "closed" \/ stage' # stage]_vars

\* Every connect() ends (rpc.cpp:258-293).
ConnectEnds ==
    \A c \in Callers :
        pc[c] \in Dialling \cup {"waiting"} ~> pc[c] \in {"returned", "threw"}

\* What rpc.h:78 says of connect(): "if disconnected, do reconnect".
ConnectReconnects ==
    [][\A c \in Callers :
         pc[c] # "returned" /\ pc'[c] = "returned" /\ result'[c] # None =>
             phase'[result'[c]] = "live"]_vars
=============================================================================
