--------------------------- MODULE RegistryProofs ---------------------------
(***************************************************************************)
(* What Registry.tla promises, for any callers, connections, names and     *)
(* addresses.                                                              *)
(***************************************************************************)
EXTENDS Registry, TLAPS

\* The end of preparePeer keeps the types of the map.
LEMMA InsertType ==
    ASSUME TypeOK, NEW p \in Peers, NEW n \in Names, Insert(p, n)
    PROVE  /\ peers' \in SUBSET Peers
           /\ older' \in [Peers -> SUBSET Peers]
           /\ name' \in [Peers -> Names \cup {None}]
           /\ phase' \in [Peers -> {"none", "greeting", "live", "closing", "closed", "gone"}]
  BY DEF TypeOK, Insert

LEMMA EndDialType ==
    ASSUME TypeOK, NEW c \in Callers, EndDial(c)
    PROVE  /\ signalled' \in SUBSET Callers
           /\ connecting' \in [Addresses -> Callers \cup {None}]
  BY DEF TypeOK, EndDial

\* A dialling or waiting caller has an address, and a waiter has somebody to wait for.
Addressed ==
    \A c \in Callers :
        /\ pc[c] \in Dialling \cup {"waiting"} => address[c] \in Addresses
        /\ pc[c] = "waiting" => waitsFor[c] \in Callers

LEMMA DialAddressType ==
    ASSUME TypeOK, NEW c \in Callers, DialAddress(c) # None
    PROVE  /\ DialAddress(c) \in Addresses
           /\ \/ Target[c] \in Addresses /\ DialAddress(c) = Target[c] /\ At(Target[c]) = {}
              \/ Target[c] \in Names /\ Named(Target[c]) = {}
  BY RegistryAssumption DEF TypeOK, DialAddress

LEMMA ConnectType ==
    ASSUME TypeOK, Addressed, NEW c \in Callers, ConnectStep(c)
    PROVE  TypeOK'
<1> USE DEF callVars, dialVars, peerVars, stopVars, Dialling
<1>1. CASE ConnectByName(c)
  BY <1>1 DEF TypeOK, ConnectByName, Returns, Newest, Named
<1>2. CASE ConnectByAddress(c)
  BY <1>2 DEF TypeOK, ConnectByAddress, Returns, At
<1>3. CASE ConnectUnknown(c)
  BY <1>3 DEF TypeOK, ConnectUnknown, Returns
<1>4. CASE StartDial(c)
  BY <1>4, DialAddressType DEF TypeOK, StartDial
<1>5. CASE WaitForDial(c)
  BY <1>5, DialAddressType DEF TypeOK, WaitForDial
<1>6. CASE Wake(c)
  BY <1>6 DEF TypeOK, Wake, Returns, At
<1>7. CASE Dialled(c)
  BY <1>7 DEF TypeOK, Dialled
<1>8. CASE DialFails(c)
  BY <1>8, EndDialType DEF TypeOK, DialFails, Returns
<1>9. CASE ConnectThrows(c)
  BY <1>9, EndDialType DEF TypeOK, ConnectThrows
<1>10. ASSUME NEW n \in Names, DialSucceeds(c, n) PROVE TypeOK'
  <2>1. c \in Peers
    BY DEF Peers
  <2>2. address[c] \in Addresses
    BY <1>10 DEF Addressed, DialSucceeds
  <2> QED
    BY <1>10, <2>1, <2>2, InsertType, EndDialType DEF TypeOK, DialSucceeds, Returns
<1> QED
  BY <1>1, <1>2, <1>3, <1>4, <1>5, <1>6, <1>7, <1>8, <1>9, <1>10 DEF ConnectStep

LEMMA PeerType ==
    ASSUME TypeOK, NEW p \in Peers, PeerStep(p)
    PROVE  TypeOK'
<1> USE DEF callVars, dialVars, stopVars, Dialling
<1>1. CASE Break(p) \/ Closed(p) \/ RemovePeer(p) \/ Accept(p) \/ Turned(p)
  BY <1>1 DEF TypeOK, Break, Closed, RemovePeer, Accept, Turned
<1>2. ASSUME NEW n \in Names, Greeted(p, n) PROVE TypeOK'
  BY <1>2, InsertType DEF TypeOK, Greeted
<1> QED
  BY <1>1, <1>2 DEF PeerStep

LEMMA StopType == ASSUME TypeOK, StopStep PROVE TypeOK'
<1> USE DEF callVars, dialVars, peerVars, Dialling
<1>1. CASE Stop \/ CloseReturns \/ Clear
  BY <1>1 DEF TypeOK, Stop, CloseReturns, Clear
<1>2. ASSUME NEW p \in Peers, ClosePeer(p) PROVE TypeOK'
  BY <1>2 DEF TypeOK, ClosePeer
<1> QED
  BY <1>1, <1>2 DEF StopStep

-----------------------------------------------------------------------------
(* Dials, their events, and those who wait for them *)

DialInv == TypeOK /\ Addressed /\ EventsAreDials /\ NoWaiterForgotten

LEMMA TypeStep == ASSUME DialInv, [Next]_vars PROVE TypeOK'
<1>1. CASE UNCHANGED vars
  BY <1>1 DEF DialInv, TypeOK, vars, callVars, dialVars, peerVars, stopVars
<1>2. ASSUME NEW n \in Names, NEW a \in Addresses, SetAddress(n, a) PROVE TypeOK'
  BY <1>2 DEF DialInv, TypeOK, SetAddress, callVars, peerVars, stopVars
<1> QED
  BY <1>1, <1>2, ConnectType, PeerType, StopType DEF DialInv, Next

\* Only a step of connect() touches dials and waiters.
LEMMA OthersKeepDials ==
    ASSUME [Next]_vars
    PROVE  \/ \E c \in Callers : ConnectStep(c)
           \/ UNCHANGED <<callVars, connecting, signalled>>
<1>1. ASSUME NEW p \in Peers, PeerStep(p) PROVE UNCHANGED <<callVars, connecting, signalled>>
  BY <1>1 DEF PeerStep, Break, Closed, RemovePeer, Accept, Turned, Greeted, dialVars
<1>2. ASSUME StopStep PROVE UNCHANGED <<callVars, connecting, signalled>>
  BY <1>2 DEF StopStep, Stop, CloseReturns, Clear, ClosePeer, dialVars
<1> QED
  BY <1>1, <1>2 DEF Next, SetAddress, vars, dialVars

LEMMA EndDialKeeps ==
    ASSUME DialInv, NEW c \in Callers, pc[c] \in Dialling, EndDial(c),
           NEW at \in {"returned", "threw"}, pc' = [pc EXCEPT ![c] = at],
           UNCHANGED <<address, waitsFor>>
    PROVE  Addressed' /\ EventsAreDials' /\ NoWaiterForgotten'
  BY RegistryAssumption
  DEF DialInv, TypeOK, Addressed, EventsAreDials, NoWaiterForgotten, EndDial, Dialling

LEMMA DialsStep ==
    ASSUME DialInv, NEW c \in Callers, ConnectStep(c)
    PROVE  Addressed' /\ EventsAreDials' /\ NoWaiterForgotten'
<1> USE RegistryAssumption DEF DialInv, Dialling
<1>1. CASE ConnectByName(c) \/ ConnectByAddress(c) \/ ConnectUnknown(c) \/ Wake(c)
  BY <1>1 DEF TypeOK, Addressed, EventsAreDials, NoWaiterForgotten, ConnectByName,
     ConnectByAddress, ConnectUnknown, Wake, Returns, dialVars
<1>2. CASE StartDial(c)
  BY <1>2, DialAddressType
  DEF TypeOK, Addressed, EventsAreDials, NoWaiterForgotten, StartDial
<1>3. CASE WaitForDial(c)
  BY <1>3, DialAddressType
  DEF TypeOK, Addressed, EventsAreDials, NoWaiterForgotten, WaitForDial, dialVars
<1>4. CASE Dialled(c)
  BY <1>4 DEF TypeOK, Addressed, EventsAreDials, NoWaiterForgotten, Dialled, dialVars
<1>5. CASE DialFails(c)
  BY <1>5, EndDialKeeps DEF DialFails, Returns
<1>6. CASE ConnectThrows(c) /\ pc[c] = "waiting"
  BY <1>6 DEF TypeOK, Addressed, EventsAreDials, NoWaiterForgotten, ConnectThrows
<1>7. CASE ConnectThrows(c) /\ pc[c] # "waiting"
  BY <1>7, EndDialKeeps DEF ConnectThrows
<1>8. ASSUME NEW n \in Names, DialSucceeds(c, n)
      PROVE  Addressed' /\ EventsAreDials' /\ NoWaiterForgotten'
  BY <1>8, EndDialKeeps DEF DialSucceeds, Returns
<1> QED
  BY <1>1, <1>2, <1>3, <1>4, <1>5, <1>6, <1>7, <1>8 DEF ConnectStep

LEMMA DialInvHolds == Spec => []DialInv
<1>1. Init => DialInv
  BY RegistryAssumption DEF Init, DialInv, TypeOK, Addressed, EventsAreDials,
     NoWaiterForgotten, Dialling
<1>2. ASSUME DialInv, [Next]_vars PROVE DialInv'
  <2>1. TypeOK'
    BY <1>2, TypeStep
  <2>2. CASE UNCHANGED <<callVars, connecting, signalled>>
    BY <1>2, <2>1, <2>2 DEF DialInv, Addressed, EventsAreDials, NoWaiterForgotten, callVars
  <2> QED
    BY <1>2, <2>1, <2>2, OthersKeepDials, DialsStep DEF DialInv
<1> QED
  BY <1>1, <1>2, PTL DEF Spec

\* Every variable of the registry keeps its type.
THEOREM TypeCorrect == Spec => []TypeOK
<1>1. DialInv => TypeOK
  BY DEF DialInv
<1> QED
  BY <1>1, DialInvHolds, PTL

\* connectingEvents holds the dials in progress and nothing else, whichever way they end.
THEOREM EventsFollowDials == Spec => []EventsAreDials
<1>1. DialInv => EventsAreDials
  BY DEF DialInv
<1> QED
  BY <1>1, DialInvHolds, PTL

\* Whoever waits for a dial waits for one that will still signal, or has.
THEOREM WaitersAreSignalled == Spec => []NoWaiterForgotten
<1>1. DialInv => NoWaiterForgotten
  BY DEF DialInv
<1> QED
  BY <1>1, DialInvHolds, PTL

-----------------------------------------------------------------------------
(* The peers in the map *)

\* A peer that is in the map, or broken, was made by a caller that has returned or by a
\* connection; a live one is in the map until Rpc::shutdown() clears it.
Registered ==
    /\ \A c \in Callers : phase[c] # "none" => pc[c] = "returned"
    /\ \A p \in Peers : phase[p] = "greeting" => p \in Inbound
    /\ \A p \in peers : phase[p] \notin {"none", "greeting"}
    /\ \A p \in Peers : phase[p] = "live" => p \in peers \/ stage = "stopped"

\* A dial whose Event is set has ended; a waiter and its dial agree on the address.
SharedDials ==
    /\ \A c \in signalled : pc[c] \in {"returned", "threw"}
    /\ \A c \in Callers : pc[c] = "waiting" => address[waitsFor[c]] = address[c]

\* The map cannot have the peer that a dial will make: it has none at that address, or
\* none of them has the name that is asked for.
FreshDials ==
    \A c \in Callers : pc[c] \in Dialling =>
        \A p \in peers \cap Callers : address[p] = address[c] =>
            Target[c] \in Names /\ name[p] # Target[c]

MapInv == DialInv /\ Registered /\ SharedDials /\ FreshDials /\ NoTwins

LEMMA SharedDialsStep == ASSUME MapInv, [Next]_vars PROVE SharedDials'
<1> USE DEF MapInv, DialInv, Dialling
<1>1. CASE UNCHANGED <<callVars, connecting, signalled>>
  BY <1>1 DEF SharedDials, callVars
<1>2. ASSUME NEW c \in Callers, ConnectStep(c) PROVE SharedDials'
  <2>1. CASE ConnectByName(c) \/ ConnectByAddress(c) \/ ConnectUnknown(c) \/ Wake(c)
    BY <2>1 DEF SharedDials, TypeOK, ConnectByName, ConnectByAddress, ConnectUnknown,
       Wake, Returns, dialVars
  <2>2. CASE StartDial(c)
    <3>1. \A d \in Callers : pc[d] = "waiting" => waitsFor[d] # c
      BY <2>2 DEF StartDial, NoWaiterForgotten, SharedDials
    <3> QED
      BY <2>2, <3>1 DEF SharedDials, TypeOK, Addressed, StartDial
  <2>3. CASE WaitForDial(c)
    <3>1. DialAddress(c) \in Addresses
      BY <2>3, DialAddressType DEF WaitForDial
    <3>2. /\ connecting[DialAddress(c)] \in Callers
          /\ pc[connecting[DialAddress(c)]] \in Dialling
          /\ address[connecting[DialAddress(c)]] = DialAddress(c)
      BY <2>3, <3>1 DEF WaitForDial, EventsAreDials, TypeOK
    <3>3. \A d \in Callers : pc[d] = "waiting" => waitsFor[d] # c
      BY <2>3 DEF WaitForDial, NoWaiterForgotten, SharedDials
    <3> QED
      BY <2>3, <3>2, <3>3 DEF SharedDials, TypeOK, Addressed, WaitForDial, dialVars
  <2>4. CASE Dialled(c)
    BY <2>4 DEF SharedDials, TypeOK, Dialled, dialVars
  <2>5. CASE DialFails(c) \/ ConnectThrows(c)
    BY <2>5 DEF SharedDials, TypeOK, DialFails, ConnectThrows, EndDial, Returns
  <2>6. ASSUME NEW n \in Names, DialSucceeds(c, n) PROVE SharedDials'
    BY <2>6 DEF SharedDials, TypeOK, DialSucceeds, EndDial, Returns
  <2> QED
    BY <1>2, <2>1, <2>2, <2>3, <2>4, <2>5, <2>6 DEF ConnectStep
<1> QED
  BY <1>1, <1>2, OthersKeepDials

\* Steps that insert no peer: the map only shrinks, and only of closed peers or at the end.
LEMMA NoInsertion ==
    ASSUME MapInv, [Next]_vars,
           ~ \E c \in Callers, n \in Names : DialSucceeds(c, n),
           ~ \E p \in Peers, n \in Names : Greeted(p, n)
    PROVE  peers' \subseteq peers /\ UNCHANGED name
<1>1. ASSUME NEW c \in Callers, ConnectStep(c) PROVE UNCHANGED peerVars
  BY <1>1 DEF ConnectStep, ConnectByName, ConnectByAddress, ConnectUnknown, StartDial,
     WaitForDial, Wake, Dialled, DialFails, ConnectThrows
<1>2. ASSUME NEW p \in Peers, PeerStep(p) PROVE peers' \subseteq peers /\ UNCHANGED name
  BY <1>2 DEF PeerStep, Break, Closed, RemovePeer, Accept, Turned
<1>3. ASSUME StopStep PROVE peers' \subseteq peers /\ UNCHANGED name
  BY <1>3 DEF StopStep, Stop, CloseReturns, Clear, ClosePeer, peerVars
<1> QED
  BY <1>1, <1>2, <1>3 DEF Next, SetAddress, vars, peerVars

LEMMA RegisteredStep == ASSUME MapInv, [Next]_vars PROVE Registered'
<1> USE RegistryAssumption DEF MapInv, DialInv, Dialling, Peers
<1>1. ASSUME NEW c \in Callers, ConnectStep(c), UNCHANGED <<peerVars, stopVars>>
      PROVE  Registered'
  <2>1. pc[c] # "returned"
    BY <1>1 DEF ConnectStep, ConnectByName, ConnectByAddress, ConnectUnknown, StartDial,
       WaitForDial, Wake, Dialled, DialFails, ConnectThrows, DialSucceeds
  <2>2. \A d \in Callers : pc[d] = "returned" => pc'[d] = "returned"
    BY <1>1, <2>1 DEF TypeOK, ConnectStep, ConnectByName, ConnectByAddress, ConnectUnknown,
       StartDial, WaitForDial, Wake, Dialled, DialFails, ConnectThrows, DialSucceeds, Returns
  <2> QED
    BY <1>1, <2>2 DEF Registered, peerVars, stopVars
<1>2. ASSUME NEW c \in Callers, NEW n \in Names, DialSucceeds(c, n) PROVE Registered'
  BY <1>2 DEF Registered, TypeOK, DialSucceeds, Insert, Returns, stopVars
<1>3. ASSUME NEW c \in Callers, ConnectStep(c), \A n \in Names : ~DialSucceeds(c, n)
      PROVE  UNCHANGED <<peerVars, stopVars>>
  BY <1>3 DEF ConnectStep, ConnectByName, ConnectByAddress, ConnectUnknown, StartDial,
     WaitForDial, Wake, Dialled, DialFails, ConnectThrows
<1>4. ASSUME NEW p \in Peers, PeerStep(p) PROVE Registered'
  <2>1. CASE Break(p) \/ Closed(p) \/ RemovePeer(p) \/ Accept(p) \/ Turned(p)
    BY <2>1 DEF Registered, TypeOK, Break, Closed, RemovePeer, Accept, Turned, callVars,
       stopVars
  <2>2. ASSUME NEW n \in Names, Greeted(p, n) PROVE Registered'
    BY <2>2 DEF Registered, TypeOK, Greeted, Insert, callVars, stopVars
  <2> QED
    BY <1>4, <2>1, <2>2 DEF PeerStep
<1>5. CASE Stop \/ CloseReturns \/ Clear
  BY <1>5 DEF Registered, Stop, CloseReturns, Clear, callVars, peerVars
<1>6. ASSUME NEW p \in Peers, ClosePeer(p) PROVE Registered'
  BY <1>6 DEF Registered, TypeOK, ClosePeer, callVars
<1>7. CASE UNCHANGED <<callVars, peerVars, stopVars>>
  BY <1>7 DEF Registered, callVars, peerVars, stopVars
<1> QED
  BY <1>1, <1>2, <1>3, <1>4, <1>5, <1>6, <1>7 DEF Next, StopStep, SetAddress, vars

\* A caller in the map keeps its address: it has returned.
LEMMA AddressKept ==
    ASSUME MapInv, [Next]_vars, NEW p \in peers \cap Callers
    PROVE  address'[p] = address[p]
<1>1. pc[p] = "returned"
  BY DEF MapInv, Registered
<1>2. ASSUME NEW c \in Callers, ConnectStep(c) PROVE address'[p] = address[p]
  BY <1>1, <1>2 DEF MapInv, DialInv, TypeOK, ConnectStep, ConnectByName, ConnectByAddress,
     ConnectUnknown, StartDial, WaitForDial, Wake, Dialled, DialFails, ConnectThrows,
     DialSucceeds
<1> QED
  BY <1>2, OthersKeepDials DEF callVars

LEMMA TwinsStep == ASSUME MapInv, [Next]_vars PROVE FreshDials' /\ NoTwins'
<1> USE RegistryAssumption DEF MapInv, DialInv, Dialling, Peers
<1>1. ASSUME NEW c \in Callers, NEW n \in Names, DialSucceeds(c, n)
      PROVE  FreshDials' /\ NoTwins'
  <2>1. \A d \in Callers : pc'[d] \in Dialling => pc[d] \in Dialling /\ d # c
    BY <1>1 DEF TypeOK, DialSucceeds, Returns
  <2>2. \A d \in Callers : pc'[d] \in Dialling => address[d] # address[c]
    BY <1>1, <2>1 DEF DialSucceeds, EventsAreDials, Addressed
  <2>3. c \notin peers
    BY <1>1 DEF DialSucceeds, Registered
  <2>4. \A p \in peers \cap Callers : ~ (name[p] = n /\ address[p] = address[c])
    BY <1>1 DEF DialSucceeds, FreshDials
  <2>5. /\ peers' = peers \cup {c}
        /\ name' = [name EXCEPT ![c] = n]
        /\ UNCHANGED address
    BY <1>1 DEF DialSucceeds, Insert
  <2>6. FreshDials'
    BY <2>1, <2>2, <2>3, <2>5 DEF FreshDials, TypeOK
  <2>7. NoTwins'
    BY <2>3, <2>4, <2>5 DEF NoTwins, TypeOK
  <2> QED
    BY <2>6, <2>7
<1>2. ASSUME NEW p \in Peers, NEW n \in Names, Greeted(p, n)
      PROVE  FreshDials' /\ NoTwins'
  <2>1. p \in Inbound
    BY <1>2 DEF Greeted, Registered
  <2>2. /\ peers' \cap Callers = peers \cap Callers
        /\ \A d \in Callers : name'[d] = name[d]
        /\ UNCHANGED callVars
    BY <1>2, <2>1 DEF Greeted, Insert, TypeOK
  <2> QED
    BY <2>2 DEF FreshDials, NoTwins, callVars
<1>3. ASSUME peers' \subseteq peers, UNCHANGED name
      PROVE  FreshDials' /\ NoTwins'
  <2>1. NoTwins'
    BY <1>3, AddressKept DEF NoTwins
  <2>2. CASE UNCHANGED <<callVars, connecting, signalled>>
    BY <1>3, <2>1, <2>2 DEF FreshDials, callVars
  <2>3. ASSUME NEW c \in Callers, StartDial(c) PROVE FreshDials'
    <3>1. /\ address' = [address EXCEPT ![c] = DialAddress(c)]
          /\ pc' = [pc EXCEPT ![c] = "dialling"]
          /\ DialAddress(c) # None
      BY <2>3 DEF StartDial
    <3>2. c \notin peers
      BY <2>3 DEF StartDial, Registered
    <3>3. \A p \in peers \cap Callers :
             address[p] = DialAddress(c) => Target[c] \in Names /\ name[p] # Target[c]
      BY <3>1, DialAddressType DEF At, AddressOf, Named
    <3> QED
      BY <1>3, <3>1, <3>2, <3>3 DEF FreshDials, TypeOK
  <2>4. ASSUME NEW c \in Callers, ConnectStep(c), ~StartDial(c) PROVE FreshDials'
    <3>1. \A d \in Callers : pc'[d] \in Dialling =>
             pc[d] \in Dialling /\ address'[d] = address[d]
      BY <2>4 DEF TypeOK, ConnectStep, ConnectByName, ConnectByAddress, ConnectUnknown,
         WaitForDial, Wake, Dialled, DialFails, ConnectThrows, DialSucceeds, Returns
    <3> QED
      BY <1>3, <3>1, AddressKept DEF FreshDials
  <2> QED
    BY <2>1, <2>2, <2>3, <2>4, OthersKeepDials
<1> QED
  BY <1>1, <1>2, <1>3, NoInsertion

LEMMA MapInvHolds == Spec => []MapInv
<1>1. Init => Registered /\ SharedDials /\ FreshDials /\ NoTwins
  BY DEF Init, Registered, SharedDials, FreshDials, NoTwins, Dialling, Peers
<1>2. ASSUME MapInv, [Next]_vars, DialInv' PROVE MapInv'
  BY <1>2, RegisteredStep, SharedDialsStep, TwinsStep DEF MapInv
<1>3. Init /\ DialInv => MapInv
  BY <1>1 DEF MapInv
<1> QED
  BY <1>2, <1>3, DialInvHolds, PTL DEF Spec

\* Concurrent connects never leave two peers of one name at one address in the map.
THEOREM ConnectsMakeNoTwins == Spec => []NoTwins
<1>1. MapInv => NoTwins
  BY DEF MapInv
<1> QED
  BY <1>1, MapInvHolds, PTL

\* A waiter gets the peer of the dial it waited for, as long as there is one.
THEOREM DialsAreShared == Spec => WaitersShareTheDial
<1>1. ASSUME MapInv, [Next]_vars, NEW c \in Callers,
             pc[c] = "waiting", pc'[c] = "returned", result'[c] = None
      PROVE  /\ pc[waitsFor[c]] \notin Dialling
             /\ phase[waitsFor[c]] = "live" => stage = "stopped"
  <2> USE RegistryAssumption DEF MapInv, DialInv, Dialling, Peers
  <2>1. Wake(c)
    <3>1. ASSUME NEW d \in Callers, ConnectStep(d) PROVE Wake(c)
      BY <1>1, <3>1 DEF TypeOK, ConnectStep, ConnectByName, ConnectByAddress,
         ConnectUnknown, StartDial, WaitForDial, Wake, Dialled, DialFails, ConnectThrows,
         DialSucceeds, Returns
    <3> QED
      BY <1>1, <3>1, OthersKeepDials DEF callVars
  <2>2. waitsFor[c] \in Callers /\ waitsFor[c] \in signalled
    BY <1>1, <2>1 DEF Wake, Addressed
  <2>3. At(address[c]) = {}
    BY <1>1, <2>1 DEF Wake, Returns, TypeOK, At
  <2>4. waitsFor[c] \notin peers
    BY <1>1, <2>2, <2>3 DEF At, AddressOf, SharedDials
  <2> QED
    BY <1>1, <2>2, <2>4 DEF SharedDials, Registered
<1>2. MapInv /\ [Next]_vars =>
        [\A c \in Callers :
           pc[c] = "waiting" /\ pc'[c] = "returned" /\ result'[c] = None =>
               /\ pc[waitsFor[c]] \notin Dialling
               /\ phase[waitsFor[c]] = "live" => stage = "stopped"]_vars
  BY <1>1
<1> QED
  BY <1>2, MapInvHolds, PTL DEF Spec, WaitersShareTheDial

\* The end of one connection takes its own peer out of the map and no other.
THEOREM RemovalIsExact == Spec => OnlyBrokenLeave
<1>1. ASSUME MapInv, [Next]_vars, NEW p \in peers \ peers'
      PROVE  phase[p] = "closed" \/ stage' # stage
  <2>1. ASSUME NEW c \in Callers, ConnectStep(c) PROVE peers \subseteq peers'
    BY <2>1 DEF ConnectStep, ConnectByName, ConnectByAddress, ConnectUnknown, StartDial,
       WaitForDial, Wake, Dialled, DialFails, ConnectThrows, DialSucceeds, Insert, peerVars
  <2>2. ASSUME NEW q \in Peers, PeerStep(q) PROVE phase[p] = "closed"
    BY <1>1, <2>2 DEF PeerStep, Break, Closed, RemovePeer, Accept, Turned, Greeted, Insert
  <2>3. ASSUME StopStep PROVE stage' # stage
    BY <1>1, <2>3 DEF StopStep, Stop, CloseReturns, Clear, ClosePeer, peerVars
  <2> QED
    BY <1>1, <2>1, <2>2, <2>3 DEF Next, SetAddress, vars, peerVars
<1>2. MapInv /\ [Next]_vars =>
        [\A p \in peers \ peers' : phase[p] = "closed" \/ stage' # stage]_vars
  BY <1>1
<1> QED
  BY <1>2, MapInvHolds, PTL DEF Spec, OnlyBrokenLeave
=============================================================================
