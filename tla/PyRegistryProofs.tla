-------------------------- MODULE PyRegistryProofs --------------------------
(***************************************************************************)
(* What PyRegistry.tla promises, for any callers, connections, names and   *)
(* addresses.                                                              *)
(***************************************************************************)
EXTENDS PyRegistry, TLAPS

\* A connection that a caller makes is in prepare_peer() exactly while the caller is, and
\* only peers that came out of it are registered.
StagesFit ==
    /\ \A c \in Callers :
         /\ pc[c] \in {"idle", "dialling", "waiting", "blocked"} => stage[c] = "none"
         /\ stage[c] \in {"greeting", "joining", "registering"} <=> pc[c] = "greeting"
         /\ pc[c] \in {"dialling", "greeting"} => address[c] \in Addresses
    /\ \A n \in Names : peers[n] # None => stage[peers[n]] \in {"live", "killing"}

\* The scheduler has tasks that run, under their names.
TasksFit ==
    \A n \in Names :
        tasks[n] # None => name[tasks[n]] = n /\ stage[tasks[n]] \in {"registering", "live"}

\* A task is killed for a connection of the same name, which waits until it has ended.
JoinsFit ==
    \A k \in Conns :
        joins[k] # None =>
            /\ stage[k] \in {"joining", "registering", "live", "killing", "gone"}
            /\ stage[joins[k]] \in {"registering", "live", "killing", "gone"}
            /\ name[joins[k]] = name[k]
            /\ stage[k] \in {"joining", "killing"} \/ stage[joins[k]] = "gone"

\* A connection whose task was spawned, or is to be, has a name.
Named ==
    \A k \in Conns : stage[k] \in {"joining", "registering", "live", "killing"} => name[k] \in Names

\* A connection that was not registered at once waits for a lock that is kept.
RegisteringWaits == \A k \in Conns : stage[k] = "registering" => holder # None

RegInv ==
    /\ TypeOK /\ StagesFit /\ Named /\ TasksFit /\ JoinsFit /\ RegisteringWaits
    /\ DialsAreAnnounced /\ RegisteredIsRun

-----------------------------------------------------------------------------
(* Lemmas about the helpers *)

LEMMA ConnsAreNamed == None \notin Conns /\ Callers \subseteq Conns /\ Inbound \subseteq Conns
  BY RegistryAssumption DEF Conns

\* Whoever connect() asks about is registered under some name.
LEMMA CandidatesRegistered ==
    ASSUME TypeOK, NEW c \in Callers, NEW k \in Candidates(c)
    PROVE  k \in Conns /\ k # None /\ \E n \in Names : peers[n] = k
  BY RegistryAssumption DEF TypeOK, Candidates, Registered

\* A peer that leaves the dictionary takes nobody with it.
LEMMA WithoutKeeps ==
    ASSUME TypeOK, NEW k, peers' = Without(k)
    PROVE  /\ peers' \in [Names -> Conns \cup {None}]
           /\ \A n \in Names : peers'[n] # None => peers'[n] = peers[n] /\ peers[n] # k
           /\ \A n \in Names : peers[n] # k => peers'[n] = peers[n]
  BY DEF TypeOK, Without

LEMMA MissesKeeps ==
    ASSUME TypeOK, NEW c \in Callers, Misses(c)
    PROVE  /\ pc[c] = "idle" /\ holder = None
           /\ peers' \in [Names -> Conns \cup {None}]
           /\ \A n \in Names : peers'[n] # None => peers'[n] = peers[n]
           /\ \A n \in Names : IsOk(peers[n]) => peers'[n] = peers[n]
<1>1. CASE Candidates(c) = {}
  BY <1>1 DEF Misses, TypeOK
<1>2. ASSUME NEW k \in Candidates(c), ~IsOk(k), peers' = Without(k)
      PROVE  /\ peers' \in [Names -> Conns \cup {None}]
             /\ \A n \in Names : peers'[n] # None => peers'[n] = peers[n]
             /\ \A n \in Names : IsOk(peers[n]) => peers'[n] = peers[n]
  BY <1>2, WithoutKeeps
<1> QED
  BY <1>1, <1>2 DEF Misses

\* The address a caller dials.
LEMMA DialledAddress ==
    ASSUME TypeOK, NEW c \in Callers, ConnectDials(c)
    PROVE  \E a \in Addresses :
             /\ address' = [address EXCEPT ![c] = a]
             /\ \/ /\ connecting[a] = None
                   /\ connecting' = [connecting EXCEPT ![a] = c]
                   /\ pc' = [pc EXCEPT ![c] = "dialling"]
                \/ pc' = [pc EXCEPT ![c] = "waiting"] /\ UNCHANGED connecting
<1> DEFINE a == IF Asks[c] \in Names THEN known[Asks[c]] ELSE Asks[c]
<1>1. a \in Addresses
  BY RegistryAssumption DEF TypeOK, ConnectDials, Addresses
<1> QED
  BY <1>1 DEF ConnectDials

-----------------------------------------------------------------------------
(* Types *)

LEMMA ConnectType ==
    ASSUME RegInv, NEW c \in Callers, ConnectStep(c)
    PROVE  TypeOK'
<1> USE ConnsAreNamed DEF RegInv, connVars, mapVars, CallActive
<1>1. CASE ConnectBlocks(c)
  BY <1>1 DEF TypeOK, ConnectBlocks
<1>2. CASE ConnectFinds(c)
  BY <1>2, CandidatesRegistered DEF TypeOK, ConnectFinds, Return
<1>3. CASE ConnectUnknown(c)
  BY <1>3, MissesKeeps DEF TypeOK, ConnectUnknown, Return
<1>4. CASE ConnectDials(c)
  <2>1. /\ peers' \in [Names -> Conns \cup {None}]
        /\ \A n \in Names : peers'[n] # None => peers'[n] = peers[n]
    BY <1>4, MissesKeeps DEF ConnectDials
  <2>2. /\ address' \in [Conns -> Addresses \cup {None}]
        /\ connecting' \in [Addresses -> Callers \cup {None}]
        /\ pc' \in [Callers -> {"idle", "returned"} \cup CallActive]
    BY <1>4, DialledAddress DEF TypeOK
  <2>3. UNCHANGED <<result, name, stage, open, joins, known, tasks, holder>>
    BY <1>4 DEF ConnectDials
  <2> QED
    BY <2>1, <2>2, <2>3 DEF TypeOK
<1>5. CASE Wake(c)
  BY <1>5 DEF TypeOK, Wake, Return, Registered
<1>6. CASE DialFails(c)
  BY <1>6 DEF TypeOK, DialFails, Return
<1>7. CASE DialDone(c)
  BY <1>7 DEF TypeOK, DialDone
<1> QED
  BY <1>1, <1>2, <1>3, <1>4, <1>5, <1>6, <1>7 DEF ConnectStep

LEMMA DialEndsType ==
    ASSUME TypeOK, NEW k \in Conns, NEW p \in Conns \cup {None}, DialEnds(k, p)
    PROVE  /\ pc' \in [Callers -> {"idle", "returned"} \cup CallActive]
           /\ result' \in [Callers -> Conns \cup {None}]
           /\ connecting' \in [Addresses -> Callers \cup {None}]
  BY DEF TypeOK, DialEnds, Return, callVars

\* A peer that is installed has its task spawned, and is registered unless the lock is kept.
InstallFits(k, n) ==
    /\ pc' \in [Callers -> {"idle", "returned"} \cup CallActive]
    /\ result' \in [Callers -> Conns \cup {None}]
    /\ connecting' \in [Addresses -> Callers \cup {None}]
    /\ stage' = [stage EXCEPT ![k] = "live"] \/ stage' = [stage EXCEPT ![k] = "registering"]
    /\ tasks' = [tasks EXCEPT ![n] = k]
    /\ known' \in [Names -> Addresses \cup {None}]
    /\ peers' = peers \/ peers' = [peers EXCEPT ![n] = k]

LEMMA InstallType ==
    ASSUME TypeOK, NEW k \in Conns, NEW n \in Names, Install(k, n)
    PROVE  InstallFits(k, n)
<1> USE ConnsAreNamed
<1>1. CASE holder = None
  <2>1. DialEnds(k, k)
    BY <1>1 DEF Install
  <2>2. /\ pc' \in [Callers -> {"idle", "returned"} \cup CallActive]
        /\ result' \in [Callers -> Conns \cup {None}]
        /\ connecting' \in [Addresses -> Callers \cup {None}]
    BY <2>1, DialEndsType
  <2> QED
    BY <1>1, <2>2 DEF TypeOK, Install, InstallFits
<1>2. CASE holder # None
  BY <1>2 DEF TypeOK, Install, InstallFits, callVars
<1> QED
  BY <1>1, <1>2

LEMMA ConnType ==
    ASSUME RegInv, NEW k \in Conns, ConnStep(k)
    PROVE  TypeOK'
<1> USE ConnsAreNamed DEF RegInv, callVars, mapVars
<1>1. CASE GreetingFails(k)
  BY <1>1, DialEndsType DEF TypeOK, GreetingFails
<1>2. CASE GreetingRefused(k)
  BY <1>2, DialEndsType DEF TypeOK, GreetingRefused, StagesFit
<1>3. CASE Greeted(k)
  <2>1. PICK n \in Names :
          /\ name' = [name EXCEPT ![k] = n]
          /\ \/ tasks[n] = None /\ Install(k, n) /\ UNCHANGED joins
             \/ /\ tasks[n] # None
                /\ joins' = [joins EXCEPT ![k] = tasks[n]]
                /\ stage' = [stage EXCEPT ![k] = "joining"]
                /\ UNCHANGED <<callVars, mapVars>>
    BY <1>3 DEF Greeted
  <2>2. stage[k] = "greeting" /\ UNCHANGED <<address, open, holder>>
    BY <1>3 DEF Greeted
  <2>3. \A m \in Names : peers[m] # None => peers[m] # k
    BY <2>2 DEF StagesFit
  <2>4. CASE tasks[n] # None /\ joins' = [joins EXCEPT ![k] = tasks[n]]
             /\ stage' = [stage EXCEPT ![k] = "joining"] /\ UNCHANGED <<callVars, mapVars>>
    BY <2>1, <2>2, <2>3, <2>4 DEF TypeOK
  <2>5. CASE Install(k, n) /\ UNCHANGED joins
    <3>1. InstallFits(k, n)
      BY <2>5, InstallType
    <3>2. name' \in [Conns -> Names \cup {None}] /\ name'[k] = n
          /\ \A l \in Conns \ {k} : name'[l] = name[l]
      BY <2>1 DEF TypeOK
    <3>3. \A m \in Names : peers'[m] # None => name'[peers'[m]] = m
      BY <2>3, <3>1, <3>2 DEF TypeOK, InstallFits
    <3> QED
      BY <2>2, <2>5, <3>1, <3>2, <3>3 DEF TypeOK, InstallFits
  <2> QED
    BY <2>1, <2>4, <2>5
<1>4. CASE Joined(k)
  <2>1. Install(k, name[k]) /\ name[k] \in Names /\ UNCHANGED <<address, name, open, joins, holder>>
    BY <1>4 DEF Joined, Named
  <2>2. InstallFits(k, name[k])
    BY <2>1, InstallType
  <2>3. \A m \in Names : peers'[m] # None => name'[peers'[m]] = m
    BY <2>1, <2>2 DEF TypeOK, InstallFits
  <2> QED
    BY <2>1, <2>2, <2>3 DEF TypeOK, InstallFits
<1>5. CASE ConnectionLost(k)
  BY <1>5 DEF TypeOK, ConnectionLost
<1>6. CASE Clean(k)
  BY <1>6, WithoutKeeps DEF TypeOK, Clean, Leaving
<1>7. CASE UserShutdown(k)
  <2>1. CASE ShutdownKills(k) /\ UNCHANGED holder
    BY <2>1 DEF TypeOK, Named, ShutdownKills
  <2>2. CASE Close(k)
    BY <2>2, WithoutKeeps DEF TypeOK, Close
  <2> QED
    BY <1>7, <2>1, <2>2 DEF UserShutdown
<1>8. CASE ShutdownEnds(k)
  BY <1>8, WithoutKeeps DEF TypeOK, ShutdownEnds, Close
<1> QED
  BY <1>1, <1>2, <1>3, <1>4, <1>5, <1>6, <1>7, <1>8 DEF ConnStep

LEMMA TypeStep == ASSUME RegInv, [Next]_vars PROVE TypeOK'
<1> USE ConnsAreNamed DEF RegInv, callVars, connVars, mapVars
<1>1. CASE UNCHANGED vars
  BY <1>1 DEF TypeOK, vars
<1>2. ASSUME NEW i \in Inbound, Accept(i) \/ HandleRequest(i) PROVE TypeOK'
  BY <1>2 DEF TypeOK, Accept, HandleRequest
<1>3. CASE RpcShutdown
  BY <1>3 DEF TypeOK, RpcShutdown, ShutdownKills, Registered
<1> QED
  BY <1>1, <1>2, <1>3, ConnectType, ConnType DEF Next

-----------------------------------------------------------------------------
(* Dials and the connections they make *)

\* The end of a dial releases the event that its caller made, and no other.
LEMMA DialEndsKeeps ==
    ASSUME RegInv, NEW k \in Conns, NEW p \in Conns \cup {None},
           stage[k] \in {"greeting", "joining"}, DialEnds(k, p),
           NEW s \in {"gone", "refused", "live"}, stage' = [stage EXCEPT ![k] = s],
           UNCHANGED address
    PROVE  /\ DialsAreAnnounced'
           /\ \A c \in Callers :
                /\ pc'[c] \in {"idle", "dialling", "waiting", "blocked"} => stage'[c] = "none"
                /\ stage'[c] \in {"greeting", "joining", "registering"} <=> pc'[c] = "greeting"
                /\ pc'[c] \in {"dialling", "greeting"} => address[c] \in Addresses
<1> USE ConnsAreNamed DEF RegInv
<1>1. CASE k \in Callers
  <2>1. pc[k] = "greeting" /\ connecting[address[k]] = k
    BY <1>1 DEF StagesFit, DialsAreAnnounced
  <2>2. /\ pc' = [pc EXCEPT ![k] = "returned"]
        /\ connecting' = [connecting EXCEPT ![address[k]] = None]
    BY <1>1 DEF DialEnds, Return
  <2>3. ASSUME NEW c \in Callers, pc'[c] \in {"dialling", "greeting"}
        PROVE  connecting'[address[c]] = c
    <3>1. c # k /\ connecting[address[c]] = c
      BY <2>2, <2>3 DEF TypeOK, DialsAreAnnounced
    <3>2. address[c] # address[k]
      BY <2>1, <3>1
    <3> QED
      BY <2>2, <3>1, <3>2 DEF TypeOK
  <2> QED
    BY <2>1, <2>2, <2>3 DEF TypeOK, StagesFit, DialsAreAnnounced
<1>2. CASE k \notin Callers
  BY <1>2 DEF DialEnds, callVars, StagesFit, DialsAreAnnounced, TypeOK
<1> QED
  BY <1>1, <1>2

LEMMA ConnectKeepsDials ==
    ASSUME RegInv, NEW c \in Callers, ConnectStep(c)
    PROVE  StagesFit' /\ DialsAreAnnounced'
<1> USE ConnsAreNamed DEF RegInv, connVars, mapVars
<1>1. CASE ConnectBlocks(c)
  BY <1>1 DEF TypeOK, StagesFit, DialsAreAnnounced, ConnectBlocks
<1>2. CASE ConnectFinds(c)
  BY <1>2 DEF TypeOK, StagesFit, DialsAreAnnounced, ConnectFinds, Return
<1>3. CASE ConnectUnknown(c)
  BY <1>3, MissesKeeps
  DEF TypeOK, StagesFit, DialsAreAnnounced, ConnectUnknown, Return
<1>4. CASE ConnectDials(c)
  <2>1. /\ pc[c] = "idle"
        /\ \A n \in Names : peers'[n] # None => peers'[n] = peers[n]
    BY <1>4, MissesKeeps DEF ConnectDials
  <2>2. UNCHANGED stage
    BY <1>4 DEF ConnectDials
  <2>3. PICK a \in Addresses :
          /\ address' = [address EXCEPT ![c] = a]
          /\ \/ /\ connecting[a] = None
                /\ connecting' = [connecting EXCEPT ![a] = c]
                /\ pc' = [pc EXCEPT ![c] = "dialling"]
             \/ pc' = [pc EXCEPT ![c] = "waiting"] /\ UNCHANGED connecting
    BY <1>4, DialledAddress
  <2>4. StagesFit'
    BY <2>1, <2>2, <2>3 DEF TypeOK, StagesFit
  <2>5. ASSUME NEW d \in Callers, pc'[d] \in {"dialling", "greeting"}
        PROVE  connecting'[address'[d]] = d
    <3>1. CASE d = c
      BY <2>3, <2>5, <3>1 DEF TypeOK
    <3>2. CASE d # c
      <4>1. connecting[address[d]] = d /\ address'[d] = address[d] /\ address[d] \in Addresses
        BY <2>3, <2>5, <3>2 DEF TypeOK, DialsAreAnnounced, StagesFit
      <4>2. d # None
        OBVIOUS
      <4> QED
        BY <2>3, <4>1, <4>2 DEF TypeOK
    <3> QED
      BY <3>1, <3>2
  <2> QED
    BY <2>4, <2>5 DEF DialsAreAnnounced
<1>5. CASE Wake(c)
  BY <1>5 DEF TypeOK, StagesFit, DialsAreAnnounced, Wake, Return
<1>6. CASE DialFails(c)
  BY <1>6 DEF TypeOK, StagesFit, DialsAreAnnounced, DialFails, Return
<1>7. CASE DialDone(c)
  BY <1>7 DEF TypeOK, StagesFit, DialsAreAnnounced, DialDone
<1> QED
  BY <1>1, <1>2, <1>3, <1>4, <1>5, <1>6, <1>7 DEF ConnectStep

\* What Install does to the connections of callers.
LEMMA InstallKeepsDials ==
    ASSUME RegInv, NEW k \in Conns, NEW n \in Names, stage[k] \in {"greeting", "joining"},
           Install(k, n), UNCHANGED address
    PROVE  StagesFit' /\ DialsAreAnnounced'
<1> USE ConnsAreNamed DEF RegInv
<1>1. CASE holder = None
  <2>1. DialEnds(k, k) /\ stage' = [stage EXCEPT ![k] = "live"] /\ peers' = [peers EXCEPT ![n] = k]
    BY <1>1 DEF Install
  <2>2. \A m \in Names : peers'[m] # None => stage'[peers'[m]] \in {"live", "killing"}
    BY <2>1 DEF TypeOK, StagesFit
  <2> QED
    BY <2>1, <2>2, DialEndsKeeps DEF StagesFit
<1>2. CASE holder # None
  <2>1. stage' = [stage EXCEPT ![k] = "registering"] /\ UNCHANGED <<pc, connecting, peers>>
    BY <1>2 DEF Install, callVars
  <2> QED
    BY <2>1 DEF TypeOK, StagesFit, DialsAreAnnounced
<1> QED
  BY <1>1, <1>2

LEMMA ConnKeepsDials ==
    ASSUME RegInv, NEW k \in Conns, ConnStep(k)
    PROVE  StagesFit' /\ DialsAreAnnounced'
<1> USE ConnsAreNamed DEF RegInv, callVars, mapVars
<1>1. CASE GreetingFails(k)
  <2>1. /\ stage' = [stage EXCEPT ![k] = "gone"] /\ DialEnds(k, None)
        /\ UNCHANGED <<address, peers>> /\ stage[k] = "greeting"
    BY <1>1 DEF GreetingFails
  <2>2. \A m \in Names : peers'[m] # None => stage'[peers'[m]] \in {"live", "killing"}
    BY <2>1 DEF TypeOK, StagesFit
  <2> QED
    BY <2>1, <2>2, DialEndsKeeps DEF StagesFit
<1>2. CASE GreetingRefused(k)
  <2>1. /\ stage' = [stage EXCEPT ![k] = "refused"] /\ DialEnds(k, None)
        /\ UNCHANGED <<address, peers>> /\ stage[k] = "greeting"
    BY <1>2 DEF GreetingRefused
  <2>2. \A m \in Names : peers'[m] # None => stage'[peers'[m]] \in {"live", "killing"}
    BY <2>1 DEF TypeOK, StagesFit
  <2> QED
    BY <2>1, <2>2, DialEndsKeeps DEF StagesFit
<1>3. CASE Greeted(k)
  <2>1. CASE \E n \in Names : Install(k, n)
    BY <1>3, <2>1, InstallKeepsDials DEF Greeted
  <2>2. CASE stage' = [stage EXCEPT ![k] = "joining"] /\ UNCHANGED <<callVars, mapVars>>
    BY <1>3, <2>2 DEF TypeOK, StagesFit, DialsAreAnnounced, Greeted
  <2> QED
    BY <1>3, <2>1, <2>2 DEF Greeted
<1>4. CASE Joined(k)
  <2>1. name[k] \in Names
    BY <1>4 DEF Joined, Named
  <2> QED
    BY <1>4, <2>1, InstallKeepsDials DEF Joined
<1>5. CASE ConnectionLost(k)
  BY <1>5 DEF StagesFit, DialsAreAnnounced, ConnectionLost
<1>6. ASSUME stage[k] \in {"live", "killing"}, stage' = [stage EXCEPT ![k] = "gone"],
             peers' = Without(k), UNCHANGED <<callVars, address>>
      PROVE  StagesFit' /\ DialsAreAnnounced'
  BY <1>6, WithoutKeeps DEF TypeOK, StagesFit, DialsAreAnnounced
<1>7. CASE Clean(k) \/ ShutdownEnds(k)
  BY <1>6, <1>7 DEF Clean, Leaving, ShutdownEnds, Close
<1>8. CASE UserShutdown(k)
  <2>1. CASE ShutdownKills(k)
    BY <2>1 DEF TypeOK, StagesFit, DialsAreAnnounced, ShutdownKills
  <2>2. CASE stage[k] = "live" /\ Close(k)
    BY <1>6, <2>2 DEF Close
  <2> QED
    BY <1>8, <2>1, <2>2 DEF UserShutdown
<1> QED
  BY <1>1, <1>2, <1>3, <1>4, <1>5, <1>7, <1>8 DEF ConnStep

LEMMA DialsStep == ASSUME RegInv, [Next]_vars PROVE StagesFit' /\ DialsAreAnnounced'
<1> USE ConnsAreNamed DEF RegInv, callVars, connVars, mapVars
<1>1. CASE UNCHANGED vars
  BY <1>1 DEF StagesFit, DialsAreAnnounced, vars
<1>2. ASSUME NEW i \in Inbound, Accept(i) \/ HandleRequest(i)
      PROVE  StagesFit' /\ DialsAreAnnounced'
  BY <1>2, RegistryAssumption
  DEF TypeOK, StagesFit, DialsAreAnnounced, Accept, HandleRequest
<1>3. CASE RpcShutdown
  BY <1>3 DEF TypeOK, StagesFit, DialsAreAnnounced, RpcShutdown, ShutdownKills, Registered
<1> QED
  BY <1>1, <1>2, <1>3, ConnectKeepsDials, ConnKeepsDials DEF Next

-----------------------------------------------------------------------------
(* The tasks of the scheduler *)

\* Greeted and Joined give a connection the name n; what they do to its task and its stage.
LEMMA NamedInstalls ==
    ASSUME RegInv, NEW k \in Conns, Greeted(k) \/ Joined(k)
    PROVE  \E n \in Names :
             /\ stage[k] \in {"greeting", "joining"} /\ name' = [name EXCEPT ![k] = n]
             /\ \/ /\ tasks' = [tasks EXCEPT ![n] = k] /\ UNCHANGED joins
                   /\ stage[k] = "joining" => name[k] = n /\ stage[joins[k]] = "gone"
                   /\ \/ /\ holder = None /\ stage' = [stage EXCEPT ![k] = "live"]
                         /\ peers' = [peers EXCEPT ![n] = k]
                      \/ /\ holder # None /\ stage' = [stage EXCEPT ![k] = "registering"]
                         /\ UNCHANGED peers
                \/ /\ stage[k] = "greeting" /\ tasks[n] # None /\ UNCHANGED <<tasks, peers>>
                   /\ joins' = [joins EXCEPT ![k] = tasks[n]]
                   /\ stage' = [stage EXCEPT ![k] = "joining"]
<1> USE DEF RegInv
<1>1. CASE Greeted(k)
  BY <1>1 DEF Greeted, Install, mapVars
<1>2. CASE Joined(k)
  <2>1. name[k] \in Names
    BY <1>2 DEF Named, Joined
  <2>2. name' = [name EXCEPT ![k] = name[k]]
    BY <1>2 DEF TypeOK, Joined
  <2> QED
    BY <1>2, <2>1, <2>2 DEF Joined, Install
<1> QED
  BY <1>1, <1>2

\* What comes before the task of a connection is spawned.
LEMMA EarlyKeepsTasks ==
    ASSUME RegInv, NEW k \in Conns, stage[k] \in {"none", "accepted", "greeting"},
           NEW s \in {"accepted", "greeting", "gone", "refused"},
           stage' = [stage EXCEPT ![k] = s], UNCHANGED <<joins, tasks, holder>>,
           \A l \in Conns \ {k} : name'[l] = name[l]
    PROVE  Named' /\ TasksFit' /\ JoinsFit' /\ RegisteringWaits'
<1> USE ConnsAreNamed DEF RegInv, TypeOK
<1>1. joins[k] = None \/ stage[joins[k]] = "gone"
  BY DEF JoinsFit
<1>2. Named' /\ TasksFit' /\ RegisteringWaits'
  BY DEF Named, TasksFit, RegisteringWaits
<1>3. JoinsFit'
  BY <1>1 DEF JoinsFit
<1> QED
  BY <1>2, <1>3

LEMMA InstallKeepsTasks ==
    ASSUME RegInv, NEW k \in Conns, Greeted(k) \/ Joined(k)
    PROVE  Named' /\ TasksFit' /\ JoinsFit' /\ RegisteringWaits'
<1> USE ConnsAreNamed DEF RegInv, TypeOK
<1>1. UNCHANGED holder
  BY DEF Greeted, Joined
<1>2. PICK n \in Names :
        /\ stage[k] \in {"greeting", "joining"} /\ name' = [name EXCEPT ![k] = n]
        /\ \/ /\ tasks' = [tasks EXCEPT ![n] = k] /\ UNCHANGED joins
              /\ stage[k] = "joining" => name[k] = n /\ stage[joins[k]] = "gone"
              /\ \/ holder = None /\ stage' = [stage EXCEPT ![k] = "live"]
                 \/ holder # None /\ stage' = [stage EXCEPT ![k] = "registering"]
           \/ /\ stage[k] = "greeting" /\ tasks[n] # None /\ UNCHANGED tasks
              /\ joins' = [joins EXCEPT ![k] = tasks[n]]
              /\ stage' = [stage EXCEPT ![k] = "joining"]
  BY NamedInstalls
<1>3. Named' /\ RegisteringWaits'
  BY <1>1, <1>2 DEF Named, RegisteringWaits
<1>4. TasksFit'
  BY <1>2 DEF TasksFit
<1>5. JoinsFit'
  BY <1>2 DEF JoinsFit, TasksFit
<1> QED
  BY <1>3, <1>4, <1>5

\* The end of a peer: its task goes, or somebody else's has gone before.
LEMMA EndKeepsTasks ==
    ASSUME RegInv, NEW k \in Conns,
           \/ Clean(k) \/ UserShutdown(k) \/ ShutdownEnds(k)
           \/ ShutdownKills(k) /\ holder = None /\ holder' # None
    PROVE  Named' /\ TasksFit' /\ JoinsFit' /\ RegisteringWaits'
<1> USE ConnsAreNamed DEF RegInv, TypeOK
<1>1. CASE Clean(k)
  <2>1. /\ stage[k] = "live" /\ stage' = [stage EXCEPT ![k] = "gone"]
        /\ tasks' = [tasks EXCEPT ![name[k]] = IF @ = k THEN None ELSE @]
        /\ UNCHANGED <<name, joins, holder>>
    BY <1>1 DEF Clean, Leaving
  <2>2. name[k] \in Names
    BY <2>1 DEF Named
  <2> QED
    BY <2>1, <2>2 DEF Named, TasksFit, JoinsFit, RegisteringWaits
<1>2. CASE ShutdownKills(k)
  <2>1. /\ stage[k] = "live" /\ stage' = [stage EXCEPT ![k] = "killing"]
        /\ tasks[name[k]] # None /\ tasks' = [tasks EXCEPT ![name[k]] = None]
        /\ joins' = [joins EXCEPT ![k] = tasks[name[k]]] /\ UNCHANGED name
    BY <1>2 DEF ShutdownKills
  <2>2. name[k] \in Names
    BY <2>1 DEF Named
  <2>3. holder' = holder \/ holder' # None
    BY DEF Clean, UserShutdown, ShutdownEnds, Close
  <2>4. Named' /\ RegisteringWaits'
    BY <2>1, <2>3 DEF Named, RegisteringWaits
  <2>5. TasksFit'
    BY <2>1, <2>2 DEF TasksFit
  <2>6. JoinsFit'
    BY <2>1, <2>2 DEF JoinsFit, TasksFit
  <2> QED
    BY <2>4, <2>5, <2>6
<1>3. ASSUME Close(k), \/ stage[k] = "live" /\ tasks[name[k]] = None
                       \/ stage[k] = "killing" /\ stage[joins[k]] = "gone"
      PROVE  Named' /\ TasksFit' /\ JoinsFit' /\ RegisteringWaits'
  <2>1. stage' = [stage EXCEPT ![k] = "gone"] /\ UNCHANGED <<name, joins, tasks, holder>>
    BY <1>3 DEF Close
  <2>2. \A n \in Names : tasks[n] # k
    BY <1>3 DEF TasksFit
  <2>3. joins[k] = None \/ stage[joins[k]] = "gone"
    BY <1>3 DEF JoinsFit
  <2> QED
    BY <2>1, <2>2, <2>3 DEF Named, TasksFit, JoinsFit, RegisteringWaits
<1> QED
  BY <1>1, <1>2, <1>3 DEF UserShutdown, ShutdownEnds

LEMMA TasksStep ==
    ASSUME RegInv, [Next]_vars
    PROVE  Named' /\ TasksFit' /\ JoinsFit' /\ RegisteringWaits'
<1> USE ConnsAreNamed DEF callVars, connVars, mapVars
<1>1. ASSUME UNCHANGED <<name, stage, joins, tasks>>, holder' = holder \/ holder' # None
      PROVE  Named' /\ TasksFit' /\ JoinsFit' /\ RegisteringWaits'
  BY <1>1 DEF RegInv, Named, TasksFit, JoinsFit, RegisteringWaits
<1>2. ASSUME NEW c \in Callers, ConnectStep(c)
      PROVE  Named' /\ TasksFit' /\ JoinsFit' /\ RegisteringWaits'
  <2>1. CASE DialDone(c)
    <3>1. stage[c] = "none"
      BY <2>1 DEF RegInv, StagesFit, DialDone
    <3> QED
      BY <2>1, <3>1, EarlyKeepsTasks DEF DialDone
  <2>2. CASE ~DialDone(c)
    BY <1>1, <1>2, <2>2 DEF ConnectStep, ConnectBlocks, ConnectFinds, ConnectUnknown,
       ConnectDials, Wake, DialFails
  <2> QED
    BY <2>1, <2>2
<1>3. ASSUME NEW i \in Inbound, Accept(i) \/ HandleRequest(i)
      PROVE  Named' /\ TasksFit' /\ JoinsFit' /\ RegisteringWaits'
  BY <1>3, EarlyKeepsTasks DEF Accept, HandleRequest
<1>4. ASSUME NEW k \in Conns, GreetingFails(k) \/ GreetingRefused(k)
      PROVE  Named' /\ TasksFit' /\ JoinsFit' /\ RegisteringWaits'
  <2>1. \A l \in Conns \ {k} : name'[l] = name[l]
    BY <1>4 DEF RegInv, TypeOK, GreetingFails, GreetingRefused
  <2> QED
    BY <1>4, <2>1, EarlyKeepsTasks DEF GreetingFails, GreetingRefused
<1>5. ASSUME NEW k \in Conns, ConnectionLost(k)
      PROVE  Named' /\ TasksFit' /\ JoinsFit' /\ RegisteringWaits'
  BY <1>1, <1>5 DEF ConnectionLost
<1>6. CASE RpcShutdown
  <2>1. PICK k \in Registered : ShutdownKills(k) /\ holder = None /\ holder' = Shutdown
    BY <1>6 DEF RpcShutdown
  <2>2. k \in Conns /\ Shutdown # None
    BY RegistryAssumption DEF RegInv, TypeOK, Registered
  <2> QED
    BY <2>1, <2>2, EndKeepsTasks
<1>7. CASE UNCHANGED vars
  BY <1>1, <1>7 DEF vars
<1> QED
  BY <1>2, <1>3, <1>4, <1>5, <1>6, <1>7, InstallKeepsTasks, EndKeepsTasks DEF Next, ConnStep

-----------------------------------------------------------------------------
(* The dictionary of peers and the tasks of the scheduler *)

\* What takes no peer in and no task out leaves the two in agreement.
LEMMA QuietKeepsRun ==
    ASSUME RegInv, \A n \in Names : peers'[n] # None => peers'[n] = peers[n],
           \A n \in Names : tasks'[n] = tasks[n], UNCHANGED joins,
           \A k \in Conns : stage[k] \in {"registering", "killing", "live"} =>
                              stage'[k] = stage[k] /\ name'[k] = name[k],
           \A k \in Conns : stage'[k] = "live" => stage[k] = "live", open' \subseteq open
    PROVE  RegisteredIsRun'
<1> USE ConnsAreNamed
<1>1. ASSUME NEW n \in Names, peers'[n] # None, IsOk(peers[n])'
      PROVE  tasks'[n] = peers'[n] \/ Displaced(peers[n])'
  <2>1. peers'[n] = peers[n] /\ peers[n] \in Conns /\ IsOk(peers[n])
    BY <1>1 DEF RegInv, TypeOK, IsOk
  <2>2. tasks[n] = peers[n] \/ Displaced(peers[n])
    BY <1>1, <2>1 DEF RegInv, RegisteredIsRun
  <2>3. Displaced(peers[n]) => Displaced(peers[n])'
    BY <2>1 DEF IsOk, Displaced
  <2> QED
    BY <2>1, <2>2, <2>3
<1> QED
  BY <1>1 DEF RegisteredIsRun

LEMMA InstallKeepsRun ==
    ASSUME RegInv, NEW k \in Conns, Greeted(k) \/ Joined(k)
    PROVE  RegisteredIsRun'
<1> USE ConnsAreNamed DEF RegInv, TypeOK, IsOk, Displaced
<1>1. UNCHANGED open
  BY DEF Greeted, Joined
<1>2. PICK n \in Names :
        /\ stage[k] \in {"greeting", "joining"} /\ name' = [name EXCEPT ![k] = n]
        /\ \/ /\ tasks' = [tasks EXCEPT ![n] = k] /\ UNCHANGED joins
              /\ \/ stage' = [stage EXCEPT ![k] = "live"] /\ peers' = [peers EXCEPT ![n] = k]
                 \/ stage' = [stage EXCEPT ![k] = "registering"] /\ UNCHANGED peers
           \/ /\ UNCHANGED <<tasks, peers>> /\ joins' = [joins EXCEPT ![k] = tasks[n]]
              /\ stage' = [stage EXCEPT ![k] = "joining"]
  BY NamedInstalls
<1>3. \A m \in Names : peers[m] # k
  BY <1>2 DEF StagesFit
<1>4. CASE tasks' = tasks
  BY <1>1, <1>2, <1>3, <1>4 DEF RegisteredIsRun
<1>5. CASE tasks' = [tasks EXCEPT ![n] = k] /\ UNCHANGED joins
  BY <1>1, <1>2, <1>3, <1>5 DEF RegisteredIsRun
<1> QED
  BY <1>2, <1>4, <1>5

LEMMA EndKeepsRun ==
    ASSUME RegInv, NEW k \in Conns, Clean(k) \/ ShutdownEnds(k) \/ UserShutdown(k)
                                      \/ ShutdownKills(k)
    PROVE  RegisteredIsRun'
<1> USE ConnsAreNamed DEF RegInv, TypeOK, IsOk, Displaced
<1>1. CASE Clean(k)
  <2>1. /\ stage[k] = "live" /\ stage' = [stage EXCEPT ![k] = "gone"] /\ open' \subseteq open
        /\ tasks' = [tasks EXCEPT ![name[k]] = IF @ = k THEN None ELSE @]
        /\ UNCHANGED <<name, joins>>
        /\ \A n \in Names : peers'[n] # None => peers'[n] = peers[n] /\ peers[n] # k
    BY <1>1, WithoutKeeps DEF Clean, Leaving
  <2> QED
    BY <2>1 DEF RegisteredIsRun
<1>2. CASE ShutdownKills(k)
  <2>1. /\ stage[k] = "live" /\ stage' = [stage EXCEPT ![k] = "killing"] /\ open' \subseteq open
        /\ tasks' = [tasks EXCEPT ![name[k]] = None]
        /\ joins' = [joins EXCEPT ![k] = tasks[name[k]]] /\ UNCHANGED <<name, peers>>
    BY <1>2 DEF ShutdownKills
  <2>2. \A n \in Names : peers[n] # None /\ IsOk(peers[n])' => peers[n] # k /\ IsOk(peers[n])
    BY <2>1
  <2> QED
    BY <2>1, <2>2 DEF RegisteredIsRun
<1>3. ASSUME Close(k), \/ stage[k] = "live"
                       \/ stage[k] = "killing" /\ stage[joins[k]] = "gone"
      PROVE  RegisteredIsRun'
  <2>1. /\ stage' = [stage EXCEPT ![k] = "gone"] /\ open' \subseteq open
        /\ UNCHANGED <<name, joins, tasks>>
        /\ \A n \in Names : peers'[n] # None => peers'[n] = peers[n] /\ peers[n] # k
    BY <1>3, WithoutKeeps DEF Close
  <2> QED
    BY <1>3, <2>1 DEF RegisteredIsRun
<1> QED
  BY <1>1, <1>2, <1>3 DEF UserShutdown, ShutdownEnds

LEMMA RunStep == ASSUME RegInv, [Next]_vars PROVE RegisteredIsRun'
<1> USE ConnsAreNamed DEF callVars, connVars, mapVars
<1>1. ASSUME NEW c \in Callers, ConnectStep(c) PROVE RegisteredIsRun'
  <2>1. CASE ConnectUnknown(c) \/ ConnectDials(c)
    <3>1. \A n \in Names : peers'[n] # None => peers'[n] = peers[n]
      BY <2>1, MissesKeeps DEF RegInv, ConnectUnknown, ConnectDials
    <3> QED
      BY <2>1, <3>1, QuietKeepsRun DEF ConnectUnknown, ConnectDials
  <2>2. CASE DialDone(c)
    <3>1. stage[c] = "none" /\ stage' = [stage EXCEPT ![c] = "greeting"]
      BY <2>2 DEF RegInv, StagesFit, DialDone
    <3>2. \A n \in Names : peers[n] # None => peers[n] # c
      BY <3>1 DEF RegInv, StagesFit
    <3> QED
      BY <2>2, <3>1, <3>2 DEF RegInv, TypeOK, RegisteredIsRun, Displaced, IsOk, DialDone
  <2>3. CASE ~(ConnectUnknown(c) \/ ConnectDials(c) \/ DialDone(c))
    BY <1>1, <2>3, QuietKeepsRun
    DEF ConnectStep, ConnectBlocks, ConnectFinds, Wake, DialFails
  <2> QED
    BY <2>1, <2>2, <2>3
<1>2. ASSUME NEW i \in Inbound, Accept(i) \/ HandleRequest(i) PROVE RegisteredIsRun'
  <2>1. \A n \in Names : peers[n] # None => peers[n] # i
    BY <1>2 DEF RegInv, StagesFit, Accept, HandleRequest
  <2> QED
    BY <1>2, <2>1 DEF RegInv, TypeOK, RegisteredIsRun, Displaced, IsOk, Accept, HandleRequest
<1>3. ASSUME NEW k \in Conns, GreetingFails(k) \/ GreetingRefused(k) PROVE RegisteredIsRun'
  BY <1>3, QuietKeepsRun DEF RegInv, TypeOK, GreetingFails, GreetingRefused
<1>4. ASSUME NEW k \in Conns, ConnectionLost(k) PROVE RegisteredIsRun'
  BY <1>4, QuietKeepsRun DEF ConnectionLost
<1>5. CASE RpcShutdown
  BY <1>5, EndKeepsRun DEF RpcShutdown, RegInv, TypeOK, Registered
<1>6. CASE UNCHANGED vars
  BY <1>6 DEF RegInv, RegisteredIsRun, Displaced, IsOk, vars
<1> QED
  BY <1>1, <1>2, <1>3, <1>4, <1>5, <1>6, InstallKeepsRun, EndKeepsRun DEF Next, ConnStep

\* A peer whose task was killed for another connection still has one that waits for it.
LEMMA KilledForAnother ==
    ASSUME RegInv, NEW k \in Conns, stage[k] = "live", Killed(k)
    PROVE  EndedForAnother(k)
<1>1. PICK j \in Conns \ {k} : joins[j] = k
  BY DEF Killed
<1>2. joins[j] # None
  BY <1>1, ConnsAreNamed
<1> QED
  BY <1>1, <1>2 DEF RegInv, JoinsFit, EndedForAnother

\* A registered peer that works stays, unless another one of its name takes its place or
\* ends its task.
LEMMA LeaveStep ==
    ASSUME RegInv, [Next]_vars, NEW n \in Names, peers[n] # None, IsOk(peers[n]),
           peers'[n] # peers[n]
    PROVE  \/ peers'[n] # None /\ stage'[peers'[n]] = "live"
           \/ EndedForAnother(peers[n])
<1> USE ConnsAreNamed DEF callVars, connVars, mapVars
<1>0. TypeOK /\ peers[n] \in Conns /\ stage[peers[n]] = "live" /\ peers[n] \in open
      /\ name[peers[n]] = n
  BY DEF RegInv, TypeOK, IsOk
<1>1. ASSUME NEW c \in Callers, ConnectStep(c) PROVE FALSE
  <2>1. CASE ConnectUnknown(c) \/ ConnectDials(c)
    BY <1>0, <2>1, MissesKeeps DEF ConnectUnknown, ConnectDials
  <2>2. CASE ~(ConnectUnknown(c) \/ ConnectDials(c))
    BY <1>1, <2>2 DEF ConnectStep, ConnectBlocks, ConnectFinds, Wake, DialFails, DialDone
  <2> QED
    BY <2>1, <2>2
<1>2. ASSUME NEW i \in Inbound, Accept(i) \/ HandleRequest(i) PROVE FALSE
  BY <1>2 DEF Accept, HandleRequest
<1>3. ASSUME NEW k \in Conns, Greeted(k) \/ Joined(k)
      PROVE  peers'[n] # None /\ stage'[peers'[n]] = "live"
  <2>1. PICK m \in Names : /\ peers' = [peers EXCEPT ![m] = k]
                           /\ stage' = [stage EXCEPT ![k] = "live"]
    BY <1>3, NamedInstalls
  <2> QED
    BY <1>0, <2>1 DEF TypeOK
<1>4. ASSUME NEW k \in Conns, Clean(k) PROVE EndedForAnother(peers[n])
  <2>1. peers[n] = k
    BY <1>0, <1>4, WithoutKeeps DEF Clean
  <2> QED
    BY <1>0, <1>4, <2>1, KilledForAnother DEF Clean, Leaving
<1>5. ASSUME NEW k \in Conns, Close(k), holder = None,
             stage[k] = "killing" \/ tasks[name[k]] = None
      PROVE  EndedForAnother(peers[n])
  <2>1. peers[n] = k
    BY <1>0, <1>5, WithoutKeeps DEF Close
  <2>2. tasks[n] = None
    BY <1>0, <1>5, <2>1
  <2>3. Displaced(k)
    BY <1>0, <2>1, <2>2 DEF RegInv, RegisteredIsRun
  <2> QED
    BY <1>5, <2>1, <2>3 DEF RegInv, RegisteringWaits, Displaced, EndedForAnother
<1>6. ASSUME NEW k \in Conns, UserShutdown(k) \/ ShutdownEnds(k) PROVE EndedForAnother(peers[n])
  BY <1>5, <1>6 DEF UserShutdown, ShutdownKills, ShutdownEnds
<1>7. ASSUME NEW k \in Conns, GreetingFails(k) \/ GreetingRefused(k) \/ ConnectionLost(k)
      PROVE  FALSE
  BY <1>7 DEF GreetingFails, GreetingRefused, ConnectionLost
<1>8. ~RpcShutdown /\ ~UNCHANGED vars
  BY DEF RpcShutdown, ShutdownKills, vars
<1> QED
  BY <1>1, <1>2, <1>3, <1>4, <1>6, <1>7, <1>8 DEF Next, ConnStep

-----------------------------------------------------------------------------
(* The theorems *)

LEMMA RegInvHolds == Spec => []RegInv
<1>1. Init => RegInv
  BY ConnsAreNamed, RegistryAssumption
  DEF Init, RegInv, TypeOK, StagesFit, Named, TasksFit, JoinsFit, RegisteringWaits, DialsAreAnnounced,
      RegisteredIsRun, CallActive, Conns, Addresses
<1>2. RegInv /\ [Next]_vars => RegInv'
  BY TypeStep, DialsStep, TasksStep, RunStep DEF RegInv
<1> QED
  BY <1>1, <1>2, PTL DEF Spec

\* Every variable keeps its type; in particular a peer is registered under the name that
\* its own program gave.
THEOREM TypeCorrect == Spec => []TypeOK
<1>1. RegInv => TypeOK
  BY DEF RegInv
<1> QED
  BY <1>1, RegInvHolds, PTL

\* Nobody dials an address twice at a time, and a dial is known to those who come after it,
\* whatever became of other dials to the same address (rpc.py 296-303, 321-323).
THEOREM DialsAreShared == Spec => []DialsAreAnnounced
<1>1. RegInv => DialsAreAnnounced
  BY DEF RegInv
<1> QED
  BY <1>1, RegInvHolds, PTL

\* The registered peer that works is the one whose task the scheduler has under its name,
\* however many connections of one name are made and replaced at once.  Its task can be out
\* of the dictionary only while shutdown() of a replaced connection of its name waits for the
\* end of that task, or once a kept lock holds up the registration of another one
\* (scheduler/base.py 166-187, 212-230, rpc.py 448-449).
THEOREM SchedulerAgrees == Spec => []RegisteredIsRun
<1>1. RegInv => RegisteredIsRun
  BY DEF RegInv
<1> QED
  BY <1>1, RegInvHolds, PTL

\* A peer that works leaves the dictionary only for another one of its name: for one that
\* takes its place, or because prepare_peer() or shutdown() of one has killed its task and
\* waits for it (rpc.py 278, 289, 449, 454-459, scheduler/base.py 166-187, 212-230).
THEOREM RemovalIsExact == Spec => OnlyBrokenLeave
<1>1. RegInv /\ [Next]_vars =>
        [\A n \in Names :
           peers[n] # None /\ IsOk(peers[n]) /\ peers'[n] # peers[n] =>
               \/ peers'[n] # None /\ stage'[peers'[n]] = "live"
               \/ EndedForAnother(peers[n])]_vars
  BY LeaveStep
<1> QED
  BY <1>1, RegInvHolds, PTL DEF Spec, OnlyBrokenLeave
=============================================================================
