---------------------------- MODULE SwitchProofs ----------------------------
(***************************************************************************)
(* Proofs about Switch for any finite set of connections, any keys and     *)
(* hosts, any MaxNumPeers and any number of listeners.                     *)
(***************************************************************************)
EXTENDS Switch, TLAPS, FiniteSetTheorems

\* A leaf is tried with SMT and Zenon, and then again with more time.
USE SMT, Zenon, SMTT(40), ZenonT(40), Z3T(40)

USE DEF Kinds, Reactors

\* What every action but the named one says, without the disjunctions of Next.
LEMMA NextCases ==
  ASSUME [Next]_vars
  PROVE  \/ \E c \in Conns :
              \/ ListenerAccept(c) \/ ListenerDrain(c) \/ ListenerTake(c)
              \/ Dial(c) \/ Dialled(c) \/ Handshake(c) \/ CheckBan(c)
              \/ CheckDuplicate(c) \/ StartPeer(c) \/ PexAddPeer(c)
              \/ ProtocolRequest(c) \/ ProtocolAddPeer(c) \/ ProtocolNotify(c)
              \/ AddToPeers(c)
              \/ ConnectionError(c) \/ ReadClosed(c) \/ StopPeerGracefully(c)
              \/ SweepStop(c) \/ SweepRemove(c)
         \/ \E c \in Conns, k \in Kinds :
              StopUnregister(c, k) \/ StopRemove(c, k) \/ StopStop(c, k)
         \/ StopSwitch \/ StopListeners \/ SwitchStopped
         \/ \E h \in Bannable : ToggleBan(h)
         \/ UNCHANGED vars
  BY DEF Next, AddPeerStep, StopStep, OnStopStep

LEMMA TypeInit == Init => TypeOK
  BY DEF Init, Table!Init, TypeOK, PcLabels, InProgress, Phases

\* The helpers that move an AddPeer goroutine keep the types of what they touch.
LEMMA GotoType ==
  ASSUME TypeOK, NEW c \in Conns, NEW l \in PcLabels, Goto(c, l)
  PROVE  /\ pc' \in [Conns -> PcLabels]
         /\ closed' \in [Conns -> BOOLEAN]
         /\ dialing' \subseteq Hosts
  BY DEF TypeOK, Goto

LEMMA FailType ==
  ASSUME TypeOK, NEW c \in Conns, Fail(c)
  PROVE  /\ pc' \in [Conns -> PcLabels]
         /\ closed' \in [Conns -> BOOLEAN]
         /\ dialing' \subseteq Hosts
  BY DEF TypeOK, Fail, PcLabels

LEMMA TypeStep == TypeOK /\ [Next]_vars => TypeOK'
<1> SUFFICES ASSUME TypeOK, [Next]_vars PROVE TypeOK' OBVIOUS
<1> DEFINE Rest == /\ todo' \in [Conns -> SUBSET Reactors]
                   /\ svc' \in [Conns -> {"new", "running", "stopped"}]
                   /\ mconn' \in [Conns -> {"new", "running", "stopped"}]
                   /\ stops' \in [Conns -> [Kinds -> Phases]]
                   /\ late' \in [Conns -> BOOLEAN]
                   /\ sw' \in {"running", "stopListeners", "sweep", "stopped"}
                   /\ peers' \subseteq Conns
                   /\ netPeers' \subseteq {KeyOf[c] : c \in Conns}
                   /\ banned' \subseteq Hosts
           Moved == /\ pc' \in [Conns -> PcLabels]
                    /\ closed' \in [Conns -> BOOLEAN]
                    /\ dialing' \subseteq Hosts
<1>0. Rest /\ Moved => TypeOK' BY DEF TypeOK
<1>L. /\ InProgress \subseteq PcLabels
      /\ {"backlog", "dropped", "dialing", "failed", "added"} \subseteq PcLabels
      /\ {"handshake", "banCheck", "dupCheck", "start", "reactors", "status",
          "notify", "selfStop", "add"} \subseteq PcLabels
  BY DEF PcLabels, InProgress
<1>1. ASSUME NEW c \in Conns, ListenerAccept(c) \/ ListenerDrain(c) PROVE TypeOK'
  BY <1>0, <1>1, <1>L, GotoType DEF TypeOK, ListenerAccept, ListenerDrain, peerVars
<1>2. ASSUME NEW c \in Conns, ListenerTake(c) \/ Dialled(c) \/ Handshake(c)
      PROVE  TypeOK'
  BY <1>0, <1>2, <1>L, GotoType, FailType
     DEF TypeOK, ListenerTake, Dialled, Handshake, CompatibleWith, peerVars
<1>3. ASSUME NEW c \in Conns, Dial(c) PROVE TypeOK'
  <2>1. Moved
    <3>1. HostOf[c] \in Hosts BY DEF Hosts
    <3> QED BY <1>3, <1>L, <3>1, FailType DEF TypeOK, Dial
  <2> QED BY <1>0, <1>3, <2>1 DEF TypeOK, Dial, peerVars
<1>4. ASSUME NEW c \in Conns, CheckBan(c) \/ CheckDuplicate(c) PROVE TypeOK'
  BY <1>0, <1>4, <1>L, GotoType, FailType
     DEF TypeOK, CheckBan, CheckDuplicate, peerVars
<1>5. ASSUME NEW c \in Conns, StartPeer(c) PROVE TypeOK'
  <2>1. Moved BY <1>5, <1>L, GotoType DEF StartPeer
  <2> QED BY <1>0, <1>5, <2>1 DEF TypeOK, StartPeer
<1>6. ASSUME NEW c \in Conns, PexAddPeer(c) PROVE TypeOK'
  <2>1. Moved
    BY <1>6, <1>L, GotoType, FailType DEF PexAddPeer, ReactorDone
  <2>2. stops' \in [Conns -> [Kinds -> Phases]]
    <3>1. CASE UNCHANGED stops BY <3>1 DEF TypeOK
    <3>2. CASE stops' = [stops EXCEPT ![c]["addPeer"] = "unregister"]
      BY <3>2 DEF TypeOK, Phases
    <3> QED BY <1>6, <3>1, <3>2 DEF PexAddPeer
  <2>3. todo' \in [Conns -> SUBSET Reactors]
    BY <1>6 DEF PexAddPeer, ReactorDone, TypeOK
  <2> QED BY <1>0, <1>6, <2>1, <2>2, <2>3 DEF TypeOK, PexAddPeer
<1>7. ASSUME NEW c \in Conns, ProtocolRequest(c) PROVE TypeOK'
  BY <1>0, <1>7, <1>L, GotoType, FailType DEF TypeOK, ProtocolRequest, TrySend, peerVars
<1>8. ASSUME NEW c \in Conns, ProtocolAddPeer(c) PROVE TypeOK'
  <2>1. Moved
    BY <1>8, <1>L, GotoType, FailType DEF ProtocolAddPeer
  <2>2. todo' \in [Conns -> SUBSET Reactors]
    BY <1>8 DEF ProtocolAddPeer, TypeOK
  <2> QED BY <1>0, <1>8, <2>1, <2>2 DEF TypeOK, ProtocolAddPeer
<1>9. ASSUME NEW c \in Conns, AddToPeers(c) PROVE TypeOK'
  <2>1. Moved BY <1>9, <1>L, FailType DEF AddToPeers, TypeOK
  <2>2. late' \in [Conns -> BOOLEAN]
    <3>1. (\E k \in Kinds : stops[c][k] # "idle") \in BOOLEAN OBVIOUS
    <3> QED BY <1>9, <3>1, Zenon DEF AddToPeers, TypeOK
  <2>3. peers' \subseteq Conns BY <1>9 DEF AddToPeers, TypeOK, Table!Add
  <2> QED BY <1>0, <1>9, <2>1, <2>2, <2>3 DEF TypeOK, AddToPeers
<1>10. ASSUME NEW c \in Conns, ConnectionError(c) \/ ReadClosed(c) PROVE TypeOK'
  <2>1. StopForError(c) BY <1>10 DEF ConnectionError, ReadClosed
  <2> QED BY <2>1 DEF TypeOK, StopForError, Phases
<1>11. ASSUME NEW c \in Conns, StopPeerGracefully(c) PROVE TypeOK'
  BY <1>11 DEF TypeOK, StopPeerGracefully, peerVars, Phases
<1>12. ASSUME NEW c \in Conns, SweepStop(c) PROVE TypeOK'
  BY <1>12 DEF TypeOK, SweepStop, PeerStop, Phases
<1>13. ASSUME NEW c \in Conns, SweepRemove(c) PROVE TypeOK'
  BY <1>13 DEF TypeOK, SweepRemove, Table!Remove, peerVars, Phases
<1>14. ASSUME NEW c \in Conns, NEW k \in Kinds, StopUnregister(c, k) PROVE TypeOK'
  BY <1>14 DEF TypeOK, StopUnregister, peerVars, Phases
<1>15. ASSUME NEW c \in Conns, NEW k \in Kinds, StopRemove(c, k) PROVE TypeOK'
  BY <1>15 DEF TypeOK, StopRemove, Table!Remove, peerVars, Phases
<1>16. ASSUME NEW c \in Conns, NEW k \in Kinds, StopStop(c, k) PROVE TypeOK'
  <2>1. Moved BY <1>16, <1>L DEF StopStop, PeerStop, TypeOK
  <2>2. stops' \in [Conns -> [Kinds -> Phases]]
    BY <1>16 DEF StopStop, TypeOK, Phases
  <2> QED BY <1>0, <1>16, <2>1, <2>2 DEF TypeOK, StopStop, PeerStop
<1>17. ASSUME StopSwitch \/ SwitchStopped PROVE TypeOK'
  BY <1>17 DEF TypeOK, StopSwitch, SwitchStopped, peerVars
<1>18. ASSUME StopListeners PROVE TypeOK'
  <2>1. \A c \in Conns : stops'[c] \in [Kinds -> Phases]
    BY <1>18 DEF StopListeners, TypeOK, Phases
  <2>2. stops' \in [Conns -> [Kinds -> Phases]]
    BY <1>18, <2>1 DEF StopListeners
  <2> QED BY <1>18, <2>2 DEF TypeOK, StopListeners, peerVars
<1>19. ASSUME NEW h \in Bannable, ToggleBan(h) PROVE TypeOK'
  BY <1>19, SwitchAssumption DEF TypeOK, ToggleBan, peerVars, Hosts
<1>20. CASE UNCHANGED vars
  BY <1>20 DEF TypeOK, vars
<1>21. ASSUME NEW c \in Conns, ProtocolNotify(c) PROVE TypeOK'
  BY <1>0, <1>21, <1>L, GotoType DEF TypeOK, ProtocolNotify, peerVars
<1> QED BY <1>1, <1>2, <1>3, <1>4, <1>5, <1>6, <1>7, <1>8, <1>9, <1>10, <1>11,
           <1>12, <1>13, <1>14, <1>15, <1>16, <1>17, <1>18, <1>19, <1>20,
           <1>21, NextCases

-----------------------------------------------------------------------------
(* Peers that die, and peers that are known.                               *)

Early == {"idle", "backlog", "dialing", "handshake", "banCheck", "dupCheck",
          "start"}

\* Nothing is running and nothing is being stopped before startInitPeer; a
\* listed peer has been through AddPeer; a stopped MConnection has a stop; and
\* AddPeer waits for the stop it makes itself.
StartInv ==
    /\ \A c \in Conns : pc[c] \in Early =>
         mconn[c] = "new" /\ svc[c] = "new" /\ NoStopBegun(c)
    /\ \A c \in peers : pc[c] = "added"
    /\ \A c \in Conns : mconn[c] = "stopped" => ~NoStopBegun(c)
    /\ \A c \in Conns : stops[c]["addPeer"] \notin {"idle", "done"} =>
         pc[c] = "selfStop"

\* No stop of a listed peer has passed its Remove, unless it began too early.
RemoveInv ==
    \A c \in peers : ~late[c] => \A k \in Kinds : stops[c][k] \notin {"stop", "done"}

\* A peer that the switch started goes through both reactors before it is
\* listed; registration and listing of a key are undone by stops of its peer.
KnownInv ==
    /\ \A c \in Conns : (pc[c] \in {"add", "added"} /\ svc[c] = "running") =>
         "PROTOCOL" \notin todo[c]
    /\ \A c \in Conns : (UniqueKey(c) /\ NoStopBegun(c)) =>
         /\ "PROTOCOL" \notin todo[c] => KeyOf[c] \in netPeers
         /\ pc[c] = "added" => c \in peers

LEMMA StartInit == Init => StartInv /\ RemoveInv /\ KnownInv
  BY DEF Init, Table!Init, StartInv, RemoveInv, KnownInv, NoStopBegun, Early

LEMMA StartStep == TypeOK /\ StartInv /\ [Next]_vars => StartInv'
<1> SUFFICES ASSUME TypeOK, StartInv, [Next]_vars PROVE StartInv' OBVIOUS
<1>1. ASSUME NEW c \in Conns, ListenerAccept(c) \/ ListenerDrain(c) PROVE StartInv'
  BY <1>1 DEF ListenerAccept, ListenerDrain, Goto, TypeOK, StartInv, NoStopBegun, Early, peerVars
<1>2. ASSUME NEW c \in Conns, ListenerTake(c) PROVE StartInv'
  BY <1>2 DEF ListenerTake, Goto, Fail, TypeOK, StartInv, NoStopBegun, Early, peerVars
<1>3. ASSUME NEW c \in Conns, Dial(c) PROVE StartInv'
  BY <1>3 DEF Dial, Fail, TypeOK, StartInv, NoStopBegun, Early, peerVars
<1>4. ASSUME NEW c \in Conns, Dialled(c) \/ Handshake(c) PROVE StartInv'
  BY <1>4 DEF Dialled, Handshake, CompatibleWith, Goto, Fail, TypeOK, StartInv, NoStopBegun, Early, peerVars
<1>5. ASSUME NEW c \in Conns, CheckBan(c) \/ CheckDuplicate(c) PROVE StartInv'
  BY <1>5 DEF CheckBan, CheckDuplicate, Goto, Fail, TypeOK, StartInv, NoStopBegun, Early, peerVars
<1>6. ASSUME NEW c \in Conns, StartPeer(c) PROVE StartInv'
  BY <1>6 DEF StartPeer, Goto, TypeOK, StartInv, NoStopBegun, Early, peerVars
<1>7. ASSUME NEW c \in Conns, PexAddPeer(c) PROVE StartInv'
  <2>1. /\ pc[c] = "reactors" /\ c \notin peers
        /\ UNCHANGED <<mconn, svc, peers>>
    BY <1>7 DEF PexAddPeer, StartInv
  <2>2. CASE ReactorDone(c, "PEX") /\ UNCHANGED stops
    BY <2>1, <2>2 DEF ReactorDone, Goto, TypeOK, StartInv, NoStopBegun, Early
  <2>3. CASE /\ Goto(c, "selfStop")
             /\ stops' = [stops EXCEPT ![c]["addPeer"] = "unregister"]
    BY <2>1, <2>3 DEF Goto, TypeOK, StartInv, NoStopBegun, Early
  <2>4. CASE Fail(c) /\ UNCHANGED stops
    BY <2>1, <2>4 DEF Fail, TypeOK, StartInv, NoStopBegun, Early
  <2> QED BY <1>7, <2>2, <2>3, <2>4 DEF PexAddPeer
<1>8. ASSUME NEW c \in Conns, ProtocolRequest(c) PROVE StartInv'
  BY <1>8 DEF ProtocolRequest, TrySend, Goto, Fail, TypeOK, StartInv, NoStopBegun, Early, peerVars
<1>9. ASSUME NEW c \in Conns, ProtocolAddPeer(c) PROVE StartInv'
  BY <1>9 DEF ProtocolAddPeer, Goto, Fail, TypeOK, StartInv, NoStopBegun, Early, peerVars
<1>10. ASSUME NEW c \in Conns, AddToPeers(c) PROVE StartInv'
  BY <1>10 DEF AddToPeers, Fail, Table!Add, TypeOK, StartInv, NoStopBegun, Early, peerVars
<1>11. ASSUME NEW c \in Conns, StopForError(c) /\ mconn[c] # "new" PROVE StartInv'
  BY <1>11 DEF StopForError, TypeOK, StartInv, NoStopBegun, Early, peerVars
<1>12. ASSUME NEW c \in Conns, StopPeerGracefully(c) PROVE StartInv'
  BY <1>12 DEF StopPeerGracefully, TypeOK, StartInv, NoStopBegun, Early, peerVars
<1>13. ASSUME NEW c \in Conns, SweepStop(c) PROVE StartInv'
  BY <1>13 DEF SweepStop, PeerStop, TypeOK, StartInv, NoStopBegun, Early, peerVars
<1>14. ASSUME NEW c \in Conns, SweepRemove(c) PROVE StartInv'
  BY <1>14 DEF SweepRemove, Table!Remove, TypeOK, StartInv, NoStopBegun, Early, peerVars
<1>15. ASSUME NEW c \in Conns, NEW k \in Kinds, StopUnregister(c, k) PROVE StartInv'
  BY <1>15 DEF StopUnregister, TypeOK, StartInv, NoStopBegun, Early, peerVars
<1>16. ASSUME NEW c \in Conns, NEW k \in Kinds, StopRemove(c, k) PROVE StartInv'
  BY <1>16 DEF StopRemove, Table!Remove, TypeOK, StartInv, NoStopBegun, Early, peerVars
<1>17. ASSUME NEW c \in Conns, NEW k \in Kinds, StopStop(c, k) PROVE StartInv'
  BY <1>17 DEF StopStop, PeerStop, TypeOK, StartInv, NoStopBegun, Early, peerVars
<1>18. ASSUME StopSwitch \/ SwitchStopped PROVE StartInv'
  BY <1>18 DEF StopSwitch, SwitchStopped, TypeOK, StartInv, NoStopBegun, Early, peerVars
<1>19. ASSUME StopListeners PROVE StartInv'
  BY <1>19 DEF StopListeners, TypeOK, StartInv, NoStopBegun, Early, peerVars
<1>20. ASSUME NEW h \in Bannable, ToggleBan(h) PROVE StartInv'
  BY <1>20 DEF ToggleBan, TypeOK, StartInv, NoStopBegun, Early, peerVars
<1>21. CASE UNCHANGED vars
  BY <1>21 DEF vars, TypeOK, StartInv, NoStopBegun, Early, peerVars
<1>22. ASSUME NEW c \in Conns, ProtocolNotify(c) PROVE StartInv'
  <2>1. /\ pc[c] = "notify" /\ UNCHANGED <<sw, stops, peers, netPeers, peerVars>>
        /\ pc' = [pc EXCEPT ![c] = IF todo[c] = {} THEN "add" ELSE "reactors"]
    BY <1>22 DEF ProtocolNotify, Goto
  <2>2. \A d \in Conns : pc'[d] = pc[d] \/ (pc[d] = "notify" /\ pc'[d] \in {"add", "reactors"})
    BY <2>1 DEF TypeOK
  <2> QED BY <2>1, <2>2 DEF TypeOK, StartInv, NoStopBegun, Early, peerVars
<1> QED BY <1>1, <1>2, <1>3, <1>4, <1>5, <1>6, <1>7, <1>8, <1>9, <1>10,
           <1>11, <1>12, <1>13, <1>14, <1>15, <1>16, <1>17, <1>18, <1>19, <1>20, <1>21, <1>22, NextCases
           DEF ConnectionError, ReadClosed

LEMMA RemoveStep == TypeOK /\ StartInv /\ RemoveInv /\ [Next]_vars => RemoveInv'
<1> SUFFICES ASSUME TypeOK, StartInv, RemoveInv, [Next]_vars PROVE RemoveInv' OBVIOUS
<1>1. ASSUME NEW c \in Conns, ListenerAccept(c) \/ ListenerDrain(c) PROVE RemoveInv'
  BY <1>1 DEF ListenerAccept, ListenerDrain, Goto, TypeOK, StartInv, RemoveInv, peerVars
<1>2. ASSUME NEW c \in Conns, ListenerTake(c) PROVE RemoveInv'
  BY <1>2 DEF ListenerTake, Goto, Fail, TypeOK, StartInv, RemoveInv, peerVars
<1>3. ASSUME NEW c \in Conns, Dial(c) PROVE RemoveInv'
  BY <1>3 DEF Dial, Fail, TypeOK, StartInv, RemoveInv, peerVars
<1>4. ASSUME NEW c \in Conns, Dialled(c) \/ Handshake(c) PROVE RemoveInv'
  BY <1>4 DEF Dialled, Handshake, CompatibleWith, Goto, Fail, TypeOK, StartInv, RemoveInv, peerVars
<1>5. ASSUME NEW c \in Conns, CheckBan(c) \/ CheckDuplicate(c) PROVE RemoveInv'
  BY <1>5 DEF CheckBan, CheckDuplicate, Goto, Fail, TypeOK, StartInv, RemoveInv, peerVars
<1>6. ASSUME NEW c \in Conns, StartPeer(c) PROVE RemoveInv'
  BY <1>6 DEF StartPeer, Goto, TypeOK, StartInv, RemoveInv, peerVars
<1>7. ASSUME NEW c \in Conns, PexAddPeer(c) PROVE RemoveInv'
  BY <1>7 DEF PexAddPeer, ReactorDone, Goto, Fail, TypeOK, StartInv, RemoveInv, peerVars
<1>8. ASSUME NEW c \in Conns, ProtocolRequest(c) PROVE RemoveInv'
  BY <1>8 DEF ProtocolRequest, TrySend, Goto, Fail, TypeOK, StartInv, RemoveInv, peerVars
<1>9. ASSUME NEW c \in Conns, ProtocolAddPeer(c) PROVE RemoveInv'
  BY <1>9 DEF ProtocolAddPeer, Goto, Fail, TypeOK, StartInv, RemoveInv, peerVars
<1>10. ASSUME NEW c \in Conns, AddToPeers(c) PROVE RemoveInv'
  BY <1>10 DEF AddToPeers, Fail, Table!Add, TypeOK, StartInv, RemoveInv, peerVars
<1>11. ASSUME NEW c \in Conns, StopForError(c) /\ mconn[c] # "new" PROVE RemoveInv'
  BY <1>11 DEF StopForError, TypeOK, StartInv, RemoveInv, peerVars
<1>12. ASSUME NEW c \in Conns, StopPeerGracefully(c) PROVE RemoveInv'
  BY <1>12 DEF StopPeerGracefully, TypeOK, StartInv, RemoveInv, peerVars
<1>13. ASSUME NEW c \in Conns, SweepStop(c) PROVE RemoveInv'
  BY <1>13 DEF SweepStop, PeerStop, TypeOK, StartInv, RemoveInv, peerVars
<1>14. ASSUME NEW c \in Conns, SweepRemove(c) PROVE RemoveInv'
  BY <1>14 DEF SweepRemove, Table!Remove, TypeOK, StartInv, RemoveInv, peerVars
<1>15. ASSUME NEW c \in Conns, NEW k \in Kinds, StopUnregister(c, k) PROVE RemoveInv'
  BY <1>15 DEF StopUnregister, TypeOK, StartInv, RemoveInv, peerVars
<1>16. ASSUME NEW c \in Conns, NEW k \in Kinds, StopRemove(c, k) PROVE RemoveInv'
  BY <1>16 DEF StopRemove, Table!Remove, TypeOK, StartInv, RemoveInv, peerVars
<1>17. ASSUME NEW c \in Conns, NEW k \in Kinds, StopStop(c, k) PROVE RemoveInv'
  BY <1>17 DEF StopStop, PeerStop, TypeOK, StartInv, RemoveInv, peerVars
<1>18. ASSUME StopSwitch \/ SwitchStopped PROVE RemoveInv'
  BY <1>18 DEF StopSwitch, SwitchStopped, TypeOK, StartInv, RemoveInv, peerVars
<1>19. ASSUME StopListeners PROVE RemoveInv'
  BY <1>19 DEF StopListeners, TypeOK, StartInv, RemoveInv, peerVars
<1>20. ASSUME NEW h \in Bannable, ToggleBan(h) PROVE RemoveInv'
  BY <1>20 DEF ToggleBan, TypeOK, StartInv, RemoveInv, peerVars
<1>21. CASE UNCHANGED vars
  BY <1>21 DEF vars, TypeOK, StartInv, RemoveInv, peerVars
<1>22. ASSUME NEW c \in Conns, ProtocolNotify(c) PROVE RemoveInv'
  BY <1>22 DEF ProtocolNotify, Goto, TypeOK, StartInv, RemoveInv, peerVars
<1> QED BY <1>1, <1>2, <1>3, <1>4, <1>5, <1>6, <1>7, <1>8, <1>9, <1>10,
           <1>11, <1>12, <1>13, <1>14, <1>15, <1>16, <1>17, <1>18, <1>19, <1>20, <1>21, <1>22, NextCases
           DEF ConnectionError, ReadClosed

LEMMA KnownStep == TypeOK /\ StartInv /\ KnownInv /\ [Next]_vars => KnownInv'
<1> SUFFICES ASSUME TypeOK, StartInv, KnownInv, [Next]_vars PROVE KnownInv' OBVIOUS
<1>1. ASSUME NEW c \in Conns, ListenerAccept(c) \/ ListenerDrain(c) PROVE KnownInv'
  BY <1>1 DEF ListenerAccept, ListenerDrain, Goto, TypeOK, StartInv, KnownInv, NoStopBegun, Early, peerVars, UniqueKey
<1>2. ASSUME NEW c \in Conns, ListenerTake(c) PROVE KnownInv'
  BY <1>2 DEF ListenerTake, Goto, Fail, TypeOK, StartInv, KnownInv, NoStopBegun, Early, peerVars, UniqueKey
<1>3. ASSUME NEW c \in Conns, Dial(c) PROVE KnownInv'
  BY <1>3 DEF Dial, Fail, TypeOK, StartInv, KnownInv, NoStopBegun, Early, peerVars, UniqueKey
<1>4. ASSUME NEW c \in Conns, Dialled(c) \/ Handshake(c) PROVE KnownInv'
  BY <1>4 DEF Dialled, Handshake, CompatibleWith, Goto, Fail, TypeOK, StartInv, KnownInv, NoStopBegun, Early, peerVars, UniqueKey
<1>5. ASSUME NEW c \in Conns, CheckBan(c) \/ CheckDuplicate(c) PROVE KnownInv'
  BY <1>5 DEF CheckBan, CheckDuplicate, Goto, Fail, TypeOK, StartInv, KnownInv, NoStopBegun, Early, peerVars, UniqueKey
<1>6. ASSUME NEW c \in Conns, StartPeer(c) PROVE KnownInv'
  <2>1. /\ svc[c] = "new"
        /\ UNCHANGED <<stops, peers, netPeers, todo>>
        /\ \A d \in Conns : d # c => pc'[d] = pc[d] /\ svc'[d] = svc[d]
        /\ \/ pc'[c] = "reactors"
           \/ pc'[c] = "add" /\ svc'[c] = "new"
    BY <1>6 DEF StartPeer, Goto, TypeOK, StartInv, Early
  <2> QED BY <2>1 DEF KnownInv, NoStopBegun
<1>7. ASSUME NEW c \in Conns, PexAddPeer(c) PROVE KnownInv'
  <2>1. /\ pc[c] = "reactors"
        /\ UNCHANGED <<svc, peers, netPeers>>
        /\ \A d \in Conns : d # c => pc'[d] = pc[d] /\ todo'[d] = todo[d]
        /\ \A d \in Conns : NoStopBegun(d)' => NoStopBegun(d)
        /\ "PROTOCOL" \in todo'[c] <=> "PROTOCOL" \in todo[c]
        /\ pc'[c] # "added"
        /\ pc'[c] = "add" => "PROTOCOL" \notin todo'[c]
    <3>1. CASE ReactorDone(c, "PEX") /\ UNCHANGED stops
      BY <1>7, <3>1 DEF PexAddPeer, ReactorDone, Goto, TypeOK, NoStopBegun
    <3>2. CASE /\ Goto(c, "selfStop") /\ UNCHANGED todo
               /\ stops' = [stops EXCEPT ![c]["addPeer"] = "unregister"]
      BY <1>7, <3>2 DEF PexAddPeer, Goto, TypeOK, NoStopBegun
    <3>3. CASE Fail(c) /\ UNCHANGED <<stops, todo>>
      BY <1>7, <3>3 DEF PexAddPeer, Fail, TypeOK, NoStopBegun
    <3> QED BY <1>7, <3>1, <3>2, <3>3 DEF PexAddPeer
  <2> QED BY <2>1 DEF KnownInv
<1>8. ASSUME NEW c \in Conns, ProtocolRequest(c) PROVE KnownInv'
  BY <1>8 DEF ProtocolRequest, TrySend, Goto, Fail, TypeOK, StartInv, KnownInv, NoStopBegun, Early, peerVars, UniqueKey
<1>9. ASSUME NEW c \in Conns, ProtocolAddPeer(c) PROVE KnownInv'
  <2>1. CASE /\ Goto(c, "notify") /\ netPeers' = netPeers \cup {KeyOf[c]}
             /\ todo' = [todo EXCEPT ![c] = @ \ {"PROTOCOL"}]
    BY <1>9, <2>1 DEF ProtocolAddPeer, Goto, TypeOK, KnownInv, NoStopBegun
  <2>2. CASE Fail(c) /\ UNCHANGED <<netPeers, todo>>
    BY <1>9, <2>2 DEF ProtocolAddPeer, Fail, TypeOK, KnownInv, NoStopBegun
  <2> QED BY <1>9, <2>1, <2>2 DEF ProtocolAddPeer
<1>10. ASSUME NEW c \in Conns, AddToPeers(c) PROVE KnownInv'
  BY <1>10 DEF AddToPeers, Fail, Table!Add, TypeOK, StartInv, KnownInv, NoStopBegun, Early, peerVars, UniqueKey
<1>11. ASSUME NEW c \in Conns, StopForError(c) /\ mconn[c] # "new" PROVE KnownInv'
  BY <1>11 DEF StopForError, TypeOK, StartInv, KnownInv, NoStopBegun, Early, peerVars, UniqueKey
<1>12. ASSUME NEW c \in Conns, StopPeerGracefully(c) PROVE KnownInv'
  BY <1>12 DEF StopPeerGracefully, TypeOK, StartInv, KnownInv, NoStopBegun, Early, peerVars, UniqueKey
<1>13. ASSUME NEW c \in Conns, SweepStop(c) PROVE KnownInv'
  BY <1>13 DEF SweepStop, PeerStop, TypeOK, StartInv, KnownInv, NoStopBegun, Early, peerVars, UniqueKey
<1>14. ASSUME NEW c \in Conns, SweepRemove(c) PROVE KnownInv'
  BY <1>14 DEF SweepRemove, Table!Remove, TypeOK, StartInv, KnownInv, NoStopBegun, Early, peerVars, UniqueKey
<1>15. ASSUME NEW c \in Conns, NEW k \in Kinds, StopUnregister(c, k) PROVE KnownInv'
  BY <1>15 DEF StopUnregister, TypeOK, StartInv, KnownInv, NoStopBegun, Early, peerVars, UniqueKey
<1>16. ASSUME NEW c \in Conns, NEW k \in Kinds, StopRemove(c, k) PROVE KnownInv'
  BY <1>16 DEF StopRemove, Table!Remove, TypeOK, StartInv, KnownInv, NoStopBegun, Early, peerVars, UniqueKey
<1>17. ASSUME NEW c \in Conns, NEW k \in Kinds, StopStop(c, k) PROVE KnownInv'
  BY <1>17 DEF StopStop, PeerStop, TypeOK, StartInv, KnownInv, NoStopBegun, Early, peerVars, UniqueKey
<1>18. ASSUME StopSwitch \/ SwitchStopped PROVE KnownInv'
  BY <1>18 DEF StopSwitch, SwitchStopped, TypeOK, StartInv, KnownInv, NoStopBegun, Early, peerVars, UniqueKey
<1>19. ASSUME StopListeners PROVE KnownInv'
  BY <1>19 DEF StopListeners, TypeOK, StartInv, KnownInv, NoStopBegun, Early, peerVars, UniqueKey
<1>20. ASSUME NEW h \in Bannable, ToggleBan(h) PROVE KnownInv'
  BY <1>20 DEF ToggleBan, TypeOK, StartInv, KnownInv, NoStopBegun, Early, peerVars, UniqueKey
<1>21. CASE UNCHANGED vars
  BY <1>21 DEF vars, TypeOK, StartInv, KnownInv, NoStopBegun, Early, peerVars, UniqueKey
<1>22. ASSUME NEW c \in Conns, ProtocolNotify(c) PROVE KnownInv'
  BY <1>22 DEF ProtocolNotify, Goto, TypeOK, StartInv, KnownInv, NoStopBegun, Early, peerVars, UniqueKey
<1> QED BY <1>1, <1>2, <1>3, <1>4, <1>5, <1>6, <1>7, <1>8, <1>9, <1>10,
           <1>11, <1>12, <1>13, <1>14, <1>15, <1>16, <1>17, <1>18, <1>19, <1>20, <1>21, <1>22, NextCases
           DEF ConnectionError, ReadClosed

\* Where the argument of StopForError is: a listed, stopped and punctual peer
\* has a stop that has not come to its Remove.
LEMMA DeadFromInv == TypeOK /\ StartInv /\ RemoveInv => DeadPeerBeingRemoved
<1> SUFFICES ASSUME TypeOK, StartInv, RemoveInv,
                    NEW c \in peers, mconn[c] = "stopped", ~late[c]
             PROVE  \E k \in Kinds : stops[c][k] \in
                      {"unregister", "remove", "sweepStop", "sweepRemove"}
  BY DEF DeadPeerBeingRemoved
<1>1. PICK k \in Kinds : stops[c][k] # "idle" BY DEF TypeOK, StartInv, NoStopBegun
<1>2. stops[c][k] \in Phases \ {"idle", "stop", "done"}
  BY <1>1 DEF TypeOK, RemoveInv
<1> QED BY <1>2 DEF Phases

\* Every state of every behaviour has the types of TypeOK.
THEOREM TypeCorrect == Spec => []TypeOK
  BY TypeInit, TypeStep, PTL DEF Spec

\* A listed peer with a dead connection is always on its way out of sw.peers,
\* unless a stop of it overtook the last step of AddPeer.
THEOREM DeadPeersLeave == Spec => []DeadPeerBeingRemoved
  BY TypeInit, TypeStep, StartInit, StartStep, RemoveStep, DeadFromInv, PTL DEF Spec

\* A peer that was added and never stopped is listed and registered, whatever
\* happens to the other peers, as long as its key is its own.
THEOREM AddedPeersKnown == Spec => []AddedPeerKnown
<1>1. KnownInv => AddedPeerKnown BY DEF KnownInv, AddedPeerKnown
<1> QED BY <1>1, TypeInit, TypeStep, StartInit, StartStep, KnownStep, PTL DEF Spec

-----------------------------------------------------------------------------
(* The bound on inbound peers.                                             *)

\* The inbound connections that passed the limit test of PEX.AddPeer and are
\* not listed yet.
Passed == {c \in Inbound : pc[c] \in InProgress /\
                           ("PEX" \notin todo[c] \/ pc[c] = "add")}

ListedInbound == peers \cap Inbound

\* A connection that no listener has taken has not passed; only dials dial.
EntryInv ==
    \A c \in Conns : /\ pc[c] \in {"idle", "backlog"} => "PEX" \in todo[c]
                     /\ pc[c] = "dialing" => c \notin Inbound

\* Every passed connection occupies a listener, and the passed connections
\* count against the limit together with the listed ones.
BoundInv ==
    /\ EntryInv
    /\ Cardinality(BusyListeners) <= NumListeners
    /\ sw = "running" =>
         Cardinality(ListedInbound) + Cardinality(Passed) < MaxNumPeers + NumListeners

\* The inbound connections are connections.
LEMMA InboundConns == Inbound \subseteq Conns
BY SwitchAssumption

LEMMA Finite ==
  ASSUME TypeOK
  PROVE  /\ IsFiniteSet(Inbound) /\ IsFiniteSet(peers)
         /\ \A S \in SUBSET Conns : IsFiniteSet(S) /\ Cardinality(S) \in Nat
         /\ BusyListeners \subseteq Conns /\ Passed \subseteq Conns
         /\ Passed \subseteq BusyListeners
         /\ ListedInbound \subseteq Conns /\ ListedInbound \subseteq peers
<1>1. \A S \in SUBSET Conns : IsFiniteSet(S) /\ Cardinality(S) \in Nat
  BY SwitchAssumption, FS_Subset, FS_CardinalityType
<1> QED BY <1>1, SwitchAssumption
        DEF TypeOK, BusyListeners, Passed, ListedInbound

\* A step that lets no connection in and lists nobody keeps the bound.
LEMMA NoEntry ==
  ASSUME TypeOK, TypeOK', BoundInv,
         sw' = "running" => sw = "running",
         peers' \subseteq peers,
         BusyListeners' \subseteq BusyListeners,
         sw' = "running" => Passed' \subseteq Passed,
         EntryInv'
  PROVE  BoundInv'
<1>1. /\ Cardinality(BusyListeners') <= Cardinality(BusyListeners)
      /\ Cardinality(BusyListeners') \in Nat /\ Cardinality(BusyListeners) \in Nat
  BY Finite, FS_Subset DEF BusyListeners
<1>2. /\ Cardinality(ListedInbound') <= Cardinality(ListedInbound)
      /\ Cardinality(ListedInbound') \in Nat /\ Cardinality(ListedInbound) \in Nat
  <2>1. ListedInbound' \subseteq ListedInbound BY DEF ListedInbound
  <2>2. ListedInbound' \subseteq Conns BY SwitchAssumption DEF ListedInbound
  <2> QED BY <2>1, <2>2, Finite, FS_Subset
<1>3. ASSUME sw' = "running"
      PROVE  /\ Cardinality(Passed') <= Cardinality(Passed)
             /\ Cardinality(Passed') \in Nat /\ Cardinality(Passed) \in Nat
  <2>1. Passed' \subseteq Passed BY <1>3
  <2>2. Passed' \subseteq Conns BY SwitchAssumption DEF Passed
  <2> QED BY <2>1, <2>2, Finite, FS_Subset
<1>4. Cardinality(BusyListeners') <= NumListeners
  BY <1>1, SwitchAssumption DEF BoundInv
<1>5. ASSUME sw' = "running"
      PROVE  Cardinality(ListedInbound') + Cardinality(Passed')
               < MaxNumPeers + NumListeners
  BY <1>2, <1>3, <1>5, SwitchAssumption DEF BoundInv
<1> QED BY <1>4, <1>5 DEF BoundInv

LEMMA BoundInit == Init => BoundInv
<1> SUFFICES ASSUME Init PROVE BoundInv OBVIOUS
<1>1. BusyListeners = {} /\ Passed = {} /\ ListedInbound = {}
  BY InboundConns DEF Init, Table!Init, BusyListeners, Passed, ListedInbound, InProgress
<1> QED BY <1>1, FS_EmptySet, SwitchAssumption DEF BoundInv, EntryInv, Init

LEMMA TakeBound ==
  ASSUME TypeOK, TypeOK', BoundInv, NEW c \in Conns, ListenerTake(c)
  PROVE  BoundInv'
<1>1. CASE Fail(c)
  <2>1. BusyListeners' \subseteq BusyListeners /\ Passed' \subseteq Passed
    BY <1>1, InboundConns DEF ListenerTake, Fail, BusyListeners, Passed, InProgress, TypeOK, peerVars
  <2> QED BY <1>1, <2>1, NoEntry DEF ListenerTake, Fail, BoundInv, EntryInv, TypeOK, peerVars
<1>2. CASE Goto(c, "handshake")
  <2>1. BusyListeners' \subseteq BusyListeners \cup {c}
    BY <1>2, InboundConns DEF Goto, BusyListeners, InProgress, TypeOK
  <2>2. Cardinality(BusyListeners') <= NumListeners
    <3>1. /\ IsFiniteSet(BusyListeners)
          /\ Cardinality(BusyListeners) \in Nat
          /\ Cardinality(BusyListeners) < NumListeners
      BY Finite DEF ListenerTake
    <3>2. /\ IsFiniteSet(BusyListeners \cup {c})
          /\ Cardinality(BusyListeners \cup {c}) <= Cardinality(BusyListeners) + 1
          /\ Cardinality(BusyListeners \cup {c}) \in Nat
      BY <3>1, FS_AddElement, FS_CardinalityType
    <3>3. /\ Cardinality(BusyListeners') <= Cardinality(BusyListeners \cup {c})
          /\ Cardinality(BusyListeners') \in Nat
      BY <2>1, <3>2, FS_Subset, FS_CardinalityType
    <3> QED BY <3>1, <3>2, <3>3, SwitchAssumption
  <2>3. Passed' = Passed
    <3>1. "PEX" \in todo[c] BY DEF BoundInv, EntryInv, ListenerTake
    <3> QED BY <1>2, <3>1, InboundConns
            DEF ListenerTake, Goto, Passed, InProgress, TypeOK, peerVars
  <2>4. ListedInbound' = ListedInbound BY DEF ListenerTake, ListedInbound
  <2> QED BY <1>2, <2>2, <2>3, <2>4
          DEF ListenerTake, Goto, BoundInv, EntryInv, TypeOK, peerVars
<1> QED BY <1>1, <1>2 DEF ListenerTake

LEMMA PexBound ==
  ASSUME TypeOK, TypeOK', BoundInv, NEW c \in Conns, PexAddPeer(c)
  PROVE  BoundInv'
<1>0. /\ pc[c] = "reactors"
      /\ UNCHANGED <<sw, peers>>
      /\ \A d \in Conns : d # c => pc'[d] = pc[d] /\ todo'[d] = todo[d]
      /\ pc'[c] \in {"reactors", "add", "selfStop", "failed"}
  BY DEF PexAddPeer, ReactorDone, Goto, Fail, TypeOK
<1>1. BusyListeners' \subseteq BusyListeners
  BY <1>0, InboundConns DEF BusyListeners, InProgress
<1>2. EntryInv'
  BY <1>0 DEF BoundInv, EntryInv
<1>3. CASE c \notin Inbound \/ ~ReactorDone(c, "PEX")
  <2>1. Passed' \subseteq Passed
    <3>1. CASE c \notin Inbound
      BY <1>0, <3>1, InboundConns, Zenon DEF Passed, InProgress
    <3>2. CASE c \in Inbound /\ ~ReactorDone(c, "PEX")
      <4>1. "PEX" \in todo'[c] /\ pc'[c] \in {"selfStop", "failed"}
        BY <1>3, <3>2 DEF PexAddPeer, Goto, Fail, TypeOK
      <4> QED BY <1>0, <4>1, InboundConns DEF Passed, InProgress
    <3> QED BY <1>3, <3>1, <3>2
  <2> QED BY <1>0, <1>1, <1>2, <2>1, NoEntry
<1>4. CASE c \in Inbound /\ ReactorDone(c, "PEX")
  <2>1. Cardinality(peers) < MaxNumPeers
    BY <1>4, SwitchAssumption DEF PexAddPeer, ReactorDone, Goto, Fail, TypeOK, Outbound
  <2>2. /\ Cardinality(ListedInbound') <= Cardinality(peers)
        /\ Cardinality(ListedInbound') \in Nat /\ Cardinality(peers) \in Nat
    <3>1. ListedInbound' \subseteq peers BY <1>0 DEF ListedInbound
    <3> QED BY <3>1, Finite, FS_Subset, FS_CardinalityType
  <2>3. /\ Cardinality(Passed') <= Cardinality(BusyListeners')
        /\ Cardinality(BusyListeners') <= Cardinality(BusyListeners)
        /\ Cardinality(Passed') \in Nat /\ Cardinality(BusyListeners') \in Nat
        /\ Cardinality(BusyListeners) \in Nat
    <3>1. Passed' \subseteq BusyListeners' /\ BusyListeners' \subseteq Conns
      BY SwitchAssumption DEF Passed, BusyListeners
    <3> QED BY <1>1, <3>1, Finite, FS_Subset, FS_CardinalityType
  <2> QED BY <1>2, <2>1, <2>2, <2>3, SwitchAssumption DEF BoundInv
<1> QED BY <1>3, <1>4

LEMMA AddBound ==
  ASSUME TypeOK, TypeOK', BoundInv, NEW c \in Conns, AddToPeers(c)
  PROVE  BoundInv'
<1>0. /\ pc[c] = "add"
      /\ UNCHANGED <<sw, todo>>
      /\ \A d \in Conns : d # c => pc'[d] = pc[d]
      /\ pc'[c] \in {"added", "failed"}
  BY DEF AddToPeers, Fail, TypeOK
<1>1. BusyListeners' \subseteq BusyListeners
  BY <1>0, InboundConns DEF BusyListeners, InProgress
<1>2. EntryInv'
  BY <1>0 DEF BoundInv, EntryInv
<1>3. Passed' = Passed \ {c}
  BY <1>0, InboundConns DEF Passed, InProgress
<1>4. CASE peers' \cap Inbound \subseteq ListedInbound
  <2>1. ListedInbound' \subseteq ListedInbound BY <1>4 DEF ListedInbound
  <2>2. /\ Cardinality(ListedInbound') <= Cardinality(ListedInbound)
        /\ Cardinality(ListedInbound') \in Nat /\ Cardinality(ListedInbound) \in Nat
    BY <2>1, Finite, FS_Subset, FS_CardinalityType
  <2>3. /\ Cardinality(Passed') <= Cardinality(Passed)
        /\ Cardinality(Passed') \in Nat /\ Cardinality(Passed) \in Nat
    BY <1>3, Finite, FS_Subset, FS_CardinalityType
  <2>4. /\ Cardinality(BusyListeners') <= Cardinality(BusyListeners)
        /\ Cardinality(BusyListeners') \in Nat /\ Cardinality(BusyListeners) \in Nat
    BY <1>1, Finite, FS_Subset, FS_CardinalityType
  <2> QED BY <1>0, <1>2, <2>2, <2>3, <2>4, SwitchAssumption DEF BoundInv
<1>5. CASE c \in Inbound /\ peers' = peers \cup {c}
  <2>1. ListedInbound' = ListedInbound \cup {c} BY <1>5 DEF ListedInbound
  <2>2. /\ Cardinality(ListedInbound') <= Cardinality(ListedInbound) + 1
        /\ Cardinality(ListedInbound') \in Nat /\ Cardinality(ListedInbound) \in Nat
    <3>1. IsFiniteSet(ListedInbound) /\ Cardinality(ListedInbound) \in Nat BY Finite
    <3> QED BY <2>1, <3>1, FS_AddElement
  <2>3. c \in Passed BY <1>0, <1>5 DEF Passed, InProgress
  <2>4. /\ Cardinality(Passed') = Cardinality(Passed) - 1
        /\ Cardinality(Passed') \in Nat /\ Cardinality(Passed) \in Nat
    BY <1>3, <2>3, Finite, FS_RemoveElement, FS_CardinalityType
  <2>5. /\ Cardinality(BusyListeners') <= Cardinality(BusyListeners)
        /\ Cardinality(BusyListeners') \in Nat /\ Cardinality(BusyListeners) \in Nat
    BY <1>1, Finite, FS_Subset, FS_CardinalityType
  <2> QED BY <1>0, <1>2, <2>2, <2>4, <2>5, SwitchAssumption DEF BoundInv
<1> QED BY <1>4, <1>5 DEF AddToPeers, Table!Add, ListedInbound

LEMMA BoundStep == TypeOK /\ TypeOK' /\ BoundInv /\ [Next]_vars => BoundInv'
<1> SUFFICES ASSUME TypeOK, TypeOK', BoundInv, [Next]_vars PROVE BoundInv' OBVIOUS
<1> DEFINE Calm == /\ sw' = "running" => sw = "running"
                   /\ peers' \subseteq peers
                   /\ todo' = todo
                   /\ \A d \in Conns :
                        \/ pc'[d] = pc[d]
                        \/ pc[d] = "idle" /\ pc'[d] = "backlog"
                        \/ pc'[d] \in {"dropped", "failed"}
                        \/ d \notin Inbound /\ pc'[d] \notin {"idle", "backlog"}
                        \/ /\ pc[d] \in InProgress
                           /\ pc'[d] \in InProgress \ {"add"}
                        \/ pc[d] \in InProgress /\ sw' # "running" /\ pc'[d] = "add"
<1>0. ASSUME Calm PROVE BoundInv'
  <2>1. BusyListeners' \subseteq BusyListeners
    BY <1>0, InboundConns DEF BusyListeners, InProgress
  <2>2. sw' = "running" => Passed' \subseteq Passed
    BY <1>0, InboundConns DEF Passed, InProgress
  <2>3. EntryInv'
    BY <1>0 DEF BoundInv, EntryInv, InProgress
  <2> QED BY <1>0, <2>1, <2>2, <2>3, NoEntry
<1>1. ASSUME NEW c \in Conns, ListenerAccept(c) \/ ListenerDrain(c) PROVE Calm
  BY <1>1 DEF ListenerAccept, ListenerDrain, Goto, TypeOK, peerVars
<1>2. ASSUME NEW c \in Conns, Dial(c) PROVE Calm
  BY <1>2 DEF Dial, Fail, TypeOK, peerVars, Outbound
<1>3. ASSUME NEW c \in Conns, Dialled(c), c \notin Inbound PROVE Calm
  BY <1>3 DEF Dialled, Goto, Fail, TypeOK, peerVars
<1>4. ASSUME NEW c \in Conns, Handshake(c) \/ CheckBan(c) \/ CheckDuplicate(c)
      PROVE  Calm
  BY <1>4 DEF Handshake, CompatibleWith, CheckBan, CheckDuplicate, Goto, Fail, TypeOK, peerVars, InProgress
<1>5. ASSUME NEW c \in Conns, StartPeer(c) PROVE Calm
  BY <1>5 DEF StartPeer, Goto, TypeOK, InProgress
<1>6. ASSUME NEW c \in Conns, ProtocolRequest(c) PROVE Calm
  BY <1>6 DEF ProtocolRequest, TrySend, Goto, Fail, TypeOK, peerVars, InProgress
<1>7. ASSUME NEW c \in Conns, ProtocolAddPeer(c) PROVE BoundInv'
  <2>1. /\ UNCHANGED <<sw, peers>>
        /\ pc[c] = "status"
        /\ \A d \in Conns : d # c => pc'[d] = pc[d] /\ todo'[d] = todo[d]
        /\ \/ pc'[c] = "failed"
           \/ pc'[c] = "notify" /\ todo'[c] = todo[c] \ {"PROTOCOL"}
    BY <1>7 DEF ProtocolAddPeer, Goto, Fail, TypeOK
  <2>2. BusyListeners' \subseteq BusyListeners BY <2>1, InboundConns DEF BusyListeners, InProgress
  <2>3. Passed' \subseteq Passed BY <2>1, InboundConns DEF Passed, InProgress
  <2>4. EntryInv'
    BY <2>1 DEF BoundInv, EntryInv
  <2> QED BY <2>1, <2>2, <2>3, <2>4, NoEntry, Zenon
<1>8. ASSUME NEW c \in Conns,
             ConnectionError(c) \/ ReadClosed(c) \/ StopPeerGracefully(c)
      PROVE  Calm
  BY <1>8 DEF ConnectionError, ReadClosed, StopForError, StopPeerGracefully, peerVars
<1>9. ASSUME NEW c \in Conns, SweepStop(c) \/ SweepRemove(c) PROVE Calm
  BY <1>9 DEF SweepStop, SweepRemove, Table!Remove, peerVars
<1>10. ASSUME NEW c \in Conns, NEW k \in Kinds,
              StopUnregister(c, k) \/ StopRemove(c, k) \/ StopStop(c, k)
       PROVE  Calm
  BY <1>10 DEF StopUnregister, StopRemove, StopStop, Table!Remove, TypeOK, peerVars
<1>11. ASSUME StopSwitch \/ StopListeners \/ SwitchStopped PROVE Calm
  BY <1>11 DEF StopSwitch, StopListeners, SwitchStopped, peerVars
<1>12. ASSUME NEW h \in Bannable, ToggleBan(h) PROVE Calm
  BY <1>12 DEF ToggleBan, peerVars
<1>13. CASE UNCHANGED vars
  BY <1>0, <1>13 DEF vars
<1>14. ASSUME NEW c \in Conns, Dialled(c) PROVE c \notin Inbound
  BY <1>14 DEF Dialled, BoundInv, EntryInv
<1>15. ASSUME NEW c \in Conns, ProtocolNotify(c) PROVE BoundInv'
  <2>1. /\ UNCHANGED <<sw, peers, todo>>
        /\ pc[c] = "notify"
        /\ \A d \in Conns : d # c => pc'[d] = pc[d]
        /\ pc'[c] = "reactors" \/ (pc'[c] = "add" /\ todo[c] = {})
    <3>1. /\ pc[c] = "notify" /\ UNCHANGED <<sw, peers, todo>>
          /\ pc' = [pc EXCEPT ![c] = IF todo[c] = {} THEN "add" ELSE "reactors"]
      BY <1>15 DEF ProtocolNotify, Goto, peerVars
    <3>2. pc'[c] = IF todo[c] = {} THEN "add" ELSE "reactors" BY <3>1 DEF TypeOK
    <3>3. \A d \in Conns : d # c => pc'[d] = pc[d] BY <3>1 DEF TypeOK
    <3>4. pc'[c] = "reactors" \/ (pc'[c] = "add" /\ todo[c] = {}) BY <3>2
    <3> QED BY <3>1, <3>3, <3>4
  <2>2. BusyListeners' \subseteq BusyListeners BY <2>1, InboundConns DEF BusyListeners, InProgress
  <2>3. Passed' \subseteq Passed BY <2>1, InboundConns DEF Passed, InProgress
  <2>4. EntryInv'
    BY <2>1 DEF BoundInv, EntryInv
  <2> QED BY <2>1, <2>2, <2>3, <2>4, NoEntry
<1> HIDE DEF Calm
<1> QED BY <1>0, <1>1, <1>2, <1>3, <1>4, <1>5, <1>6, <1>7, <1>8, <1>9, <1>10,
           <1>11, <1>12, <1>13, <1>14, <1>15, NextCases, TakeBound, PexBound, AddBound

\* While the switch runs, at most MaxNumPeers + NumListeners - 1 inbound peers
\* are listed (MaxNumPeers with the single listener the node creates), however
\* the listeners, the dials and the stops interleave.
THEOREM InboundAlwaysBounded == Spec => []InboundBounded
<1>1. TypeOK /\ BoundInv => InboundBounded
  BY Finite, SwitchAssumption DEF BoundInv, InboundBounded, ListedInbound
<1> QED BY <1>1, TypeInit, TypeStep, BoundInit, BoundStep, PTL DEF Spec

-----------------------------------------------------------------------------
(* sw.dialing.  A host leaves it when one dial ends, so two dials of one   *)
(* host must not overlap; this is the second conjunct.                     *)

Busy == InProgress \cup {"dialing"}
Dialers == {c \in Outbound : pc[c] \in Busy}

DialInv ==
    /\ DialingExact
    /\ \A c, d \in Dialers : HostOf[c] = HostOf[d] => c = d
    /\ \A c \in Outbound : pc[c] # "backlog"

LEMMA DialInit == Init => DialInv
  BY DEF Init, DialInv, DialingExact, Dialers, Busy, InProgress, Outbound

\* A step that neither begins nor ends a dial.
LEMMA DialKeeps ==
  ASSUME DialInv, dialing' = dialing,
         \A d \in Outbound : (pc'[d] \in Busy <=> pc[d] \in Busy) /\ pc'[d] # "backlog"
  PROVE  DialInv'
<1>1. Dialers' = Dialers BY DEF Dialers, Busy, InProgress
<1>2. DialingExact' BY <1>1 DEF DialInv, DialingExact, Dialers, Busy
<1> QED BY <1>1, <1>2 DEF DialInv

\* The AddPeer goroutine of c goes on, or it is that of a listener.
LEMMA DialGoto ==
  ASSUME TypeOK, DialInv, NEW c \in Conns, NEW l \in PcLabels, Goto(c, l),
         c \in Inbound \/ (pc[c] \in Busy /\ l \in InProgress)
  PROVE  DialInv'
<1>1. dialing' = dialing /\ pc' = [pc EXCEPT ![c] = l] BY DEF Goto
<1>2. \A d \in Outbound : (pc'[d] \in Busy <=> pc[d] \in Busy) /\ pc'[d] # "backlog"
  BY <1>1 DEF TypeOK, DialInv, Outbound, Busy, InProgress
<1> QED BY <1>1, <1>2, DialKeeps

\* It ends, or has not entered its host into sw.dialing.
LEMMA DialEnds ==
  ASSUME TypeOK, DialInv, NEW c \in Conns, NEW l \in {"failed", "added"},
         pc' = [pc EXCEPT ![c] = l],
         dialing' = (IF c \in Outbound THEN dialing \ {HostOf[c]} ELSE dialing),
         c \in Inbound \/ pc[c] \in Busy \/ HostOf[c] \notin dialing
  PROVE  DialInv'
<1>1. Dialers' = Dialers \ {c}
  BY DEF TypeOK, Dialers, Busy, InProgress, Outbound
<1>2. \A d \in Outbound : pc'[d] # "backlog" BY DEF TypeOK, DialInv, Outbound
<1>3. DialingExact'
  <2>1. dialing = {HostOf[d] : d \in Dialers} BY DEF DialInv, DialingExact, Dialers, Busy
  <2>2. dialing' = {HostOf[d] : d \in Dialers \ {c}}
    <3>1. CASE c \in Dialers
      BY <2>1, <3>1 DEF DialInv, Dialers
    <3>2. CASE c \notin Dialers
      <4>1. dialing' = dialing BY <2>1, <3>2 DEF Dialers, Outbound
      <4> QED BY <2>1, <3>2, <4>1
    <3> QED BY <3>1, <3>2
  <2> QED BY <1>1, <2>2 DEF DialingExact, Dialers, Busy
<1> QED BY <1>1, <1>2, <1>3 DEF DialInv

LEMMA DialFail ==
  ASSUME TypeOK, DialInv, NEW c \in Conns, Fail(c),
         c \in Inbound \/ pc[c] \in Busy \/ HostOf[c] \notin dialing
  PROVE  DialInv'
  BY DialEnds DEF Fail

LEMMA DialStep == TypeOK /\ StartInv /\ DialInv /\ [Next]_vars => DialInv'
<1> SUFFICES ASSUME TypeOK, StartInv, DialInv, [Next]_vars PROVE DialInv' OBVIOUS
<1> USE DEF InProgress, PcLabels, Busy
<1>1. ASSUME NEW c \in Conns, ListenerAccept(c) PROVE DialInv'
  BY <1>1, DialGoto DEF ListenerAccept
<1>2. ASSUME NEW c \in Conns, ListenerDrain(c) PROVE DialInv'
  BY <1>2, DialGoto DEF ListenerDrain, DialInv, Outbound
<1>3. ASSUME NEW c \in Conns, ListenerTake(c) PROVE DialInv'
  <2>1. c \in Inbound /\ (Goto(c, "handshake") \/ Fail(c))
    BY <1>3 DEF ListenerTake, DialInv, Outbound
  <2> QED BY <2>1, DialGoto, DialFail
<1>4. ASSUME NEW c \in Conns, Dial(c) PROVE DialInv'
  <2>1. CASE Fail(c) BY <1>4, <2>1, DialFail DEF Dial
  <2>2. CASE ~Fail(c)
    <3>1. /\ c \in Outbound /\ HostOf[c] \notin dialing
          /\ pc' = [pc EXCEPT ![c] = "dialing"] /\ dialing' = dialing \cup {HostOf[c]}
      BY <1>4, <2>2 DEF Dial
    <3>2. Dialers' = Dialers \cup {c} BY <3>1 DEF TypeOK, Dialers, Outbound
    <3>3. dialing = {HostOf[d] : d \in Dialers} BY DEF DialInv, DialingExact, Dialers
    <3>4. dialing' = {HostOf[d] : d \in Dialers'} BY <3>1, <3>2, <3>3
    <3>5. DialingExact' BY <3>4 DEF DialingExact, Dialers
    <3>6. \A d, e \in Dialers' : HostOf[d] = HostOf[e] => d = e
      BY <3>1, <3>2, <3>3 DEF DialInv
    <3>7. \A d \in Outbound : pc'[d] # "backlog" BY <3>1 DEF TypeOK, DialInv, Outbound
    <3> QED BY <3>5, <3>6, <3>7 DEF DialInv
  <2> QED BY <2>1, <2>2
<1>5. ASSUME NEW c \in Conns, Dialled(c) \/ Handshake(c) PROVE DialInv'
  BY <1>5, DialGoto, DialFail DEF Dialled, Handshake, CompatibleWith
<1>6. ASSUME NEW c \in Conns, CheckBan(c) \/ CheckDuplicate(c) PROVE DialInv'
  BY <1>6, DialGoto, DialFail DEF CheckBan, CheckDuplicate
<1>7. ASSUME NEW c \in Conns, StartPeer(c) PROVE DialInv'
  BY <1>7, DialGoto DEF StartPeer
<1>8. ASSUME NEW c \in Conns, PexAddPeer(c) PROVE DialInv'
  <2>1. /\ pc[c] = "reactors"
        /\ \/ ReactorDone(c, "PEX") \/ Goto(c, "selfStop") \/ Fail(c)
    BY <1>8 DEF PexAddPeer
  <2>2. ReactorDone(c, "PEX") => Goto(c, "add") \/ Goto(c, "reactors") BY DEF ReactorDone
  <2> QED BY <2>1, <2>2, DialGoto, DialFail
<1>9. ASSUME NEW c \in Conns, ProtocolRequest(c) \/ ProtocolAddPeer(c) PROVE DialInv'
  BY <1>9, DialGoto, DialFail DEF ProtocolRequest, ProtocolAddPeer
<1>10. ASSUME NEW c \in Conns, ProtocolNotify(c) PROVE DialInv'
  <2>1. pc[c] = "notify" /\ (Goto(c, "add") \/ Goto(c, "reactors"))
    BY <1>10 DEF ProtocolNotify
  <2> QED BY <2>1, DialGoto
<1>11. ASSUME NEW c \in Conns, AddToPeers(c) PROVE DialInv'
  BY <1>11, DialEnds, DialFail DEF AddToPeers
<1>12. ASSUME NEW c \in Conns, NEW k \in Kinds, StopStop(c, k), k = "addPeer"
       PROVE  DialInv'
  <2>1. pc[c] = "selfStop" BY <1>12 DEF StopStop, StartInv
  <2> QED BY <1>12, <2>1, DialEnds DEF StopStop
<1>13. ASSUME UNCHANGED <<pc, dialing>> PROVE DialInv'
  BY <1>13, DialKeeps DEF DialInv
<1>14. ASSUME NEW c \in Conns,
              \/ ConnectionError(c) \/ ReadClosed(c) \/ StopPeerGracefully(c)
              \/ SweepStop(c) \/ SweepRemove(c)
       PROVE  UNCHANGED <<pc, dialing>>
  BY <1>14 DEF ConnectionError, ReadClosed, StopForError, StopPeerGracefully, SweepStop, SweepRemove
<1>15. ASSUME NEW c \in Conns, NEW k \in Kinds,
              \/ StopUnregister(c, k) \/ StopRemove(c, k)
              \/ (StopStop(c, k) /\ k # "addPeer")
       PROVE  UNCHANGED <<pc, dialing>>
  BY <1>15 DEF StopUnregister, StopRemove, StopStop
<1>16. ASSUME StopSwitch \/ StopListeners \/ SwitchStopped PROVE UNCHANGED <<pc, dialing>>
  BY <1>16 DEF StopSwitch, StopListeners, SwitchStopped
<1>17. ASSUME NEW h \in Bannable, ToggleBan(h) PROVE UNCHANGED <<pc, dialing>>
  BY <1>17 DEF ToggleBan
<1>18. CASE UNCHANGED vars BY <1>13, <1>18 DEF vars
<1> QED BY <1>1, <1>2, <1>3, <1>4, <1>5, <1>6, <1>7, <1>8, <1>9, <1>10, <1>11, <1>12,
           <1>13, <1>14, <1>15, <1>16, <1>17, <1>18, NextCases

\* sw.dialing holds exactly the hosts of the dials in progress, whatever the
\* listeners, the stops of peers and the stop of the switch do meanwhile: every
\* way out of DialPeerWithAddress runs the deferred Delete, once.
THEOREM DialsAlwaysExact == Spec => []DialingExact
<1>1. DialInv => DialingExact BY DEF DialInv
<1> QED BY <1>1, TypeInit, TypeStep, StartInit, StartStep, DialInit, DialStep, PTL DEF Spec
====
