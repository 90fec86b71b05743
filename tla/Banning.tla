------------------------------- MODULE Banning -------------------------------
(***************************************************************************)
(* How a misbehaving peer is banned: the score of a netsync peer           *)
(* (trust.DynamicBanScore and peer.addBanScore), the workers that raise it *)
(* and ban the peer (block keeper, transaction worker, fetcher), and the   *)
(* ban list of the switch with its copy in the database.                   *)
(*                                                                         *)
(* A member of NetPeers is one registered peer object of netsync, with a   *)
(* score of its own; a node that connects again is another member with the *)
(* same host.                                                              *)
(* Time is counted in half-lives of the transient score, which is kept in  *)
(* units of 1 / Unit so that halving it is exact.                          *)
(***************************************************************************)
EXTENDS Integers

CONSTANTS NetPeers,     \* peer objects
          HostOf,       \* HostOf[p] is RemoteAddrHost()
          Workers,      \* goroutines that judge peers
          Keeper,       \* the one that holds on to a removed peer object
          Offences,     \* [persistent, transient] arguments of addBanScore
          Threshold,    \* defaultBanThreshold
          BanDuration,  \* defaultBanDuration
          Lifetime,     \* trust.Lifetime
          MaxTime,      \* bound on the clock
          MaxScore,     \* bound on the scores
          MayRestart,   \* bound: whether the process restarts
          None

Hosts == {HostOf[p] : p \in NetPeers}
Unit == 2 ^ MaxTime
Score == [persistent : Nat, transient : Nat, last : Int]

ASSUME BanningAssumption ==
    /\ Offences \subseteq [persistent : Nat, transient : Nat]
    /\ Keeper \in Workers
    /\ {Threshold, BanDuration, Lifetime, MaxTime, MaxScore} \subseteq Nat
    /\ None \notin Int /\ None \notin NetPeers
    /\ MayRestart \in BOOLEAN
    /\ \A n \in 0 .. MaxTime + Lifetime : 2 ^ n \in Nat \ {0}  \* the provers have no powers

VARIABLES
    now,         \* the clock
    status,      \* of every peer object: new, connected or gone
    score,       \* its banScore
    worker,      \* what every worker is doing: idle, or a step and its peer
    bannedPeer,  \* sw.bannedPeer: host -> end of the ban, or None
    db,          \* the value stored under bannedPeerKey
    lastBan      \* history: when AddBannedPeer last banned the host, or None

banningVars == <<now, status, score, worker, bannedPeer, db, lastBan>>

Idle == [at |-> "idle", peer |-> None]

BanningInit ==
    /\ now = 0
    /\ status = [p \in NetPeers |-> "new"]
    /\ score = [p \in NetPeers |-> [persistent |-> 0, transient |-> 0, last |-> -Lifetime - 1]]
    /\ worker = [w \in Workers |-> Idle]
    /\ bannedPeer = [h \in Hosts |-> None]
    /\ db = bannedPeer
    /\ lastBan = [h \in Hosts |-> None]

-----------------------------------------------------------------------------
(* trust.DynamicBanScore.                                                  *)

\* transient * decayFactor(dt).
Decayed(transient, dt) == transient \div 2 ^ dt

\* DynamicBanScore.int.
int(s, t) ==
    LET dt == t - s.last
    IN  IF s.transient < Unit \/ dt < 0 \/ Lifetime < dt
        THEN s.persistent
        ELSE s.persistent + Decayed(s.transient, dt) \div Unit

\* DynamicBanScore.increase: the new score, ...
increase(s, o, t) ==
    LET dt == t - s.last
        decayed == IF Lifetime < dt THEN 0
                   ELSE IF s.transient > Unit /\ dt > 0 THEN Decayed(s.transient, dt)
                   ELSE s.transient
    IN  IF o.transient > 0
        THEN [persistent |-> s.persistent + o.persistent,
              transient |-> decayed + o.transient * Unit, last |-> t]
        ELSE [persistent |-> s.persistent + o.persistent,
              transient |-> s.transient, last |-> s.last]

\* ... and the number it returns.
increased(s, o, t) ==
    increase(s, o, t).persistent + increase(s, o, t).transient \div Unit

-----------------------------------------------------------------------------
(* The workers.                                                            *)

\* Mutant of addBanScore: it decides on the score before the offence.
addBanScoreStale(w, p, o) ==
    /\ worker[w] = Idle
    /\ status[p] = "connected" \/ (w = Keeper /\ status[p] = "gone")
    /\ score[p].persistent <= MaxScore /\ score[p].transient <= MaxScore * Unit
    /\ score' = [score EXCEPT ![p] = increase(score[p], o, now)]
    /\ worker' = IF int(score[p], now) > Threshold
                 THEN [worker EXCEPT ![w] = [at |-> "ban", peer |-> p]]
                 ELSE worker
    /\ UNCHANGED <<now, status, bannedPeer, db, lastBan>>

\* addBanScore, when a block or a transaction of the peer is invalid.  The
\* transaction worker and the fetcher look the peer up first; the block keeper
\* has done so when it began to request blocks.
addBanScore(w, p, o) ==
    /\ worker[w] = Idle
    /\ status[p] = "connected" \/ (w = Keeper /\ status[p] = "gone")
    /\ score[p].persistent <= MaxScore /\ score[p].transient <= MaxScore * Unit
    /\ score' = [score EXCEPT ![p] = increase(score[p], o, now)]
    /\ worker' = IF increased(score[p], o, now) > Threshold
                 THEN [worker EXCEPT ![w] = [at |-> "ban", peer |-> p]]
                 ELSE worker
    /\ UNCHANGED <<now, status, bannedPeer, db, lastBan>>

\* Mutant of AddBannedPeer: the ban is not written to the database.
AddBannedInMemory(w) ==
    LET h == HostOf[worker[w].peer]
    IN  /\ worker[w].at = "ban"
        /\ bannedPeer' = [bannedPeer EXCEPT ![h] = now + BanDuration]
        /\ lastBan' = [lastBan EXCEPT ![h] = now]
        /\ worker' = [worker EXCEPT ![w].at = "stop"]
        /\ UNCHANGED <<now, status, score, db>>

\* Switch.AddBannedPeer, and the write to the database.
AddBannedPeer(w) ==
    LET h == HostOf[worker[w].peer]
    IN  /\ worker[w].at = "ban"
        /\ bannedPeer' = [bannedPeer EXCEPT ![h] = now + BanDuration]
        /\ db' = bannedPeer'
        /\ lastBan' = [lastBan EXCEPT ![h] = now]
        /\ worker' = [worker EXCEPT ![w].at = "stop"]
        /\ UNCHANGED <<now, status, score>>

\* Mutant of StopPeerGracefully: the banned peer stays.
BanWithoutStop(w) ==
    /\ worker[w].at = "stop"
    /\ worker' = [worker EXCEPT ![w] = Idle]
    /\ UNCHANGED <<now, status, score, bannedPeer, db, lastBan>>

\* Switch.StopPeerGracefully (Switch.tla has its steps).
StopPeerGracefully(w) ==
    /\ worker[w].at = "stop"
    /\ status' = [status EXCEPT ![worker[w].peer] = "gone"]
    /\ worker' = [worker EXCEPT ![w] = Idle]
    /\ UNCHANGED <<now, score, bannedPeer, db, lastBan>>

-----------------------------------------------------------------------------
(* The switch.                                                             *)

\* checkBannedPeer without an error: a ban that is over is deleted, here and in
\* the database (delBannedPeer).
Admit(h) ==
    /\ bannedPeer[h] # None => now >= bannedPeer[h]
    /\ IF bannedPeer[h] = None
       THEN UNCHANGED <<bannedPeer, db>>
       ELSE /\ bannedPeer' = [bannedPeer EXCEPT ![h] = None]
            /\ db' = bannedPeer'

\* A connection passes the filters of the switch and its peer is registered.
Connect(p) ==
    /\ status[p] = "new"
    /\ Admit(HostOf[p])
    /\ status' = [status EXCEPT ![p] = "connected"]
    /\ UNCHANGED <<now, score, worker, lastBan>>

\* The peer leaves for another reason.
Disconnect(p) ==
    /\ status[p] = "connected"
    /\ status' = [status EXCEPT ![p] = "gone"]
    /\ UNCHANGED <<now, score, worker, bannedPeer, db, lastBan>>

\* The process ends and NewSwitch reads the bans from the database.
Restart ==
    /\ MayRestart
    /\ bannedPeer' = db
    /\ status' = [p \in NetPeers |-> IF status[p] = "new" THEN "new" ELSE "lost"]
    /\ worker' = [w \in Workers |-> Idle]
    /\ UNCHANGED <<now, score, db, lastBan>>

Tick ==
    /\ now < MaxTime
    /\ now' = now + 1
    /\ UNCHANGED <<status, score, worker, bannedPeer, db, lastBan>>

WorkerStep(w) == AddBannedPeer(w) \/ StopPeerGracefully(w)

BanningNext ==
    \/ \E w \in Workers : \/ \E p \in NetPeers, o \in Offences : addBanScore(w, p, o)
                          \/ WorkerStep(w)
    \/ \E p \in NetPeers : Connect(p) \/ Disconnect(p)
    \/ Restart
    \/ Tick

BanningSpec == BanningInit /\ [][BanningNext]_banningVars

\* A worker that has decided to ban does not wait for anything.
FairSpec == BanningSpec /\ \A w \in Workers : WF_banningVars(WorkerStep(w))

-----------------------------------------------------------------------------
(* Properties.                                                             *)

BanningTypeOK ==
    /\ now \in Int
    /\ status \in [NetPeers -> {"new", "connected", "gone", "lost"}]
    /\ score \in [NetPeers -> Score]
    /\ worker \in [Workers -> [at : {"idle", "ban", "stop"}, peer : NetPeers \cup {None}]]
    /\ bannedPeer \in [Hosts -> Int \cup {None}]
    /\ db \in [Hosts -> Int \cup {None}]
    /\ lastBan \in [Hosts -> Int \cup {None}]

\* checkBannedPeer lets nobody in from a host until BanDuration has passed
\* since the last AddBannedPeer for it, whatever bans of other hosts ran out
\* meanwhile and however often the process restarted.
BannedStayOut ==
    [][\A p \in NetPeers : Connect(p) /\ lastBan[HostOf[p]] # None =>
          now >= lastBan[HostOf[p]] + BanDuration]_banningVars

\* A peer whose persistent score has passed the threshold is banned or is about
\* to be: addBanScore decides on the number that Increase returned under the
\* lock, so of several workers that raise the score at once at least one bans.
NoOffenderMissed ==
    \A p \in NetPeers :
        (score[p].persistent > Threshold /\ status[p] # "lost") =>
            \/ \E w \in Workers : worker[w].at = "ban" /\ worker[w].peer = p
            \/ lastBan[HostOf[p]] # None

\* A connected peer over the threshold does not stay connected.
OffenderDisconnected ==
    \A p \in NetPeers :
        (score[p].persistent > Threshold /\ status[p] = "connected")
            ~> status[p] # "connected"
=============================================================================
