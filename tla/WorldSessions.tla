------------------------------ MODULE WorldSessions ------------------------------
(***************************************************************************)
(* Sessions of the world server and its login queue: World.cpp and         *)
(* WorldSession.cpp on the world thread, WorldSocket.cpp on the network    *)
(* threads.  A connection stands for a WorldSocket and for the             *)
(* WorldSession that HandleAuthSession creates for it; an account may      *)
(* connect again while it has a session.  Once its socket is closed and    *)
(* its session deleted a connection can be used again.  Sockets that close *)
(* before they are authenticated have no part in this.                     *)
(*                                                                         *)
(* The world thread runs UpdateSessions over and over: it takes the new    *)
(* sessions, then updates each session.  Network threads open sockets,     *)
(* read packets and close sockets at any moment in between.                *)
(***************************************************************************)
EXTENDS Naturals, FiniteSets, Sequences, SequencesExt

CONSTANTS
    Connections,
    Accounts,
    AccountOf,          \* the account of each connection
    Privileged,         \* accounts with RBAC_PERM_SKIP_QUEUE
    Characters,         \* accounts that have a character to play
    PlayerLimits,       \* values of PlayerLimit and ".server plimit"
    Tolerance,          \* is DisconnectToleranceInterval set?
    MayStop,            \* may the server be shut down?
    NetworkThreads,     \* ThreadPool, the threads of the io_service
    Iocp,               \* TC_SOCKET_USE_IOCP: may the end of a write close the socket?
    NoSession

ASSUME AccountOfType == AccountOf \in [Connections -> Accounts]
ASSUME LimitsType == PlayerLimits \subseteq Nat
ASSUME NoSessionIsNew == NoSession \notin Connections
ASSUME BuildType == NetworkThreads \in Nat \ {0} /\ Iocp \in BOOLEAN
ASSUME ConnectionsFinite == IsFiniteSet(Connections)

VARIABLES
    socket,             \* Socket::_closed ("shut": set, OnClose not reached)
    worldSession,       \* sockets whose _worldSession is not null
    reading,            \* sockets whose reader uses *_worldSession, _worldSessionLock held
    session,            \* connection -> the life of its WorldSession
    forceExit,          \* WorldSession::forceExit
    player,             \* connection -> _player and m_playerLoading
    inQueue,            \* sessions with m_inQueue
    told,               \* connection -> the last position sent, 0: admitted
    addSessQueue,
    sessions,           \* m_sessions: account -> connection
    queue,              \* m_QueuedPlayer
    disconnects,        \* m_disconnects: accounts that left while not queued
    playerLimit,
    limitSet,           \* history: was the limit changed?
    world,              \* where the world thread is
    stopping,           \* KickAll was called: one more update, then the end
    todo,               \* accounts UpdateSessions has yet to reach
    aboard              \* history: sessions KickAll found, not deleted yet

ioVars    == <<socket, worldSession, reading>>
listVars  == <<sessions, queue, inQueue, told>>
limitVars == <<playerLimit, limitSet>>
worldVars == <<world, stopping, todo, aboard>>
vars == <<ioVars, listVars, limitVars, worldVars, session, forceExit, player,
          addSessQueue, disconnects>>

Listed == {sessions[a] : a \in Accounts} \ {NoSession}
Queued == ToSet(queue)
IsOpen(c) == socket[c] = "open"
NeverTold == Cardinality(Connections) + 1

Init ==
    /\ socket = [c \in Connections |-> "closed"]
    /\ worldSession = {}
    /\ reading = {}
    /\ session = [c \in Connections |-> "none"]
    /\ forceExit = {}
    /\ player = [c \in Connections |-> "none"]
    /\ inQueue = {}
    /\ told = [c \in Connections |-> NeverTold]
    /\ addSessQueue = <<>>
    /\ sessions = [a \in Accounts |-> NoSession]
    /\ queue = <<>>
    /\ disconnects = {}
    /\ playerLimit \in PlayerLimits
    /\ limitSet = FALSE
    /\ world = "rest"
    /\ stopping = FALSE
    /\ todo = {}
    /\ aboard = {}

-----------------------------------------------------------------------------
(* Network threads.                                                        *)

\* A socket is accepted and HandleAuthSession succeeds: the session is created
\* and handed over to the world thread.
AuthSession(c) ==
    /\ socket[c] = "closed"
    /\ session[c] = "none"
    /\ socket' = [socket EXCEPT ![c] = "open"]
    /\ worldSession' = worldSession \cup {c}
    /\ session' = [session EXCEPT ![c] = "added"]
    /\ addSessQueue' = Append(addSessQueue, c)
    /\ UNCHANGED <<reading, listVars, limitVars, worldVars, forceExit, player,
                   disconnects>>

othersVars == <<listVars, limitVars, worldVars, session, forceExit, player,
                addSessQueue, disconnects>>

Closing == {c \in Connections : socket[c] = "shut"}
ThreadIsFree == Cardinality(reading) + Cardinality(Closing) < NetworkThreads

\* ReadDataHandler or HandlePing takes the lock and finds a session: it queues
\* a packet, resets its timers or logs its player.  A thread that is closing
\* the socket does not read it; with IOCP another one may.
ReadData(c) ==
    /\ ThreadIsFree
    /\ c \in worldSession \ reading
    /\ socket[c] = "shut" => Iocp
    /\ reading' = reading \cup {c}
    /\ UNCHANGED <<socket, worldSession, othersVars>>

\* The handler is through with the session and gives back the lock.
ReadDone(c) ==
    /\ c \in reading
    /\ reading' = reading \ {c}
    /\ UNCHANGED <<socket, worldSession, othersVars>>

\* A network thread closes the socket: _closed first, then, under the lock of
\* the session pointer, OnClose.  It is the thread that reads the socket, or
\* with IOCP one that finds the end of a write.
StartClose(c) ==
    /\ ThreadIsFree
    /\ IsOpen(c)
    /\ c \in reading => Iocp
    /\ socket' = [socket EXCEPT ![c] = "shut"]
    /\ UNCHANGED <<worldSession, reading, othersVars>>

\* Mutant of OnClose: the session pointer is kept.
OnCloseKept(c) ==
    /\ socket[c] = "shut"
    /\ c \notin reading
    /\ socket' = [socket EXCEPT ![c] = "closed"]
    /\ UNCHANGED <<worldSession, reading, othersVars>>

OnClose(c) ==
    /\ socket[c] = "shut"
    /\ c \notin reading
    /\ socket' = [socket EXCEPT ![c] = "closed"]
    /\ worldSession' = worldSession \ {c}
    /\ UNCHANGED <<reading, othersVars>>

-----------------------------------------------------------------------------
(* The login queue.  A state of it is a record [queue, inQueue, told]; size *)
(* is the size of m_sessions.                                              *)

LoginQueue == [queue |-> queue, inQueue |-> inQueue, told |-> told]

AddQueuedPlayer(q, c) ==
    [queue   |-> Append(q.queue, c),
     inQueue |-> q.inQueue \cup {c},
     told    |-> [q.told EXCEPT ![c] = Len(q.queue) + 1]]

IsQueued(q, c) == c \in ToSet(q.queue)

\* Mutant of ActiveWithout: who leaves still counts.
ActiveWithoutNobody(q, c, size) == size - Len(q.queue)

\* Active sessions once c has left; a queued one was not active.
ActiveWithout(q, c, size) ==
    LET active == size - Len(q.queue)
    IN  IF ~IsQueued(q, c) /\ active > 0 THEN active - 1 ELSE active

PositionIn(list, c) == CHOOSE i \in 1..Len(list) : list[i] = c

Erase(list, c) ==
    IF c \in ToSet(list) THEN RemoveAt(list, PositionIn(list, c)) ELSE list

\* Mutant of Admit: the last one is admitted.
AdmitLast(list) == [who |-> Last(list), rest |-> Front(list)]

Admit(list) == [who |-> Head(list), rest |-> Tail(list)]

\* Mutant of FirstChanged: the one after the one who left is not told.
FirstChangedAfter(q, c, admits) ==
    IF admits THEN 1
    ELSE IF IsQueued(q, c) THEN PositionIn(q.queue, c) + 1
    ELSE Len(q.queue) + 1

\* The first position that is not the one told before.
FirstChanged(q, c, admits) ==
    IF admits THEN 1
    ELSE IF IsQueued(q, c) THEN PositionIn(q.queue, c)
    ELSE Len(q.queue) + 1

RemoveQueuedPlayer(q, c, size) ==
    LET left   == Erase(q.queue, c)
        admits == /\ left # <<>>
                  /\ \/ playerLimit = 0
                     \/ ActiveWithout(q, c, size) < playerLimit
        rest   == IF admits THEN Admit(left).rest ELSE left
        next   == IF admits THEN {Admit(left).who} ELSE {}
        changed(d) == /\ d \in ToSet(rest)
                      /\ PositionIn(rest, d) >= FirstChanged(q, c, admits)
        toldOf(d) == IF d = c THEN NeverTold
                     ELSE IF changed(d) THEN PositionIn(rest, d)
                     ELSE IF d \in next THEN 0
                     ELSE q.told[d]
    IN  [queue   |-> rest,
         inQueue |-> (q.inQueue \ (ToSet(q.queue) \cap {c})) \ next,
         told    |-> [d \in Connections |-> toldOf(d)]]

\* The time of the departure minus the present is below the tolerance however
\* long ago it was: an account that has left once is tolerated for good.
HasRecentlyDisconnected(a) == Tolerance /\ a \in disconnects

\* Mutant of MayWait: one too many is admitted.
MayWaitAbove(a, size) ==
    /\ playerLimit > 0
    /\ size > playerLimit
    /\ a \notin Privileged
    /\ ~HasRecentlyDisconnected(a)

MayWait(a, size) ==
    /\ playerLimit > 0
    /\ size >= playerLimit
    /\ a \notin Privileged
    /\ ~HasRecentlyDisconnected(a)

SetLoginQueue(q) ==
    /\ queue' = q.queue
    /\ inQueue' = q.inQueue
    /\ told' = q.told

-----------------------------------------------------------------------------
(* The world thread.                                                       *)

\* CloseSocket by the world thread, OnClose included, unless it is closed: it
\* waits for the lock of a reader.
CloseSockets(cs) ==
    /\ \A c \in cs : IsOpen(c) => c \notin reading
    /\ socket' = [c \in Connections |->
                    IF c \in cs /\ IsOpen(c) THEN "closed" ELSE socket[c]]
    /\ worldSession' = worldSession \ {c \in cs : IsOpen(c)}
    /\ UNCHANGED reading

StartUpdate ==
    /\ world = "rest"
    /\ world' = "adding"
    /\ UNCHANGED <<ioVars, listVars, limitVars, stopping, todo, aboard, session,
                   forceExit, player, addSessQueue, disconnects>>

Size(list) == Cardinality({a \in Accounts : list[a] # NoSession})

\* AddSession_, the account's session is loading a player: the new session
\* is kicked and deleted.
RefuseSession ==
    /\ world = "adding"
    /\ addSessQueue # <<>>
    /\ LET c   == Head(addSessQueue)
           old == sessions[AccountOf[c]]
       IN  /\ old # NoSession
           /\ player[old] = "loading"
           /\ CloseSockets({c})
           /\ session' = [session EXCEPT ![c] = "none"]
    /\ addSessQueue' = Tail(addSessQueue)
    /\ UNCHANGED <<listVars, limitVars, worldVars, forceExit, player,
                   disconnects>>

\* AddSession_: the old session of the account is kicked, taken out of the
\* queue, logged out and deleted; the new one waits or is admitted.
AddSession_ ==
    /\ world = "adding"
    /\ addSessQueue # <<>>
    /\ LET c    == Head(addSessQueue)
           a    == AccountOf[c]
           old  == sessions[a]
           olds == {old} \ {NoSession}
           list == [sessions EXCEPT ![a] = c]
           q    == IF old = NoSession THEN LoginQueue
                   ELSE RemoveQueuedPlayer(LoginQueue, old, Size(sessions))
           \* not counting the one who logs in, unless it waited already
           size == IF old # NoSession /\ IsQueued(LoginQueue, old)
                   THEN Size(list) ELSE Size(list) - 1
       IN  /\ \A o \in olds : player[o] # "loading"
           /\ CloseSockets(olds)
           /\ forceExit' = forceExit \ olds
           /\ session' = [d \in Connections |->
                            IF d \in olds THEN "none"
                            ELSE IF d = c THEN "listed" ELSE session[d]]
           /\ player' = [d \in Connections |->
                           IF d \in olds THEN "none" ELSE player[d]]
           /\ aboard' = aboard \ olds
           /\ sessions' = list
           /\ SetLoginQueue(IF MayWait(a, size) THEN AddQueuedPlayer(q, c)
                            ELSE [q EXCEPT !.told[c] = 0])
    /\ addSessQueue' = Tail(addSessQueue)
    /\ UNCHANGED <<limitVars, world, stopping, todo, disconnects>>

\* Mutant of StartSessions: only sessions with a socket are updated.
StartSessionsOpen ==
    /\ world = "adding"
    /\ addSessQueue = <<>>
    /\ world' = "updating"
    /\ todo' = {a \in Accounts : sessions[a] # NoSession /\ IsOpen(sessions[a])}
    /\ UNCHANGED <<ioVars, listVars, limitVars, stopping, aboard, session,
                   forceExit, player, addSessQueue, disconnects>>

StartSessions ==
    /\ world = "adding"
    /\ addSessQueue = <<>>
    /\ world' = "updating"
    /\ todo' = {a \in Accounts : sessions[a] # NoSession}
    /\ UNCHANGED <<ioVars, listVars, limitVars, stopping, aboard, session,
                   forceExit, player, addSessQueue, disconnects>>

\* What Update does for the session of account a before its cleanup.
Updating(a) == world = "updating" /\ a \in todo

\* IsConnectionIdle: the client has been silent for too long.
CloseIdle(a) ==
    /\ Updating(a)
    /\ sessions[a] \notin inQueue
    /\ IsOpen(sessions[a])
    /\ CloseSockets({sessions[a]})
    /\ UNCHANGED <<listVars, limitVars, worldVars, session, forceExit,
                   player, addSessQueue, disconnects>>

\* Packets of a queued session are dropped; HandlePlayerLoginOpcode,
\* HandlePlayerLogin and LogoutPlayer change what the session plays.
SetPlayer(a, from, to) ==
    /\ Updating(a)
    /\ player[sessions[a]] = from
    /\ player' = [player EXCEPT ![sessions[a]] = to]
    /\ UNCHANGED <<ioVars, listVars, limitVars, worldVars, session, forceExit,
                   addSessQueue, disconnects>>

HandlePlayerLoginOpcode(a) ==
    /\ a \in Characters
    /\ sessions[a] \notin inQueue
    /\ SetPlayer(a, "none", "loading")
HandlePlayerLogin(a) == SetPlayer(a, "loading", "playing")
LogoutPlayer(a) == SetPlayer(a, "playing", "none")

\* A kick: by a command, by a handler, or because the player can not be loaded.
KickPlayer(c) ==
    /\ world \in {"rest", "updating"}
    /\ c \in Listed
    /\ c \notin forceExit
    /\ CloseSockets({c})
    /\ forceExit' = forceExit \cup {c}
    /\ UNCHANGED <<listVars, limitVars, worldVars, session, player,
                   addSessQueue, disconnects>>

\* Update returns true: the socket is open, or its player stays a while.
KeepSession(a) ==
    /\ Updating(a)
    /\ LET c == sessions[a]
       IN  IsOpen(c) \/ (c \notin forceExit /\ player[c] = "playing")
    /\ todo' = todo \ {a}
    /\ UNCHANGED <<ioVars, listVars, limitVars, world, stopping, aboard, session,
                   forceExit, player, addSessQueue, disconnects>>

\* Update returns false: the session has lost its socket, and it is to exit,
\* has no player, or its time is over.  UpdateSessions takes it out of the
\* queue twice, logs it out and deletes it.
RemoveSession(a) ==
    /\ Updating(a)
    /\ LET c  == sessions[a]
           q  == RemoveQueuedPlayer(LoginQueue, c, Size(sessions))
           qq == RemoveQueuedPlayer(q, c, Size(sessions))
       IN  /\ ~IsOpen(c)
           /\ SetLoginQueue(qq)
           /\ disconnects' = IF Tolerance /\ ~IsQueued(LoginQueue, c)
                             THEN disconnects \cup {a} ELSE disconnects
           /\ session' = [session EXCEPT ![c] = "none"]
           /\ player' = [player EXCEPT ![c] = "none"]
           /\ forceExit' = forceExit \ {c}
           /\ aboard' = aboard \ {c}
    /\ sessions' = [sessions EXCEPT ![a] = NoSession]
    /\ todo' = todo \ {a}
    /\ UNCHANGED <<ioVars, limitVars, world, stopping, addSessQueue>>

EndUpdate ==
    /\ world = "updating"
    /\ todo = {}
    /\ world' = IF stopping THEN "stopped" ELSE "rest"
    /\ UNCHANGED <<ioVars, listVars, limitVars, stopping, todo, aboard, session,
                   forceExit, player, addSessQueue, disconnects>>

\* Mutant of KickAll: the sockets are closed, the sessions are not told to exit.
KickAllSockets ==
    /\ MayStop
    /\ world = "rest"
    /\ ~stopping
    /\ stopping' = TRUE
    /\ aboard' = Listed
    /\ queue' = <<>>
    /\ CloseSockets(Listed)
    /\ UNCHANGED <<sessions, inQueue, told, limitVars, world, todo, session,
                   forceExit, player, addSessQueue, disconnects>>

\* The shutdown: the queue is cleared, every session is kicked, and one last
\* UpdateSessions is to log them out.
KickAll ==
    /\ MayStop
    /\ world = "rest"
    /\ ~stopping
    /\ stopping' = TRUE
    /\ aboard' = Listed
    /\ queue' = <<>>
    /\ CloseSockets(Listed)
    /\ forceExit' = forceExit \cup Listed
    /\ UNCHANGED <<sessions, inQueue, told, limitVars, world, todo,
                   session, player, addSessQueue, disconnects>>

\* Mutant of SetPlayerAmountLimit: one less than the value given.
SetPlayerAmountLimitLess(limit) ==
    /\ world = "rest"
    /\ limit # playerLimit
    /\ playerLimit' = limit - 1
    /\ limitSet' = TRUE
    /\ UNCHANGED <<ioVars, listVars, worldVars, session, forceExit, player,
                   addSessQueue, disconnects>>

\* ".server plimit"
SetPlayerAmountLimit(limit) ==
    /\ world = "rest"
    /\ limit # playerLimit
    /\ playerLimit' = limit
    /\ limitSet' = TRUE
    /\ UNCHANGED <<ioVars, listVars, worldVars, session, forceExit, player,
                   addSessQueue, disconnects>>

Stopped == world = "stopped" /\ UNCHANGED vars

-----------------------------------------------------------------------------

\* The network is stopped after the last update of the sessions.
Network == world # "stopped" /\ \E c \in Connections :
    AuthSession(c) \/ ReadData(c) \/ ReadDone(c) \/ StartClose(c) \/ OnClose(c)

UpdateSession(a) ==
    \/ CloseIdle(a)
    \/ HandlePlayerLoginOpcode(a) \/ HandlePlayerLogin(a) \/ LogoutPlayer(a)
    \/ KeepSession(a) \/ RemoveSession(a)

WorldThread ==
    \/ StartUpdate \/ RefuseSession \/ AddSession_ \/ StartSessions \/ EndUpdate
    \/ KickAll \/ Stopped
    \/ \E a \in Accounts : UpdateSession(a)
    \/ \E c \in Connections : KickPlayer(c)
    \/ \E limit \in PlayerLimits : SetPlayerAmountLimit(limit)

Next == Network \/ WorldThread

Spec == Init /\ [][Next]_vars

\* Network threads finish reading and closing a socket and the world loop goes
\* on: it gets the lock of a session pointer between two packets, new sessions
\* are taken faster than clients authenticate, and each update brings a session
\* without a socket nearer to its end.
Fairness ==
    /\ \A c \in Connections : WF_vars(ReadDone(c)) /\ WF_vars(OnClose(c))
    /\ WF_vars(StartUpdate \/ EndUpdate)
    /\ SF_vars(RefuseSession \/ AddSession_) /\ SF_vars(StartSessions)
    /\ \A a \in Accounts : WF_vars(KeepSession(a)) /\ SF_vars(RemoveSession(a))

FairSpec == Spec /\ Fairness

-----------------------------------------------------------------------------
(* Properties.                                                             *)

\* Every variable has its type.
TypeOK ==
    /\ socket \in [Connections -> {"open", "shut", "closed"}]
    /\ worldSession \subseteq Connections
    /\ reading \subseteq Connections
    /\ session \in [Connections -> {"none", "added", "listed"}]
    /\ forceExit \subseteq Connections
    /\ player \in [Connections -> {"none", "loading", "playing"}]
    /\ inQueue \subseteq Connections
    /\ told \in [Connections -> 0..NeverTold]
    /\ addSessQueue \in Seq(Connections)
    /\ sessions \in [Accounts -> Connections \cup {NoSession}]
    /\ queue \in Seq(Connections)
    /\ disconnects \subseteq Accounts
    /\ playerLimit \in PlayerLimits
    /\ limitSet \in BOOLEAN
    /\ world \in {"rest", "adding", "updating", "stopped"}
    /\ stopping \in BOOLEAN
    /\ todo \subseteq Accounts
    /\ aboard \subseteq Connections

\* Without IOCP, no session is deleted while a network thread uses it: whoever
\* closes the socket, OnClose clears the pointer under the lock of the reader,
\* or the reader itself is closing.  With IOCP and two threads the race that the
\* comment at World.cpp:228 tells of is there: the end of a write sets _closed,
\* and the world thread deletes the session without a look at the lock.
\* m_QueuedPlayer and m_sessions hold raw pointers too: what they hold is not
\* deleted, an account has one session, a queued session is one of them and
\* waits once, and m_inQueue says who waits.
NoDanglingSession ==
    /\ ~Iocp => \A c \in reading : session[c] # "none"
    /\ Queued \subseteq Listed
    /\ \A c \in Connections : c \in Listed <=> session[c] = "listed"
    /\ \A a \in Accounts : sessions[a] # NoSession => AccountOf[sessions[a]] = a
    /\ IsInjective(queue)
    /\ ~stopping => inQueue = Queued

\* Active sessions that neither skip the queue nor are tolerated.
Ordinary == {c \in Listed \ Queued :
                /\ AccountOf[c] \notin Privileged
                /\ ~HasRecentlyDisconnected(AccountOf[c])}

\* PlayerLimit holds for ordinary players whoever leaves, comes back or is
\* replaced, unless the limit was changed or the queue thrown away.
OrdinaryWithinLimit ==
    playerLimit > 0 /\ ~limitSet /\ ~stopping =>
        Cardinality(Ordinary) <= playerLimit

\* Nobody waits beside a free slot: each departure admits the next.  A slot is
\* taken by any active session, a privileged one too; the comment of PlayerLimit
\* (worldserver.conf.dist:199) says that these are excluded, and by it a player
\* would wait while there is room.
NobodyWaitsBesideFreeSlot ==
    queue # <<>> /\ ~limitSet =>
        Cardinality(Listed \ Queued) >= playerLimit /\ playerLimit > 0

\* The client of a queued session was last told its position in the queue,
\* that of an admitted one was told that it may go on.
PositionsAreTold ==
    ~stopping => \A c \in Listed :
        told[c] = IF c \in Queued THEN PositionIn(queue, c) ELSE 0

\* The shutdown logs out every session that KickAll found, the ones whose
\* sockets were closed before and the ones loading a player included.
ShutdownLogsOut == world = "stopped" => aboard = {}

\* The queue is left in order: who is admitted from it and stays had nobody
\* before him who still waits.
FirstComeFirstServed ==
    [][\A i, j \in 1..Len(queue) :
          /\ i < j
          /\ queue[j] \in Listed'
          /\ queue[j] \notin Queued'
          => stopping' \/ queue[i] \notin Queued']_vars

\* A session whose socket is closed does not stay, playing or not.
ClosedSessionsEnd ==
    \A c \in Connections :
        socket[c] \in {"shut", "closed"} /\ session[c] \in {"added", "listed"}
            ~> session[c] = "none" \/ world = "stopped"
=============================================================================
