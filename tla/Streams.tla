------------------------------- MODULE Streams -------------------------------
(***************************************************************************)
(* TCP and UDP stream routes: StreamRoute (internal/route/stream.go),       *)
(* TCPTCPStream and UDPUDPStream (internal/route/stream).                   *)
(*                                                                          *)
(* A UDP client has one connection to the destination, kept in conns and    *)
(* found by its address; a packet is handled by a goroutine of its own that *)
(* holds s.mu while it makes a connection.  Time is a choice: the read      *)
(* deadline (30 s) and the idle timeout (5 min) may have passed at any      *)
(* step, the latter only when the reader of the connection has given up,    *)
(* since its deadline is the shorter one.                                   *)
(***************************************************************************)
EXTENDS Naturals, Sequences, FiniteSets

CONSTANTS
    SClients,    \* client addresses
    SPackets     \* packets, or accepted connections

VARIABLES
    sProto,    \* "tcp" or "udp"
    sStage,    \* "new", "error", "excluded", "open", "panic"
    sPool,     \* the route is in routes.Stream
    sCtx,      \* the task of the route was cancelled
    sClosing,  \* where Close is: "no", "lock", "conns", "listener", "done"
    sListener, \* the socket of the stream is open
    sLoop,     \* listen: "off", "read", "done"
    sMu,       \* who holds s.mu: a packet, "close", "clean" or "free"
    pkt,       \* each packet: [at, client, conn]
    conns,     \* s.conns: a client to its connection, 0 for none
    conn,      \* every connection made: [client, closed, reader, expired]
    clean,     \* cleanUp: [at, snap, gone]
    tcpAt      \* each accepted TCP connection

sVars == <<sProto, sStage, sPool, sCtx, sClosing, sListener, sLoop, sMu, pkt, conns, conn, clean, tcpAt>>
udpVars == <<sMu, pkt, conns, conn, clean>>

NoClean == [at |-> "wait", snap |-> {}, gone |-> {}]
Fresh == [at |-> "none", client |-> "none", conn |-> 0]

SInit ==
    /\ sProto \in {"tcp", "udp"}
    /\ sStage = "new" /\ sPool = FALSE /\ sCtx = FALSE
    /\ sClosing = "no" /\ sListener = FALSE /\ sLoop = "off"
    /\ sMu = "free"
    /\ pkt = [p \in SPackets |-> Fresh]
    /\ conns = [c \in SClients |-> 0]
    /\ conn = <<>>
    /\ clean = NoClean
    /\ tcpAt = [p \in SPackets |-> "none"]

-----------------------------------------------------------------------------
(***************************************************************************)
(* StreamRoute                                                              *)
(***************************************************************************)
\* initStream or the idlewatcher fails, or the route is excluded and only its health
\* is checked.
StartNoStream ==
    /\ sStage = "new"
    /\ sStage' \in {"error", "excluded"}
    /\ UNCHANGED <<sProto, sPool, sCtx, sClosing, sListener, sLoop, udpVars, tcpAt>>

\* ListenAndServe, the callbacks, and the pool.
StartListens ==
    /\ sStage = "new"
    /\ sStage' = "open" /\ sPool' = TRUE /\ sListener' = TRUE /\ sLoop' = "read"
    /\ UNCHANGED <<sProto, sCtx, sClosing, udpVars, tcpAt>>

\* The address is in use: the error is logged, and s.listener holds a nil pointer that
\* is not a nil interface, so LocalAddr calls a method of a nil socket.
StartCannotListen ==
    /\ sStage = "new"
    /\ sStage' = "panic"
    /\ UNCHANGED <<sProto, sPool, sCtx, sClosing, sListener, sLoop, udpVars, tcpAt>>

\* The task is cancelled: the callbacks close the stream and take it out of the pool.
CancelStream ==
    /\ sStage = "open" /\ ~sCtx
    /\ sCtx' = TRUE /\ sPool' = FALSE
    /\ sClosing' = IF sProto = "udp" THEN "lock" ELSE "listener"
    /\ UNCHANGED <<sProto, sStage, sListener, sLoop, udpVars, tcpAt>>

\* listener.Close() of TCPTCPStream and UDPUDPStream.
CloseListener ==
    /\ sClosing = "listener"
    /\ sClosing' = "done" /\ sListener' = FALSE
    /\ UNCHANGED <<sProto, sStage, sPool, sCtx, sLoop, udpVars, tcpAt>>

-----------------------------------------------------------------------------
(***************************************************************************)
(* UDPUDPStream                                                             *)
(***************************************************************************)
closed == sClosing # "no"
udpOnly == <<sProto, sStage, sPool, sCtx, sListener, tcpAt>>

\* listen reads a packet and hands it to a goroutine.
UdpRead(p, c) ==
    /\ sProto = "udp" /\ sLoop = "read" /\ sListener
    /\ pkt[p].at = "none"
    /\ pkt' = [pkt EXCEPT ![p] = [at |-> "lookup", client |-> c, conn |-> 0]]
    /\ sLoop' = IF sCtx THEN "done" ELSE "read"
    /\ UNCHANGED <<udpOnly, sClosing, sMu, conns, conn, clean>>

\* The read fails once the socket is closed.
ReadFails ==
    /\ sLoop = "read" /\ ~sListener /\ closed
    /\ sLoop' = "done"
    /\ UNCHANGED <<udpOnly, sClosing, udpVars>>

\* getOrCreateConnection: a known client's packet is forwarded without the lock, for
\* another one the lock is kept.
Lookup(p) ==
    /\ pkt[p].at = "lookup" /\ sMu = "free"
    /\ LET k == conns[pkt[p].client] IN
       \/ /\ k # 0
          /\ pkt' = [pkt EXCEPT ![p].at = "forward", ![p].conn = k]
          /\ UNCHANGED sMu
       \/ /\ k = 0
          /\ pkt' = [pkt EXCEPT ![p].at = "create"]
          /\ sMu' = p
    /\ UNCHANGED <<udpOnly, sClosing, sLoop, conns, conn, clean>>

\* createConnection fails: the hook, the dial, or the first packet; the socket is
\* closed.
CreateFails(p) ==
    /\ pkt[p].at = "create"
    /\ pkt' = [pkt EXCEPT ![p].at = "dropped"]
    /\ sMu' = "free"
    /\ UNCHANGED <<udpOnly, sClosing, sLoop, conns, conn, clean>>

\* The first packet is sent and handleResponses is started.
CreateConnection(p) ==
    /\ pkt[p].at = "create"
    /\ conn' = Append(conn, [client |-> pkt[p].client, closed |-> FALSE, reader |-> "loop", expired |-> FALSE])
    /\ pkt' = [pkt EXCEPT ![p].at = "store", ![p].conn = Len(conn) + 1]
    /\ UNCHANGED <<udpOnly, sClosing, sLoop, sMu, conns, clean>>

\* Mutant: the connection is not stored.
StoreNothing(p) ==
    /\ pkt[p].at = "store"
    /\ pkt' = [pkt EXCEPT ![p].at = "sent"]
    /\ sMu' = "free"
    /\ UNCHANGED <<udpOnly, sClosing, sLoop, conn, conns, clean>>

\* if ok && !conn.closed.Load() { s.conns[key] = conn }
Store(p) ==
    /\ pkt[p].at = "store"
    /\ conns' = IF conn[pkt[p].conn].closed THEN conns
                ELSE [conns EXCEPT ![pkt[p].client] = pkt[p].conn]
    /\ pkt' = [pkt EXCEPT ![p].at = "sent"]
    /\ sMu' = "free"
    /\ UNCHANGED <<udpOnly, sClosing, sLoop, conn, clean>>

\* forwardToDestination: nothing is sent on a closed connection, or the write fails.
Forward(p) ==
    /\ pkt[p].at = "forward"
    /\ LET k == pkt[p].conn IN
       \/ /\ ~conn[k].closed
          /\ pkt' = [pkt EXCEPT ![p].at = "sent"]
       \/ pkt' = [pkt EXCEPT ![p].at = "dropped"]
    /\ UNCHANGED <<udpOnly, sClosing, sLoop, sMu, conns, conn, clean>>

CloseConn(k) == [conn EXCEPT ![k].closed = TRUE]

\* Mutant: the reader does not close what it leaves.
ReaderEndsOpen(k) ==
    /\ conn[k].reader = "loop"
    /\ conn' = [conn EXCEPT ![k].reader = "done"]
    /\ UNCHANGED <<udpOnly, sClosing, sLoop, sMu, pkt, conns, clean>>

\* The reader ends, with the deadline, an error, the context or a closed connection,
\* and closes the connection.
ReaderEnds(k) ==
    /\ conn[k].reader = "loop"
    /\ conn' = [CloseConn(k) EXCEPT ![k].reader = "done"]
    /\ UNCHANGED <<udpOnly, sClosing, sLoop, sMu, pkt, conns, clean>>

\* Close by another goroutine sets dstConn to nil under a lock the reader does not take:
\* a reader that has just seen the connection open calls a method of a nil socket.
ReaderPanics(k) ==
    /\ conn[k].reader = "loop" /\ conn[k].closed
    /\ sStage' = "panic"
    /\ UNCHANGED <<sProto, sPool, sCtx, sListener, tcpAt, sClosing, sLoop, udpVars>>

\* Five minutes without a packet.
Expire(k) ==
    /\ conn[k].reader = "done" /\ ~conn[k].expired
    /\ conn' = [conn EXCEPT ![k].expired = TRUE]
    /\ UNCHANGED <<udpOnly, sClosing, sLoop, sMu, pkt, conns, clean>>

\* A tick of cleanUp: the map is copied under the lock.
CleanSnapshot ==
    /\ sProto = "udp" /\ sStage = "open" /\ ~sCtx
    /\ clean.at = "wait" /\ sMu = "free"
    /\ \E c \in SClients : conns[c] # 0
    /\ clean' = [at |-> "close", snap |-> {<<c, conns[c]>> : c \in {c \in SClients : conns[c] # 0}},
                 gone |-> {}]
    /\ UNCHANGED <<udpOnly, sClosing, sLoop, sMu, pkt, conns, conn>>

\* Expired ones are closed without the lock, one after the other.
CleanClose ==
    /\ clean.at = "close"
    /\ \E s \in clean.snap :
          LET old == conn[s[2]].expired
          IN  /\ clean' = [clean EXCEPT !.snap = @ \ {s}, !.gone = IF old THEN @ \cup {s[1]} ELSE @]
              /\ conn' = IF old THEN CloseConn(s[2]) ELSE conn
    /\ UNCHANGED <<udpOnly, sClosing, sLoop, sMu, pkt, conns>>

\* Mutant: connections are closed and stay in the map.
CleanDeleteNothing ==
    /\ clean.at = "close" /\ clean.snap = {} /\ sMu = "free"
    /\ clean' = NoClean
    /\ UNCHANGED <<udpOnly, sClosing, sLoop, sMu, pkt, conn, conns>>

\* They are deleted under the lock.
CleanDelete ==
    /\ clean.at = "close" /\ clean.snap = {} /\ sMu = "free"
    /\ conns' = [c \in SClients |-> IF c \in clean.gone THEN 0 ELSE conns[c]]
    /\ clean' = NoClean
    /\ UNCHANGED <<udpOnly, sClosing, sLoop, sMu, pkt, conn>>

\* UDPUDPStream.Close: with the lock every connection is handed to a goroutine that
\* closes it, and the map is cleared.
CloseClear ==
    /\ sClosing = "lock" /\ sMu = "free"
    /\ conn' = [k \in DOMAIN conn |->
                  IF \E c \in SClients : conns[c] = k THEN [conn[k] EXCEPT !.closed = TRUE] ELSE conn[k]]
    /\ conns' = [c \in SClients |-> 0]
    /\ sClosing' = "listener"
    /\ UNCHANGED <<udpOnly, sLoop, sMu, pkt, clean>>

-----------------------------------------------------------------------------
(***************************************************************************)
(* TCPTCPStream                                                             *)
(***************************************************************************)
tcpOnly == <<sProto, sStage, sPool, sCtx, sClosing, sListener, udpVars>>

\* listen accepts.  A failing onRead goes on to the next connection and leaves this
\* one as it is.
Accept(p) ==
    /\ sProto = "tcp" /\ sLoop = "read" /\ sListener
    /\ tcpAt[p] = "none"
    /\ \E next \in {"hook", "left"} : tcpAt' = [tcpAt EXCEPT ![p] = next]
    /\ sLoop' = IF sCtx THEN "done" ELSE "read"
    /\ UNCHANGED tcpOnly

\* handle: preDial and dial; a stream that is closed, or an error, ends it.
Dial(p) ==
    /\ tcpAt[p] = "hook"
    /\ \/ tcpAt' = [tcpAt EXCEPT ![p] = "closed"]
       \/ ~closed /\ tcpAt' = [tcpAt EXCEPT ![p] = "dialled"]
    /\ UNCHANGED <<tcpOnly, sLoop>>

\* The second check of closed, and the pipe, which ends with either side or with the
\* context.
Pipe(p) ==
    /\ tcpAt[p] \in {"dialled", "pipe"}
    /\ \/ tcpAt[p] = "dialled" /\ ~closed /\ tcpAt' = [tcpAt EXCEPT ![p] = "pipe"]
       \/ tcpAt' = [tcpAt EXCEPT ![p] = "closed"]
    /\ UNCHANGED <<tcpOnly, sLoop>>

SStep ==
    \/ StartNoStream \/ StartListens \/ StartCannotListen \/ CancelStream \/ CloseListener
    \/ ReadFails \/ CleanSnapshot \/ CleanClose \/ CleanDelete \/ CloseClear
    \/ \E p \in SPackets : \/ \E c \in SClients : UdpRead(p, c)
                           \/ Lookup(p) \/ CreateFails(p) \/ CreateConnection(p) \/ Store(p) \/ Forward(p)
                           \/ Accept(p) \/ Dial(p) \/ Pipe(p)
    \/ \E k \in DOMAIN conn : ReaderEnds(k) \/ ReaderPanics(k) \/ Expire(k)

\* A panic ends the process.
SNext == sStage # "panic" /\ SStep

\* Goroutines run, sockets and the ticker are served, a dial ends; a reader or a pipe
\* ends for sure once its connection or the context is gone.
SFair ==
    /\ \A p \in SPackets :
          /\ WF_sVars(sStage # "panic"
                      /\ (Lookup(p) \/ CreateFails(p) \/ CreateConnection(p) \/ Store(p)))
          /\ WF_sVars(sStage # "panic" /\ (Dial(p) \/ (sCtx /\ Pipe(p))))
    /\ \A k \in 1..Cardinality(SPackets) :
          WF_sVars(sStage # "panic" /\ k \in DOMAIN conn
                   /\ (((sCtx \/ conn[k].closed) /\ ReaderEnds(k)) \/ Expire(k)))
    /\ WF_sVars(sStage # "panic" /\ (CleanSnapshot \/ CleanClose \/ CleanDelete))
    /\ WF_sVars(sStage # "panic" /\ (CloseClear \/ CloseListener \/ ReadFails))

-----------------------------------------------------------------------------
\* Every open connection of a stream that is not being closed can be found by the
\* address of its client, or is about to be stored: cleanUp and Close miss none.
UdpTracked ==
    \A k \in DOMAIN conn :
        (~conn[k].closed /\ sClosing = "no")
        => \/ conns[conn[k].client] = k
           \/ \E p \in SPackets : pkt[p].at = "store" /\ pkt[p].conn = k

\* A connection that was closed does not swallow the packets of its client for ever:
\* cleanUp takes it out of the map.
UdpStaleEnds ==
    \A c \in SClients :
        (conns[c] # 0 /\ conn[conns[c]].closed)
        ~> (conns[c] = 0 \/ ~conn[conns[c]].closed \/ sCtx \/ sStage = "panic")

\* Once a stream route is cancelled its listener and all its connections end, those
\* included that were made while it was being closed.
StreamEnds ==
    sCtx ~> \/ sStage = "panic"
            \/ /\ ~sListener
               /\ \A k \in DOMAIN conn : conn[k].closed
               /\ \A p \in SPackets : tcpAt[p] \notin {"hook", "dialled", "pipe"}
=============================================================================
