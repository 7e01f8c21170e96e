------------------------------ MODULE NNTPServer ------------------------------
(***************************************************************************)
(* The NNTP server's listeners, connections and shutdown (nntp/server.go): *)
(* goroutines that serve a listener, one goroutine per connection, and     *)
(* goroutines that close the server, after which it may be used again.     *)
(*                                                                         *)
(* What runs between s.mu.Lock and s.mu.Unlock is one step.  A WaitGroup is *)
(* the set of the goroutines that have been added and are not done.        *)
(***************************************************************************)
EXTENDS FiniteSets

CONSTANTS
    Servers,    \* goroutines that call ListenAndServe or Serve
    Listeners,  \* the listeners
    ListenerOf, \* the listener that each of Servers serves
    Conns,      \* the connections there may be at once
    Closers,    \* goroutines that call Close
    NoConn      \* no connection

ASSUME ServerAssumption ==
    /\ ListenerOf \in [Servers -> Listeners]
    /\ NoConn \notin Conns

VARIABLES
    closing,     \* s.closing
    wg,          \* s.wg, the calls of Serve
    cwg,         \* s.cwg, the handlers of connections
    listeners,   \* s.listeners
    connections, \* s.connections
    lopen,       \* the listeners whose socket is open
    copen,       \* the connections whose socket is open
    serve,       \* where each of Servers is
    taken,       \* the connection that each of Servers has accepted
    handler,     \* where the handler of each connection is
    closer       \* where each of Closers is

vars == <<closing, wg, cwg, listeners, connections, lopen, copen, serve, taken, handler, closer>>

-----------------------------------------------------------------------------
(***************************************************************************)
(* ListenAndServe and Serve.                                               *)
(***************************************************************************)

\* net.ListenTCP: a socket of its own, which the server does not know yet.
Listen(t) ==
    /\ serve[t] = "idle"
    /\ ListenerOf[t] \notin lopen \cup listeners
    /\ lopen' = lopen \cup {ListenerOf[t]}
    /\ UNCHANGED <<closing, wg, cwg, listeners, connections, copen, serve, taken, handler, closer>>

\* tryRegister; Serve returns when the server is closing or has the listener.
TryRegister(t) ==
    /\ serve[t] = "idle" /\ ListenerOf[t] \in lopen
    /\ ~closing /\ ListenerOf[t] \notin listeners
    /\ listeners' = listeners \cup {ListenerOf[t]}
    /\ wg' = wg \cup {t}
    /\ serve' = [serve EXCEPT ![t] = "accept"]
    /\ UNCHANGED <<closing, cwg, connections, lopen, copen, taken, handler, closer>>

\* AcceptCW returns a connection.
Accept(t, c) ==
    /\ serve[t] = "accept" /\ ListenerOf[t] \in lopen
    /\ handler[c] = "none" /\ \A u \in Servers : taken[u] # c
    /\ copen' = copen \cup {c}
    /\ taken' = [taken EXCEPT ![t] = c]
    /\ serve' = [serve EXCEPT ![t] = "accepted"]
    /\ UNCHANGED <<closing, wg, cwg, listeners, connections, lopen, handler, closer>>

\* (Wrong variant: the handler enters itself when it gets to run.)
TrackLate(t) ==
    /\ serve[t] = "accepted"
    /\ handler' = [handler EXCEPT ![taken[t]] = "running"]
    /\ taken' = [taken EXCEPT ![t] = NoConn]
    /\ serve' = [serve EXCEPT ![t] = "accept"]
    /\ UNCHANGED <<closing, wg, cwg, listeners, connections, lopen, copen, closer>>

\* registerConnAndWorker, and the handler starts.
Track(t) ==
    /\ serve[t] = "accepted"
    /\ connections' = connections \cup {taken[t]}
    /\ cwg' = cwg \cup {taken[t]}
    /\ handler' = [handler EXCEPT ![taken[t]] = "running"]
    /\ taken' = [taken EXCEPT ![t] = NoConn]
    /\ serve' = [serve EXCEPT ![t] = "accept"]
    /\ UNCHANGED <<closing, wg, listeners, lopen, copen, closer>>

\* AcceptCW fails: for good when the listener is closed.
AcceptFails(t) ==
    /\ serve[t] = "accept"
    /\ serve' = [serve EXCEPT ![t] = "failed"]
    /\ UNCHANGED <<closing, wg, cwg, listeners, connections, lopen, copen, taken, handler, closer>>

\* checkClosing and what follows: when the server is closing the listener is
\* struck off; else a temporary error is waited out and any other ends Serve,
\* with the listener left where it is.
CheckClosing(t) ==
    /\ serve[t] = "failed"
    /\ \/ /\ closing
          /\ listeners' = listeners \ {ListenerOf[t]}
          /\ serve' = [serve EXCEPT ![t] = "leave"]
       \/ /\ ~closing /\ ListenerOf[t] \in lopen
          /\ serve' = [serve EXCEPT ![t] = "accept"]
          /\ UNCHANGED listeners
       \/ /\ ~closing
          /\ serve' = [serve EXCEPT ![t] = "leave"]
          /\ UNCHANGED listeners
    /\ UNCHANGED <<closing, wg, cwg, connections, lopen, copen, taken, handler, closer>>

\* The deferred wg.Done.
ServeReturns(t) ==
    /\ serve[t] = "leave"
    /\ wg' = wg \ {t}
    /\ serve' = [serve EXCEPT ![t] = "idle"]
    /\ UNCHANGED <<closing, cwg, listeners, connections, lopen, copen, taken, handler, closer>>

-----------------------------------------------------------------------------
(***************************************************************************)
(* handleConnection.                                                       *)
(***************************************************************************)

\* The handshake fails or serveClient ends: the client has gone or the socket
\* has been closed.
Finish(c) ==
    /\ handler[c] = "running"
    /\ copen' = copen \ {c}
    /\ handler' = [handler EXCEPT ![c] = "finished"]
    /\ UNCHANGED <<closing, wg, cwg, listeners, connections, lopen, serve, taken, closer>>

\* The deferred unregisterConn, which runs before the cwg.Done that was
\* deferred before it.
UnregisterConn(c) ==
    /\ handler[c] = "finished"
    /\ connections' = connections \ {c}
    /\ handler' = [handler EXCEPT ![c] = "unregistered"]
    /\ UNCHANGED <<closing, wg, cwg, listeners, lopen, copen, serve, taken, closer>>

Done(c) ==
    /\ handler[c] = "unregistered"
    /\ cwg' = cwg \ {c}
    /\ handler' = [handler EXCEPT ![c] = "none"]
    /\ UNCHANGED <<closing, wg, listeners, connections, lopen, copen, serve, taken, closer>>

-----------------------------------------------------------------------------
(***************************************************************************)
(* Close.                                                                  *)
(***************************************************************************)

\* A second call returns at once.
CloseBegin(k) ==
    /\ closer[k] = "idle"
    /\ ~closing
    /\ closing' = TRUE
    /\ lopen' = lopen \ listeners
    /\ closer' = [closer EXCEPT ![k] = "servers"]
    /\ UNCHANGED <<wg, cwg, listeners, connections, copen, serve, taken, handler>>

\* wg.Wait.
ServersGone(k) ==
    /\ closer[k] = "servers" /\ wg = {}
    /\ closer' = [closer EXCEPT ![k] = "kill"]
    /\ UNCHANGED <<closing, wg, cwg, listeners, connections, lopen, copen, serve, taken, handler>>

\* (Wrong variant: leaves the connections to their clients.)
KillNone(k) ==
    /\ closer[k] = "kill"
    /\ closer' = [closer EXCEPT ![k] = "conns"]
    /\ UNCHANGED <<closing, wg, cwg, listeners, connections, lopen, copen, serve, taken, handler>>

\* Every connection on the list is closed.
Kill(k) ==
    /\ closer[k] = "kill"
    /\ copen' = copen \ connections
    /\ closer' = [closer EXCEPT ![k] = "conns"]
    /\ UNCHANGED <<closing, wg, cwg, listeners, connections, lopen, serve, taken, handler>>

\* cwg.Wait.
ConnsGone(k) ==
    /\ closer[k] = "conns" /\ cwg = {}
    /\ closer' = [closer EXCEPT ![k] = "reset"]
    /\ UNCHANGED <<closing, wg, cwg, listeners, connections, lopen, copen, serve, taken, handler>>

\* Close returns true, and the server may be used again.
Reset(k) ==
    /\ closer[k] = "reset"
    /\ closing' = FALSE
    /\ closer' = [closer EXCEPT ![k] = "idle"]
    /\ UNCHANGED <<wg, cwg, listeners, connections, lopen, copen, serve, taken, handler>>

-----------------------------------------------------------------------------

Serving(t) ==
    \/ Listen(t) \/ TryRegister(t) \/ (\E c \in Conns : Accept(t, c))
    \/ Track(t) \/ AcceptFails(t) \/ CheckClosing(t) \/ ServeReturns(t)
Handling(c) == Finish(c) \/ UnregisterConn(c) \/ Done(c)
Closing(k) == CloseBegin(k) \/ ServersGone(k) \/ Kill(k) \/ ConnsGone(k) \/ Reset(k)

Next ==
    \/ \E t \in Servers : Serving(t)
    \/ \E c \in Conns : Handling(c)
    \/ \E k \in Closers : Closing(k)

Init ==
    /\ closing = FALSE
    /\ wg = {} /\ cwg = {}
    /\ listeners = {} /\ connections = {}
    /\ lopen = {} /\ copen = {}
    /\ serve = [t \in Servers |-> "idle"]
    /\ taken = [t \in Servers |-> NoConn]
    /\ handler = [c \in Conns |-> "none"]
    /\ closer = [k \in Closers |-> "idle"]

Spec == Init /\ [][Next]_vars

\* Goroutines that can run do; accepting on a closed socket and serving one
\* comes to an end.  Nobody has to call or to connect, and a client may stay.
ServerFairness ==
    /\ \A t \in Servers : WF_vars(Track(t) \/ CheckClosing(t) \/ ServeReturns(t))
    /\ \A t \in Servers : WF_vars(ListenerOf[t] \notin lopen /\ AcceptFails(t))
    /\ \A c \in Conns : WF_vars(UnregisterConn(c) \/ Done(c))
    /\ \A c \in Conns : WF_vars(c \notin copen /\ Finish(c))
    /\ \A k \in Closers : WF_vars(ServersGone(k) \/ Kill(k) \/ ConnsGone(k) \/ Reset(k))

FairSpec == Spec /\ ServerFairness

-----------------------------------------------------------------------------
(***************************************************************************)
(* Properties.                                                             *)
(***************************************************************************)

\* Every variable keeps its type.
TypeOK ==
    /\ closing \in BOOLEAN
    /\ wg \subseteq Servers /\ cwg \subseteq Conns
    /\ listeners \subseteq Listeners /\ connections \subseteq Conns
    /\ lopen \subseteq Listeners /\ copen \subseteq Conns
    /\ serve \in [Servers -> {"idle", "accept", "accepted", "failed", "leave"}]
    /\ taken \in [Servers -> Conns \cup {NoConn}]
    /\ handler \in [Conns -> {"none", "running", "finished", "unregistered"}]
    /\ closer \in [Closers -> {"idle", "servers", "kill", "conns", "reset"}]

\* When Close is about to return true, nothing of the server runs: no call of
\* Serve, no handler, no open connection and none on the list ("they all should
\* be ded now", "wait for client handlers to finish", server.go:303-317).
AllGone ==
    \A k \in Closers : closer[k] = "reset" =>
        /\ closing
        /\ \A t \in Servers : serve[t] = "idle"
        /\ \A c \in Conns : handler[c] = "none"
        /\ connections = {} /\ copen = {}

\* A WaitGroup that somebody waits for is never added to: the calls of Serve
\* that Close waits for were all there when it began, and the handlers were all
\* there when the last call of Serve had gone.
NoAddDuringWait ==
    [][\A k \in Closers :
          /\ closer[k] = "servers" => wg' \subseteq wg
          /\ closer[k] \in {"kill", "conns"} => cwg' \subseteq cwg]_vars

\* Close returns: whatever the clients do, the server is not closing for ever.
CloseReturns == closing ~> ~closing
=============================================================================
