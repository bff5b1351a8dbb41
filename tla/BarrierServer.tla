--------------------------- MODULE BarrierServer ---------------------------
(***************************************************************************)
(* The host-side two-party barrier of the 2-client/1-server runner (class  *)
(* BarrierServer of scripts/legofs_type3_3node.py).  One thread accepts    *)
(* connections, one handler thread per connection reads a request          *)
(* "<barrier> <client>", and the handler of the second arrival sends "GO"  *)
(* to both parties.  The runner's own thread closes the server while any   *)
(* of them may still be running.                                           *)
(*                                                                         *)
(* A step of a handler is what it does between two points where another    *)
(* thread can get in: a blocking socket call, or the lock.  The peers, the *)
(* benchmark processes in the guests, are external: a peer connects, sends *)
(* one request and half-closes, or is gone at any moment.                  *)
(***************************************************************************)
EXTENDS Integers, Sequences, FiniteSets

CONSTANTS
    Connections,  \* the connections that can ever be made
    Expected,     \* expected_set, the names of the barriers
    Other,        \* a barrier name that is not expected
    Malformed,    \* a request that does not parse (size, encoding, fields)
    Nobody,       \* not a connection
    MaxLoad       \* bound: connections made, an unusable one counted twice

ASSUME BarrierAssumption ==
    /\ Expected # {}
    /\ Other \notin Expected
    /\ {Nobody, "accepting", "ended"} \cap Connections = {}
    /\ MaxLoad \in Nat
    /\ Malformed \notin (Expected \cup {Other}) \X {0, 1}

Clients == {0, 1}
Requests == (Expected \X Clients) \cup {<<Other, 0>>, Malformed}

VARIABLES
    peer,       \* per connection: "unused", "there" or "gone"
    request,    \* per connection: what its peer sends
    acceptor,   \* the accept thread: "accepting", "ended", or the connection it holds
    handler,    \* per connection: where its handler thread is
    pair,       \* per connection: the two sockets its handler is releasing
    arrivals,   \* per barrier and client: the retained connection, or Nobody
    completed,  \* the completed barriers, in order
    errors,     \* who has put an entry into the errors list
    active,     \* active_connections
    retained,   \* the connections whose handler set its local "retained"
    failed,     \* the handlers with a nonempty send_errors
    released,   \* the connections "GO" was sent on
    closed,     \* the sockets closed on this side
    stopping,   \* stop_event
    closer,     \* the runner's thread in close()
    toClose,    \* the connections close() collected
    late        \* history: the connections registered after that

acceptVars == <<acceptor, stopping>>
tableVars == <<arrivals, completed, retained, pair>>
sendVars == <<failed, released>>
closeVars == <<closer, toClose, late>>
vars == <<peer, request, acceptVars, handler, tableVars, errors, active,
          sendVars, closed, closeVars>>

Init ==
    /\ peer = [k \in Connections |-> "unused"]
    /\ request = [k \in Connections |-> Malformed]
    /\ acceptor = "accepting"
    /\ handler = [k \in Connections |-> "none"]
    /\ pair = [k \in Connections |-> <<>>]
    /\ arrivals = [b \in Expected |-> [c \in Clients |-> Nobody]]
    /\ completed = <<>>
    /\ errors = {}
    /\ active = {}
    /\ retained = {}
    /\ failed = {}
    /\ released = {}
    /\ closed = {}
    /\ stopping = FALSE
    /\ closer = "serving"
    /\ toClose = {} /\ late = {}

Completed == { completed[i] : i \in 1 .. Len(completed) }

-----------------------------------------------------------------------------
(* The peers (external).                                                   *)

(* A peer that is gone or whose request is unusable.                        *)
Bad == { k \in Connections :
           \/ peer[k] = "gone"
           \/ peer[k] # "unused" /\ request[k] \in {<<Other, 0>>, Malformed} }
Used == { k \in Connections : peer[k] # "unused" }
WithinLoad == Cardinality(Used) + Cardinality(Bad) <= MaxLoad

Connect(k, r) ==
    /\ peer[k] = "unused"
    /\ closer \in {"serving", "stopping"}
    /\ peer' = [peer EXCEPT ![k] = "there"]
    /\ request' = [request EXCEPT ![k] = r]
    /\ WithinLoad'
    /\ UNCHANGED <<acceptVars, handler, tableVars, errors, active, sendVars,
                   closed, closeVars>>

(* The peer has died, or does not send its request within the ten seconds   *)
(* its handler waits.                                                       *)
PeerGone(k) ==
    /\ peer[k] = "there"
    /\ peer' = [peer EXCEPT ![k] = "gone"]
    /\ UNCHANGED request
    /\ WithinLoad'
    /\ UNCHANGED <<acceptVars, handler, tableVars, errors, active,
                   sendVars, closed, closeVars>>

-----------------------------------------------------------------------------
(* The accept thread.  Between accept() and the lock it holds a connection *)
(* that no table knows of.                                                 *)

Accept(k) ==
    /\ acceptor = "accepting"
    /\ closer \in {"serving", "stopping"}
    /\ peer[k] # "unused" /\ handler[k] = "none"
    /\ acceptor' = k
    /\ handler' = [handler EXCEPT ![k] = "accepted"]
    /\ UNCHANGED <<peer, request, stopping, tableVars, errors, active, sendVars,
                   closed, closeVars>>

Register(k) ==
    /\ acceptor = k
    /\ active' = active \cup {k}
    /\ handler' = [handler EXCEPT ![k] = "receiving"]
    /\ acceptor' = IF stopping THEN "ended" ELSE "accepting"
    /\ late' = IF closer \in {"closing", "returned"} THEN late \cup {k} ELSE late
    /\ UNCHANGED <<peer, request, stopping, tableVars, errors, sendVars, closed,
                   closer, toClose>>

(* The loop ends when it sees stop_event; before that an OSError of the     *)
(* listening socket is recorded and ends it too.                            *)
AcceptorEnds ==
    /\ acceptor = "accepting"
    /\ acceptor' = "ended"
    /\ errors' = IF stopping THEN errors ELSE errors \cup {"accept"}
    /\ UNCHANGED <<peer, request, stopping, handler, tableVars, active, sendVars,
                   closed, closeVars>>

-----------------------------------------------------------------------------
(* A handler thread.                                                       *)

Goto(k, place) == handler' = [handler EXCEPT ![k] = place]

(* recv returns the peer's whole request up to its half-close; one that was *)
(* under way when close() closed the socket may still do so.                *)
Receive(k) ==
    /\ handler[k] = "receiving"
    /\ peer[k] = "there"
    /\ IF request[k] = Malformed
       THEN Goto(k, "final") /\ errors' = errors \cup {k}
       ELSE Goto(k, "arriving") /\ UNCHANGED errors
    /\ UNCHANGED <<peer, request, acceptVars, tableVars, active, sendVars,
                   closed, closeVars>>

(* recv fails or returns a truncated request: the peer is gone, or close()  *)
(* has closed the socket.                                                   *)
ReceiveFails(k) ==
    /\ handler[k] = "receiving"
    /\ peer[k] = "gone" \/ k \in closed
    /\ Goto(k, "final")
    /\ errors' = errors \cup {k}
    /\ UNCHANGED <<peer, request, acceptVars, tableVars, active, sendVars,
                   closed, closeVars>>

(* Mutant: a completed barrier can be used again.                           *)
RefusedWhileWaiting(b, c) == b \in Expected => arrivals[b][c] # Nobody

Refused(b, c) ==
    b \in Expected => (b \in Completed \/ arrivals[b][c] # Nobody)

(* The section under the lock.                                              *)
Arrive(k) ==
    LET b == request[k][1]
        c == request[k][2]
        other == arrivals[b][1 - c]
    IN  /\ handler[k] = "arriving"
        /\ \/ /\ Refused(b, c)
              /\ errors' = errors \cup {k}
              /\ Goto(k, "final")
              /\ UNCHANGED tableVars
           \/ /\ ~Refused(b, c)
              /\ retained' = retained \cup {k}
              /\ IF other = Nobody
                 THEN /\ arrivals' = [arrivals EXCEPT ![b][c] = k]
                      /\ Goto(k, "final")
                      /\ UNCHANGED <<completed, pair>>
                 ELSE /\ arrivals' = [arrivals EXCEPT ![b][1 - c] = Nobody]
                      /\ completed' = Append(completed, b)
                      /\ pair' = [pair EXCEPT ![k] =
                                    IF c = 0 THEN <<k, other>> ELSE <<other, k>>]
                      /\ Goto(k, "releasing0")
              /\ UNCHANGED errors
        /\ UNCHANGED <<peer, request, acceptVars, active, sendVars, closed,
                       closeVars>>

(* Mutant: send errors are dropped.                                         *)
ReleaseErrorsDropped(k, last) == errors
(* Mutant: the handler closes nothing.                                      *)
CloseNothing(k) == closed

ReleaseErrors(k, last) == IF last /\ k \in failed' THEN errors \cup {k} ELSE errors
CloseAfterSend(target) == closed \cup {target}
CloseUnlessRetained(k) == IF k \in retained THEN closed ELSE closed \cup {k}

(* One turn of the release loop: sendall succeeds on a socket that is open  *)
(* here, fails on one that close() has closed, and may do either when the   *)
(* peer is gone.  The socket is closed whatever sendall did, and a failure  *)
(* is recorded after the second turn.                                       *)
Release(k, i) ==
    LET target == pair[k][i + 1]
        last == i = 1
    IN  /\ handler[k] = IF last THEN "releasing1" ELSE "releasing0"
        /\ \E ok \in BOOLEAN :
             /\ ok => target \notin closed
             /\ ~ok => target \in closed \/ peer[target] = "gone"
             /\ released' = IF ok THEN released \cup {target} ELSE released
             /\ failed' = IF ok THEN failed ELSE failed \cup {k}
        /\ closed' = CloseAfterSend(target)
        /\ errors' = ReleaseErrors(k, last)
        /\ Goto(k, IF last THEN "final" ELSE "releasing1")
        /\ UNCHANGED <<peer, request, acceptVars, tableVars, active, closeVars>>

Finally(k) ==
    /\ handler[k] = "final"
    /\ Goto(k, "done")
    /\ active' = active \ {k}
    /\ closed' = CloseUnlessRetained(k)
    /\ UNCHANGED <<peer, request, acceptVars, tableVars, errors, sendVars,
                   closeVars>>

-----------------------------------------------------------------------------
(* close(), called by the runner's thread.                                 *)

Waiting == (UNION { { arrivals[b][c] : c \in Clients } : b \in Expected }) \ {Nobody}

Collected == active \cup Waiting

Stop ==
    /\ closer = "serving"
    /\ closer' = "stopping"
    /\ stopping' = TRUE
    /\ UNCHANGED <<peer, request, acceptor, handler, tableVars, errors, active,
                   sendVars, closed, toClose, late>>

CloseListener ==
    /\ closer = "stopping"
    /\ closer' = "collecting"
    /\ UNCHANGED <<peer, request, acceptVars, handler, tableVars, errors, active,
                   sendVars, closed, toClose, late>>

Collect ==
    /\ closer = "collecting"
    /\ closer' = "closing"
    /\ toClose' = Collected
    /\ UNCHANGED <<peer, request, acceptVars, handler, tableVars, errors, active,
                   sendVars, closed, late>>

CloseConnection(k) ==
    /\ closer = "closing" /\ k \in toClose
    /\ closed' = closed \cup {k}
    /\ toClose' = toClose \ {k}
    /\ UNCHANGED <<peer, request, acceptVars, handler, tableVars, errors, active,
                   sendVars, closer, late>>

(* The joins have timeouts, so close() returns whatever the threads do.     *)
CloseReturns ==
    /\ closer = "closing" /\ toClose = {}
    /\ closer' = "returned"
    /\ UNCHANGED <<peer, request, acceptVars, handler, tableVars, errors, active,
                   sendVars, closed, toClose, late>>

-----------------------------------------------------------------------------
Handle(k) ==
    \/ Receive(k)
    \/ ReceiveFails(k)
    \/ Arrive(k)
    \/ \E i \in {0, 1} : Release(k, i)
    \/ Finally(k)

Close ==
    \/ Stop
    \/ CloseListener
    \/ Collect
    \/ \E k \in Connections : CloseConnection(k)
    \/ CloseReturns

Next ==
    \/ \E k \in Connections :
         \/ \E r \in Requests : Connect(k, r)
         \/ PeerGone(k)
         \/ Accept(k)
         \/ Register(k)
         \/ Handle(k)
    \/ AcceptorEnds
    \/ Close

Spec == Init /\ [][Next]_vars

-----------------------------------------------------------------------------
(* snapshot() and assert_complete(), as the runner's thread sees them.     *)
AssertComplete ==
    /\ errors = {}
    /\ Completed = Expected
    /\ Waiting = {}

-----------------------------------------------------------------------------
(* Properties.                                                             *)

(* A party is told to go only for a barrier at which the other party has    *)
(* arrived too, and a party of a barrier is told at most once, whatever     *)
(* requests are repeated and however their handlers interleave: _handle's   *)
(* test, table update and completion are one critical section.              *)
OneReleasePerParty ==
    \A k \in released :
        LET b == request[k][1]
            c == request[k][2]
        IN  /\ \E j \in retained : request[j] = <<b, 1 - c>>
            /\ \A j \in released : request[j] = request[k] => j = k

(* When no handler is at work, a verdict of assert_complete means what it   *)
(* says: GO went out to both parties of every barrier, and no connection    *)
(* was refused, truncated or lost on the way.                               *)
Quiet == \A k \in Connections : handler[k] \in {"none", "done"}
VerdictIsTruthful ==
    (Quiet /\ AssertComplete) =>
        /\ \A b \in Expected, c \in Clients :
             \E k \in released : request[k] = <<b, c>>
        /\ \A k \in Connections : handler[k] = "done" => k \in released

(* No socket is forgotten: when a handler has ended, its connection is      *)
(* closed, or it waits in the arrivals table, or the handler of the other   *)
(* party is about to send on it.  Once close() has returned, a waiting      *)
(* connection is closed too, except for one: the connection that accept()   *)
(* had returned and _accept registered after close() copied the tables.  It *)
(* stays open when it is the first to arrive at its barrier.                *)
NoSocketForgotten ==
    /\ \A k \in Connections :
         handler[k] = "done" =>
             \/ k \in closed
             \/ k \in Waiting
             \/ \E j \in Connections :
                  /\ handler[j] \in {"releasing0", "releasing1"}
                  /\ k \in {pair[j][1], pair[j][2]}
    /\ closer = "returned" => Waiting \ closed \subseteq late
    /\ \A j, k \in late : j = k
=============================================================================
