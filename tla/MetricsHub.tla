------------------------------ MODULE MetricsHub ------------------------------
(***************************************************************************)
(* The metrics collector and the WebSocket hub that streams its alerts     *)
(* (core/metrics_collector.py, core/websocket_service.py,                  *)
(* api/routes/monitoring.py).                                              *)
(*                                                                         *)
(* Everything runs on one event loop, so a step is what a coroutine does   *)
(* between two awaits.  The connected clients are a dictionary, and every  *)
(* broadcast is a loop over it that awaits inside: the model keeps the     *)
(* entries of the dictionary in order, with holes where a client left,     *)
(* because that is what an iterator in the middle of the loop sees.        *)
(***************************************************************************)
EXTENDS Integers, Sequences, FiniteSets

CONSTANTS
    Clients,        \* the WebSocket connections, each with an id of its own
    Unreliable,     \* those of them that may go mute or vanish
    Broadcasts,     \* the alerts and status messages that are broadcast
    MaxClients,     \* max_clients of the hub
    Handshakes,     \* bound on the handshakes in flight at a time
    HubStops        \* bound on the number of calls of /stop

ASSUME HubAssumption ==
    Unreliable \subseteq Clients /\ MaxClients \in Nat \ {0}
    /\ Handshakes \in Nat /\ HubStops \in Nat
    /\ "hole" \notin Clients /\ "ping" \notin Broadcasts

VARIABLES
    hub,            \* is_running of the collector and of the hub
    callbacks,      \* how many times _on_alert is in alert_callbacks
    hubStops,       \* how often /stop was called
    entries,        \* the dictionary of clients: ids in order, and holes
    active,         \* stats['active_connections']
    handler,        \* where handle_client_connection of each client is
    peer,           \* what each client does: it pings, its last_ping is older
                    \* than client_timeout, or it is gone and sends to it fail
    inactive,       \* clients whose is_active is False
    subscribed,     \* clients subscribed to the stream of the broadcasts
    loops,          \* the loops over the dictionary, see LoopType
    received        \* how often each client was sent each broadcast

hubServices == <<hub, callbacks, hubStops>>
dict     == <<entries, active, inactive>>
conns    == <<handler, peer, subscribed>>
hubVars  == <<hubServices, dict, conns, loops, received>>

-----------------------------------------------------------------------------
Hole == "hole"
Loops == Broadcasts \cup {"ping"}   \* a loop each, and one of the ping worker

Members == {entries[i] : i \in DOMAIN entries} \ {Hole}

\* One loop: where it is, the position and the size its iterator remembers, the
\* clients to disconnect at the end (ping), the callbacks already called, whose
\* coroutine it is, and two histories that only a property reads: the clients
\* it owes the message, and whether a client joined meanwhile.
LoopType == [pc : {"idle", "storing", "loop", "ended", "aborted"},
             pos : Nat, size : Nat, late : SUBSET Clients, called : Nat,
             by : {"collector", "route", "hub"}, owed : SUBSET Clients, joined : BOOLEAN]

NoLoop == [pc |-> "idle", pos |-> 0, size |-> 0, late |-> {}, called |-> 0,
           by |-> "route", owed |-> {}, joined |-> FALSE]

Over(pc) == [NoLoop EXCEPT !.pc = pc]

Looping == {l \in Loops : loops[l].pc = "loop"}

\* The first request that needs them has created and started both services.
HubInit ==
    /\ hub = TRUE /\ callbacks = 1 /\ hubStops = 0
    /\ entries = <<>> /\ active = 0 /\ inactive = {}
    /\ handler = [c \in Clients |-> "new"]
    /\ peer = [c \in Clients |-> "pings"]
    /\ subscribed = {}
    /\ loops = [l \in Loops |-> NoLoop]
    /\ received = [c \in Clients |-> [b \in Broadcasts |-> 0]]

-----------------------------------------------------------------------------
(* The dictionary.  An insertion appends, and compacts the entries first   *)
(* when the table is resized; a removal leaves a hole, which matters to    *)
(* nobody but a loop.                                                      *)

\* The entries in their order, without those of S and the holes.
Kept(S) == {i \in DOMAIN entries : entries[i] \notin S \cup {Hole}}
Rank(K, i) == Cardinality({j \in K : j <= i})
Compact(S) == [n \in 1 .. Cardinality(Kept(S)) |->
                 entries[CHOOSE i \in Kept(S) : Rank(Kept(S), i) = n]]

Insert(c) ==
    /\ \E e \in {entries, Compact({})} : entries' = Append(e, c)
    /\ loops' = [l \in Loops |-> [loops[l] EXCEPT !.joined = @ \/ l \in Looping \ {"ping"}]]

\* Fault for Disconnect: a client is counted out each time somebody disconnects it.
DisconnectCountsAgain(S) ==
    /\ entries' = IF Looping = {} THEN Compact(S)
                  ELSE [i \in DOMAIN entries |-> IF entries[i] \in S THEN Hole ELSE entries[i]]
    /\ active' = active - Cardinality(S)
    /\ inactive' = inactive \ S
    /\ peer' = [c \in Clients |-> IF c \in S THEN "pings" ELSE peer[c]]
    /\ subscribed' = subscribed \ S

\* _disconnect_client for each client of S: it takes the client out and counts
\* it once.  The socket is not closed, the test on client_state is never true: the
\* handler goes on serving a client that no broadcast reaches any more.
Disconnect(S) ==
    /\ entries' = IF Looping = {} THEN Compact(S)
                  ELSE [i \in DOMAIN entries |-> IF entries[i] \in S THEN Hole ELSE entries[i]]
    /\ active' = active - Cardinality(S \cap Members)
    /\ inactive' = inactive \ S
    /\ peer' = [c \in Clients |-> IF c \in S THEN "pings" ELSE peer[c]]
    /\ subscribed' = subscribed \ S

\* A loop over the dictionary begins, unless the dictionary is empty.
Started(loop) == [loop EXCEPT !.pc = IF Members = {} THEN "ended" ELSE "loop",
                              !.pos = 0, !.size = Cardinality(Members), !.late = {},
                              !.owed = subscribed, !.joined = FALSE]

-----------------------------------------------------------------------------
(* /start and /stop start and stop the collector and the hub.  None of it  *)
(* suspends.                                                               *)

StartMonitoring ==
    /\ ~hub
    /\ hub' = TRUE
    /\ callbacks' = callbacks + 1
    /\ UNCHANGED <<hubStops, dict, conns, loops, received>>

\* stop() of the hub disconnects the clients and takes its callback out; the
\* workers of both are cancelled, and with them what they broadcast.
Cancelled(l) == l = "ping" \/ loops[l].by \in {"collector", "hub"}

\* Fault for StopMonitoring: the callback stays, and the next start adds another.
StopKeepsCallback ==
    /\ hub
    /\ hubStops < HubStops
    /\ hubStops' = hubStops + 1
    /\ hub' = FALSE
    /\ Disconnect(Members)
    /\ loops' = [l \in Loops |-> IF ~Cancelled(l) THEN loops[l]
                                 ELSE IF l = "ping" THEN NoLoop ELSE Over("aborted")]
    /\ UNCHANGED <<callbacks, handler, received>>

StopMonitoring ==
    /\ hub
    /\ hubStops < HubStops
    /\ hubStops' = hubStops + 1
    /\ hub' = FALSE
    /\ Disconnect(Members)
    /\ callbacks' = IF callbacks > 0 THEN callbacks - 1 ELSE 0
    /\ loops' = [l \in Loops |-> IF ~Cancelled(l) THEN loops[l]
                                 ELSE IF l = "ping" THEN NoLoop ELSE Over("aborted")]
    /\ UNCHANGED <<handler, received>>

-----------------------------------------------------------------------------
(* The handler of one connection.                                          *)

Accepting == {c \in Clients : handler[c] = "accepting"}

\* Fault for Connect: one client more than the limit.
ConnectOneMore(c) ==
    /\ handler[c] = "new"
    /\ Cardinality(Accepting) < Handshakes
    /\ handler' = [handler EXCEPT ![c] =
                     IF Cardinality(Members) > MaxClients THEN "done" ELSE "accepting"]
    /\ UNCHANGED <<hubServices, dict, peer, subscribed, loops, received>>

\* The limit is looked at before the handshake is awaited.
Connect(c) ==
    /\ handler[c] = "new"
    /\ Cardinality(Accepting) < Handshakes
    /\ handler' = [handler EXCEPT ![c] =
                     IF Cardinality(Members) >= MaxClients THEN "done" ELSE "accepting"]
    /\ UNCHANGED <<hubServices, dict, peer, subscribed, loops, received>>

\* The handshake is over: the client is registered and the welcome is sent.
Accepted(c) ==
    /\ handler[c] = "accepting"
    /\ Insert(c)
    /\ active' = active + 1
    /\ handler' = [handler EXCEPT ![c] = "serving"]
    /\ UNCHANGED <<hubServices, inactive, peer, subscribed, received>>

\* The handshake fails.
Refused(c) ==
    /\ handler[c] = "accepting"
    /\ handler' = [handler EXCEPT ![c] = "done"]
    /\ UNCHANGED <<hubServices, dict, peer, subscribed, loops, received>>

\* A message of the client: it subscribes, unsubscribes or pings.
Message(c) ==
    /\ hub
    /\ c \in Members /\ peer[c] # "gone"
    /\ \/ subscribed' = subscribed \cup {c} /\ UNCHANGED <<peer, loops>>
       \/ /\ subscribed' = subscribed \ {c}
          /\ loops' = [l \in Loops |-> [loops[l] EXCEPT !.owed = @ \ {c}]]
          /\ UNCHANGED peer
       \/ peer' = [peer EXCEPT ![c] = "pings"] /\ UNCHANGED <<subscribed, loops>>
    /\ UNCHANGED <<hubServices, dict, handler, received>>

\* The handler ends, at a disconnection, an error, or at the test of its loop,
\* and its finally takes the client out, which a worker may have done already.
Leave(c) ==
    /\ handler[c] = "serving"
    /\ Disconnect({c})
    /\ handler' = [handler EXCEPT ![c] = "done"]
    /\ UNCHANGED <<hubServices, loops, received>>

\* The client goes mute: its last ping gets older than the timeout.  Or it is
\* gone without having closed the connection.
Fade(c) ==
    /\ c \in Unreliable
    /\ c \in Members /\ peer[c] = "pings"
    /\ \E p \in {"mute", "gone"} : peer' = [peer EXCEPT ![c] = p]
    /\ UNCHANGED <<hubServices, dict, handler, subscribed, loops, received>>

-----------------------------------------------------------------------------
(* The loops over the clients.                                             *)

Busy(who) == \E b \in Broadcasts : loops[b].pc \in {"storing", "loop"} /\ loops[b].by = who

\* An alert: the worker of the collector sees a threshold passed, one at a time,
\* or /test/alert is called.
Raise(b) ==
    /\ loops[b].pc = "idle"
    /\ \E who \in {"collector", "route"} :
         /\ who = "collector" => hub /\ ~Busy(who)
         /\ loops' = [loops EXCEPT ![b].pc = "storing", ![b].by = who]
    /\ UNCHANGED <<hubServices, dict, conns, received>>

\* _process_alert: the alert is stored, and the next callback is called; it is
\* over when the index has passed the end of the list.
Notify(b) ==
    /\ loops[b].pc = "storing"
    /\ loops' = [loops EXCEPT ![b] =
                   IF loops[b].called >= callbacks THEN Over("ended")
                   ELSE [Started(loops[b]) EXCEPT !.called = loops[b].called + 1]]
    /\ UNCHANGED <<hubServices, dict, conns, received>>

\* The broadcast worker of the hub wakes up and has a status to send.
SendStatus(b) ==
    /\ loops[b].pc = "idle"
    /\ hub /\ ~Busy("hub")
    /\ Members \cap subscribed # {}
    /\ loops' = [loops EXCEPT ![b] = [Started(loops[b]) EXCEPT !.by = "hub", !.called = 1]]
    /\ UNCHANGED <<hubServices, dict, conns, received>>

\* The ping worker wakes up.
WakePing ==
    /\ hub
    /\ loops["ping"].pc = "idle"
    /\ Members # {}
    /\ loops' = [loops EXCEPT !["ping"] = [Started(loops["ping"]) EXCEPT !.owed = {}]]
    /\ UNCHANGED <<hubServices, dict, conns, received>>

\* Fault for Ahead: the loop breaks off at a client without the subscription.
AheadBreaksOff(l) == {i \in DOMAIN entries :
    /\ i > loops[l].pos
    /\ entries[i] # Hole
    /\ \A j \in loops[l].pos + 1 .. i : l = "ping" \/ entries[j] \in subscribed \cup {Hole}}

\* The entries after the position of a loop that it sends to: the subscribers of
\* the stream, everyone for a ping.
Ahead(l) == {i \in DOMAIN entries : /\ i > loops[l].pos
                                    /\ entries[i] # Hole
                                    /\ l = "ping" \/ entries[i] \in subscribed}

\* One turn of a loop: the next send.  The iterator refuses to go on when the
\* size of the dictionary is not the one it remembers; it cannot tell a client
\* that joined and another that left from nothing.  A send that fails is
\* swallowed and only marks the client.
Turn(l) ==
    /\ loops[l].pc = "loop"
    /\ Cardinality(Members) = loops[l].size
    /\ Ahead(l) # {}
    /\ LET i == CHOOSE j \in Ahead(l) : \A k \in Ahead(l) : j <= k
           c == entries[i]
           late == l = "ping" /\ peer[c] = "mute"
       IN /\ loops' = [loops EXCEPT ![l].pos = i,
                                    ![l].late = IF late THEN @ \cup {c} ELSE @]
          /\ inactive' = IF peer[c] = "gone" THEN inactive \cup {c} ELSE inactive
          /\ received' = IF l # "ping" /\ peer[c] # "gone"
                         THEN [received EXCEPT ![c][l] = @ + 1] ELSE received
    /\ UNCHANGED <<hubServices, entries, active, conns>>

\* What follows a loop: an alert goes to the next callback.
After(l, pc) ==
    IF l = "ping" THEN NoLoop
    ELSE IF loops[l].by # "hub" /\ loops[l].called < callbacks
    THEN [loops[l] EXCEPT !.pc = "storing"] ELSE Over(pc)

\* Fault for Finish: the ping worker leaves the late clients alone.
FinishKeepsLate(l) ==
    /\ loops[l].pc = "loop"
    /\ Cardinality(Members) = loops[l].size
    /\ Ahead(l) = {}
    /\ loops' = [loops EXCEPT ![l] = After(l, "ended")]
    /\ UNCHANGED <<hubServices, dict, conns, received>>

\* The loop has come to its end: the ping worker disconnects the late clients.
Finish(l) ==
    /\ loops[l].pc = "loop"
    /\ Cardinality(Members) = loops[l].size
    /\ Ahead(l) = {}
    /\ loops' = [loops EXCEPT ![l] = After(l, "ended")]
    /\ Disconnect(loops[l].late)
    /\ UNCHANGED <<hubServices, handler, received>>

\* The iterator raises: the rest of the loop is lost, and with it the list of
\* the late clients.
AbortLoop(l) ==
    /\ loops[l].pc = "loop"
    /\ Cardinality(Members) # loops[l].size
    /\ loops' = [loops EXCEPT ![l] = After(l, "aborted")]
    /\ UNCHANGED <<hubServices, dict, conns, received>>

\* The cleanup worker.
Cleanup ==
    /\ hub
    /\ inactive \cap Members # {}
    /\ Disconnect(inactive)
    /\ UNCHANGED <<hubServices, handler, loops, received>>

-----------------------------------------------------------------------------
Iterate(l) == Turn(l) \/ Finish(l) \/ AbortLoop(l)
Stranded(c) == ~hub /\ c \in Members /\ Leave(c)

\* Nothing is awaited between the start of a loop and its first send, nor between
\* two callbacks.
Urgent == {l \in Loops : \/ loops[l].pc = "loop" /\ loops[l].pos = 0
                         \/ loops[l].pc = "storing" /\ loops[l].called > 0}

HubStep ==
    \/ StartMonitoring \/ StopMonitoring
    \/ \E c \in Clients : \/ Connect(c) \/ Accepted(c) \/ Refused(c)
                          \/ Message(c) \/ Leave(c) \/ Fade(c)
    \/ \E b \in Broadcasts : Raise(b) \/ SendStatus(b) \/ Notify(b)
    \/ \E l \in Loops : Iterate(l)
    \/ WakePing \/ Cleanup

HubNext ==
    \/ \E l \in Urgent : Iterate(l) \/ (l # "ping" /\ Notify(l))
    \/ Urgent = {} /\ HubStep

\* A loop that has begun goes on, the workers wake up again, and a handler whose
\* loop test fails ends.  Nothing obliges a client to say anything.
HubFairness ==
    /\ \A l \in Loops : WF_hubVars(Iterate(l))
    /\ \A b \in Broadcasts : WF_hubVars(Notify(b))
    /\ WF_hubVars(WakePing)
    /\ WF_hubVars(Cleanup)
    /\ \A c \in Clients : WF_hubVars(Stranded(c))

HubSpec == HubInit /\ [][HubNext]_hubVars /\ HubFairness

-----------------------------------------------------------------------------
HubTypeOK ==
    /\ hub \in BOOLEAN /\ callbacks \in Nat /\ active \in Int /\ hubStops \in 0 .. HubStops
    /\ entries \in Seq(Clients \cup {Hole})
    /\ handler \in [Clients -> {"new", "accepting", "serving", "done"}]
    /\ peer \in [Clients -> {"pings", "mute", "gone"}]
    /\ inactive \subseteq Clients /\ subscribed \subseteq Clients
    /\ loops \in [Loops -> LoopType]
    /\ received \in [Clients -> [Broadcasts -> Nat]]

\* However a client leaves (its handler, the ping worker, the cleanup worker or
\* the stop of the hub, in any order), it is counted out exactly once: the
\* statistics of /status say how many clients there are.
ActiveIsConnected == active = Cardinality(Members)

\* The limit is looked at before the handshake and never again, so it can be
\* overshot: by the handshakes that were in flight together, less one.
Overshoot == Cardinality(Members) <= MaxClients + Handshakes - 1

\* The hub knows how many clients it has, and bounds them, although the check, the
\* entry and the four ways out of handle_client_connection interleave.
ClientsCounted == ActiveIsConnected /\ Overshoot

\* No client is sent the same broadcast twice, whatever is stopped and started
\* while it is on its way.
BroadcastOnce == \A c \in Clients, b \in Broadcasts : received[c][b] <= 1

\* A broadcast that ends by itself, while nobody joined, has reached every
\* client that was subscribed when it began, is still subscribed and connected,
\* and is not gone.
Reached ==
    [][\A b \in Broadcasts :
         (loops[b].pc = "loop" /\ loops'[b].pc \in {"ended", "storing"} /\ ~loops[b].joined) =>
             \A c \in loops[b].owed \cap Members :
                 received[c][b] = loops[b].called \/ peer[c] = "gone"]_hubVars

\* What the comment in _on_alert says: the alert goes to the clients subscribed
\* to alerts.  While the hub runs, a broadcast is not over before every client
\* that was subscribed when it began, and still is, was sent it.
SubscribersReached ==
    [][\A b \in Broadcasts :
         (hub /\ hub' /\ loops[b].pc = "loop" /\ loops'[b].pc # "loop") =>
             \A c \in loops[b].owed \cap Members :
                 received[c][b] = loops[b].called \/ peer[c] = "gone"]_hubVars

\* A client whose sends fail, or who never pings again, is taken out.
Reaped ==
    \A c \in Unreliable : /\ (c \in inactive) ~> (c \notin Members)
                          /\ <>[](peer[c] = "mute") => <>[](c \notin Members)
===============================================================================
