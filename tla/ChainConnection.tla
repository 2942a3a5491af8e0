-------------------------- MODULE ChainConnection --------------------------
(***************************************************************************)
(* The connection of the monitor to the node: ChainService, which caches   *)
(* one provider, and WebSocketService, which listens to its blocks while   *)
(* there are transactions to follow and reconnects when it is lost.        *)
(*                                                                         *)
(* getProvider tests the cache, awaits the new provider and then puts it   *)
(* into the cache, whatever the cache holds by then.  Calls overlap, and   *)
(* so there may be several sockets: each has an identity, an open one that *)
(* is replaced in the cache stays open, and its handlers and listener stay *)
(* on it.  A call that finds an open provider goes on in the same step;    *)
(* one that waits is the socket it waits for, with the name of the caller. *)
(***************************************************************************)
EXTENDS Naturals

CONSTANTS
    MaxSockets,   \* bound on the sockets made in one life of the service
    Drops,        \* bound on lost connections
    MaxAdds,      \* bound on the objects made for one transaction in one life of the service
    MaxChecks,    \* bound on the checks that run at the same time
    Bounds        \* the bounds a behaviour may have, each within those above

ASSUME ConnectionAssumption ==
    /\ MaxSockets \in Nat /\ Drops \in Nat /\ MaxAdds \in Nat \ {0} /\ MaxChecks \in Nat
    /\ Bounds \subseteq [sockets : 0..MaxSockets, drops : 0..Drops,
                        adds : 1..MaxAdds, checks : 0..MaxChecks]

VARIABLES
    feed,         \* the connection and the block subscription
    bounds        \* those of this behaviour: many sockets, or many checks

Sockets == 1..MaxSockets

\* by: who waits for it while it opens; hooked: it has the handlers of setupChainListener,
\* the last event of which is still to come; attached: it has a block listener.
\* A failing socket has an error event to deliver before that.
SocketStates ==
    [at : {"new", "opening", "open", "failing", "closed"},
     by : {"none", "setup", "start", "stop", "check"}, hooked : BOOLEAN, attached : BOOLEAN]

\* conn is connectionStates; cached the socket of the cached provider, 0 for none;
\* listener: blockListeners, as the socket it was put on; subscribed:
\* blockSubscriptionActive; timers: reconnections that are due, two doing what more would do
Feeds == [conn : {"disconnected", "connecting", "connected"},
          cached : 0..MaxSockets, sock : [Sockets -> SocketStates],
          listener : 0..MaxSockets, subscribed : BOOLEAN, timers : 0..2, drops : 0..Drops]

Unused == [at |-> "new", by |-> "none", hooked |-> FALSE, attached |-> FALSE]

\* A service that starts or does not run
Disconnected ==
    [conn |-> "disconnected", cached |-> 0, sock |-> [s \in Sockets |-> Unused],
     listener |-> 0, subscribed |-> FALSE, timers |-> 0, drops |-> 0]

----------------------------------------------------------------------------
(* ChainService *)

\* getProvider's test: the cached provider is open
Live(f) == f.cached # 0 /\ f.sock[f.cached].at = "open"

NextSockets(f) ==
    {s \in Sockets : /\ s <= bounds.sockets /\ f.sock[s].at = "new"
                     /\ \A r \in 1..(s - 1) : f.sock[r].at # "new"}

\* A closed one leaves the cache
Removed(f) == [f EXCEPT !.cached = 0]

\* getProvider up to its await
Await(f, who) ==
    {[f EXCEPT !.cached = 0, !.sock[s] = [Unused EXCEPT !.at = "opening", !.by = who]] :
        s \in NextSockets(f)}

\* After the await: the new provider replaces whatever is cached, which stays open
Opened(f, s) == [f EXCEPT !.cached = s, !.sock[s] = [Unused EXCEPT !.at = "open"]]

\* or there is none
Refused(f, s) == [f EXCEPT !.sock[s] = [Unused EXCEPT !.at = "closed"]]

Opening(s, who) == feed.sock[s].at = "opening" /\ feed.sock[s].by = who

\* removeProvider destroys what is cached; the close event comes later
RemoveProvider(f) ==
    IF Live(f)
    THEN [f EXCEPT !.cached = 0, !.sock[f.cached].at = "closed", !.sock[f.cached].attached = FALSE]
    ELSE Removed(f)

----------------------------------------------------------------------------
(* The block subscription *)

Attach(f, s) == [f EXCEPT !.sock[s].attached = TRUE, !.listener = s, !.subscribed = TRUE]

Unsubscribed(f) == [f EXCEPT !.listener = 0, !.subscribed = FALSE]

StartBlockSubscription(f) ==
    IF Live(f) THEN {Attach(f, f.cached)} ELSE Await(f, "start") \cup {Removed(f)}

\* The listener is taken off the cached provider, which may not be the one that has it
StopBlockSubscription(f) ==
    CASE f.listener = 0 -> {Unsubscribed(f)}
      [] f.listener # 0 /\ Live(f) ->
            {Unsubscribed([f EXCEPT !.sock[f.cached].attached = @ /\ f.listener # f.cached])}
      [] f.listener # 0 /\ ~Live(f) -> Await(f, "stop") \cup {Unsubscribed(Removed(f))}

UpdateBlockSubscription(f, active) ==
    CASE active /\ ~f.subscribed -> StartBlockSubscription(f)
      [] ~active /\ f.subscribed -> StopBlockSubscription(f)
      [] OTHER -> {f}

----------------------------------------------------------------------------
(* Connecting, and losing a connection *)

Least(m, n) == IF m <= n THEN m ELSE n

Hook(f, s) == [f EXCEPT !.sock[s].hooked = TRUE, !.conn = "connected"]

\* A reconnection timer, or startListening
SetupChainListener(active) ==
    LET f == [feed EXCEPT !.timers = @ - 1]
    IN  /\ feed.timers > 0
        /\ \/ /\ feed.conn # "disconnected"
              /\ feed' = f
           \/ /\ feed.conn = "disconnected" /\ Live(f)
              /\ feed' \in UpdateBlockSubscription(Hook(f, f.cached), active)
           \/ /\ feed.conn = "disconnected" /\ ~Live(f)
              /\ feed' \in Await([f EXCEPT !.conn = "connecting"], "setup") \cup {Removed(f)}

\* A provider is ready, and its caller goes on
ProviderReady(s, active) ==
    \/ Opening(s, "setup") /\ feed' \in UpdateBlockSubscription(Hook(Opened(feed, s), s), active)
    \/ Opening(s, "start") /\ feed' = Attach(Opened(feed, s), s)
    \/ Opening(s, "stop") /\ feed' = Unsubscribed(Opened(feed, s))

\* Mutant: a setup that fails does not say so
ProviderFailsUnseen(s) ==
    \/ Opening(s, "setup") /\ feed' = Refused(feed, s)
    \/ Opening(s, "start") /\ feed' = Refused(feed, s)
    \/ Opening(s, "stop") /\ feed' = Unsubscribed(Refused(feed, s))

\* A setup without provider tries no further
ProviderFails(s) ==
    \/ Opening(s, "setup") /\ feed' = [Refused(feed, s) EXCEPT !.conn = "disconnected"]
    \/ Opening(s, "start") /\ feed' = Refused(feed, s)
    \/ Opening(s, "stop") /\ feed' = Unsubscribed(Refused(feed, s))

\* A socket closes, perhaps with an error; its events are delivered later
Drop(s) ==
    /\ feed.sock[s].at = "open" /\ feed.drops < bounds.drops
    /\ \E end \in {"closed"} \cup (IF feed.sock[s].hooked THEN {"failing"} ELSE {}) :
           feed' = [feed EXCEPT !.sock[s].at = end, !.sock[s].attached = FALSE, !.drops = @ + 1]

\* The handlers of s: an error event leaves the close event to come
Delivered(f, s) ==
    [f EXCEPT !.sock[s].at = "closed", !.sock[s].hooked = (f.sock[s].at = "failing")]

\* Mutant: the state of the connection is not updated
HandleDisconnectionUnseen(s) ==
    /\ feed.sock[s].hooked /\ feed.sock[s].at \in {"failing", "closed"}
    /\ feed' = [RemoveProvider(Delivered(feed, s)) EXCEPT !.listener = 0, !.timers = Least(@ + 1, 2)]

\* Whatever provider is cached by now is destroyed
HandleDisconnection(s) ==
    /\ feed.sock[s].hooked /\ feed.sock[s].at \in {"failing", "closed"}
    /\ feed' = [RemoveProvider(Delivered(feed, s)) EXCEPT !.conn = "disconnected", !.listener = 0,
                                                          !.timers = Least(@ + 1, 2)]

ConnectionStep(active) ==
    \/ SetupChainListener(active)
    \/ \E s \in Sockets :
           ProviderReady(s, active) \/ ProviderFails(s) \/ Drop(s) \/ HandleDisconnection(s)

----------------------------------------------------------------------------
(* Properties *)

\* A connection believed to be up has a socket whose end will be noticed: its handlers are
\* there and their last event is still to come.  Calls of getProvider that overlap replace
\* it in the cache, and late events of other sockets arrive; but setupChainListener does
\* nothing while the state is connected, and without such a socket never would again.
LossNoticed == feed.conn = "connected" => \E s \in Sockets : feed.sock[s].hooked

\* A connection said to be in the making has a setup that waits for its provider, although
\* setups overlap and each writes the state when it ends: setupChainListener does nothing
\* while the state is connecting, and would never again.
ConnectingEnds == feed.conn = "connecting" => \E s \in Sockets : Opening(s, "setup")
=============================================================================
