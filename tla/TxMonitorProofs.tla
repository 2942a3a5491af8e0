-------------------------- MODULE TxMonitorProofs --------------------------
(***************************************************************************)
(* Proofs about TxMonitor, for any number of transactions, objects and     *)
(* concurrent checks and any bounds.  The invariant has two independent    *)
(* parts: GoodFeed is about the connection, and the others say that every  *)
(* place a status can be in (a row, an object, the hand of a check) holds  *)
(* only statuses that the chain and the checks so far justify.             *)
(***************************************************************************)
EXTENDS TxMonitor, TLAPS

----------------------------------------------------------------------------
(* The connection *)

\* A socket has handlers only when it was open once
SoundFeed(f) ==
    /\ f \in Feeds
    /\ \A s \in Sockets : f.sock[s].hooked => f.sock[s].at \in {"open", "failing", "closed"}

\* What the state of the connection claims is borne out by a socket
GoodFeed(f) ==
    /\ SoundFeed(f)
    /\ f.conn = "connected" => \E s \in Sockets : f.sock[s].hooked
    /\ f.conn = "connecting" => \E s \in Sockets : f.sock[s].at = "opening" /\ f.sock[s].by = "setup"

LEMMA SocketSet ==
    ASSUME NEW f \in Feeds, NEW s \in Sockets, NEW x \in SocketStates
    PROVE  /\ [f EXCEPT !.sock[s] = x] \in Feeds
           /\ [f EXCEPT !.sock[s] = x].sock[s] = x
           /\ \A r \in Sockets : r # s => [f EXCEPT !.sock[s] = x].sock[r] = f.sock[r]
           /\ [f EXCEPT !.sock[s] = x].conn = f.conn
<1>1. f.sock \in [Sockets -> SocketStates]
  BY DEF Feeds
<1>2. [f.sock EXCEPT ![s] = x] \in [Sockets -> SocketStates]
  BY <1>1
<1> QED
  BY <1>1, <1>2 DEF Feeds

LEMMA CachedSet ==
    ASSUME NEW f \in Feeds, NEW s \in 0..MaxSockets
    PROVE  /\ [f EXCEPT !.cached = s] \in Feeds
           /\ [f EXCEPT !.cached = s].sock = f.sock /\ [f EXCEPT !.cached = s].conn = f.conn
BY DEF Feeds

LEMMA SocketFields ==
    ASSUME NEW f \in Feeds, NEW s \in Sockets
    PROVE  f.sock[s] \in SocketStates /\ s \in 0..MaxSockets /\ 0 \in 0..MaxSockets
BY ConnectionAssumption DEF Feeds, Sockets

LEMMA AwaitGood ==
    ASSUME NEW f, SoundFeed(f), NEW who \in {"setup", "start", "stop", "check"}, NEW g \in Await(f, who)
    PROVE  /\ SoundFeed(g)
           /\ GoodFeed(f) => GoodFeed(g)
           /\ who = "setup" => \E s \in Sockets : g.sock[s].at = "opening" /\ g.sock[s].by = "setup"
           /\ g.conn = f.conn
<1> DEFINE x == [Unused EXCEPT !.at = "opening", !.by = who]
<1>1. PICK s \in Sockets : f.sock[s].at = "new" /\ g = [f EXCEPT !.cached = 0, !.sock[s] = x]
  BY DEF Await, NextSockets
<1>2. x \in SocketStates /\ x.at = "opening" /\ x.by = who /\ ~x.hooked
  BY DEF Unused, SocketStates
<1> HIDE DEF x
<1>3. f \in Feeds /\ 0 \in 0..MaxSockets
  BY SocketFields DEF SoundFeed
<1> DEFINE h == [f EXCEPT !.cached = 0]
<1>4. h \in Feeds /\ h.sock = f.sock /\ h.conn = f.conn
  BY <1>3, CachedSet
<1>5. g = [h EXCEPT !.sock[s] = x]
  BY <1>1
<1> HIDE DEF h
<1>6. /\ g \in Feeds /\ g.sock[s] = x /\ g.conn = f.conn
      /\ \A r \in Sockets : r # s => g.sock[r] = f.sock[r]
  BY <1>2, <1>4, <1>5, SocketSet
<1>7. SoundFeed(g)
  BY <1>2, <1>6 DEF SoundFeed
<1>8. ~f.sock[s].hooked
  BY <1>1 DEF SoundFeed
<1> QED
  BY <1>1, <1>2, <1>6, <1>7, <1>8 DEF GoodFeed

LEMMA RemovedGood ==
    ASSUME NEW f, SoundFeed(f)
    PROVE  /\ SoundFeed(Removed(f)) /\ Removed(f).conn = f.conn
           /\ GoodFeed(f) => GoodFeed(Removed(f))
<1>1. f \in Feeds /\ 0 \in 0..MaxSockets
  BY ConnectionAssumption DEF SoundFeed
<1> QED
  BY <1>1, CachedSet DEF Removed, SoundFeed, GoodFeed

LEMMA UnsubscribedGood ==
    ASSUME NEW f, GoodFeed(f)
    PROVE  GoodFeed(Unsubscribed(f))
<1>1. 0 \in 0..MaxSockets
  BY ConnectionAssumption
<1> QED
  BY <1>1 DEF Unsubscribed, GoodFeed, SoundFeed, Feeds

\* Putting a listener on a socket, or taking it off
LEMMA AttachedSet ==
    ASSUME NEW f, GoodFeed(f), NEW s \in Sockets, NEW a \in BOOLEAN
    PROVE  GoodFeed([f EXCEPT !.sock[s].attached = a])
<1> DEFINE x == [f.sock[s] EXCEPT !.attached = a]
           g == [f EXCEPT !.sock[s] = x]
<1>1. f \in Feeds /\ f.sock[s] \in SocketStates
  BY SocketFields DEF GoodFeed, SoundFeed
<1>2. /\ x \in SocketStates /\ x.at = f.sock[s].at /\ x.by = f.sock[s].by
      /\ x.hooked = f.sock[s].hooked
  BY <1>1 DEF SocketStates
<1>3. [f EXCEPT !.sock[s].attached = a] = g
  BY <1>1
<1> HIDE DEF x
<1>4. /\ g \in Feeds /\ g.sock[s] = x /\ g.conn = f.conn
      /\ \A r \in Sockets : r # s => g.sock[r] = f.sock[r]
  BY <1>1, <1>2, SocketSet
<1> HIDE DEF g
<1>5. \A r \in Sockets : /\ g.sock[r].at = f.sock[r].at /\ g.sock[r].by = f.sock[r].by
                         /\ g.sock[r].hooked = f.sock[r].hooked
  BY <1>2, <1>4
<1> QED
  BY <1>3, <1>4, <1>5 DEF GoodFeed, SoundFeed

LEMMA AttachGood ==
    ASSUME NEW f, GoodFeed(f), NEW s \in Sockets
    PROVE  GoodFeed(Attach(f, s))
<1> DEFINE g == [f EXCEPT !.sock[s].attached = TRUE]
<1>1. GoodFeed(g)
  BY AttachedSet
<1>2. Attach(f, s) = [g EXCEPT !.listener = s, !.subscribed = TRUE]
  BY DEF Attach
<1> HIDE DEF g
<1>3. s \in 0..MaxSockets
  BY DEF Sockets
<1>4. Attach(f, s) \in Feeds /\ Attach(f, s).sock = g.sock /\ Attach(f, s).conn = g.conn
  BY <1>1, <1>2, <1>3 DEF GoodFeed, SoundFeed, Feeds
<1> QED
  BY <1>1, <1>4 DEF GoodFeed, SoundFeed

LEMMA LiveSocket ==
    ASSUME NEW f, f \in Feeds, Live(f)
    PROVE  f.cached \in Sockets
BY ConnectionAssumption DEF Live, Feeds, Sockets

LEMMA StartGood ==
    ASSUME NEW f, GoodFeed(f), NEW g \in StartBlockSubscription(f)
    PROVE  GoodFeed(g)
<1>1. CASE Live(f)
  <2>1. f.cached \in Sockets
    BY <1>1, LiveSocket DEF GoodFeed, SoundFeed
  <2> QED
    BY <1>1, <2>1, AttachGood DEF StartBlockSubscription
<1>2. CASE ~Live(f)
  <2>1. SoundFeed(f)
    BY DEF GoodFeed
  <2>2. g \in Await(f, "start") \/ g = Removed(f)
    BY <1>2 DEF StartBlockSubscription
  <2> QED
    BY <2>1, <2>2, AwaitGood, RemovedGood
<1> QED
  BY <1>1, <1>2

LEMMA StopGood ==
    ASSUME NEW f, GoodFeed(f), NEW g \in StopBlockSubscription(f)
    PROVE  GoodFeed(g)
<1>1. CASE f.listener = 0
  BY <1>1, UnsubscribedGood DEF StopBlockSubscription
<1>2. CASE f.listener # 0 /\ Live(f)
  <2>1. f.cached \in Sockets /\ f.sock[f.cached] \in SocketStates
    BY <1>2, LiveSocket, SocketFields DEF GoodFeed, SoundFeed
  <2>2. (f.sock[f.cached].attached /\ f.listener # f.cached) \in BOOLEAN
    OBVIOUS
  <2>3. GoodFeed([f EXCEPT !.sock[f.cached].attached = @ /\ f.listener # f.cached])
    <3> DEFINE a == f.sock[f.cached].attached /\ f.listener # f.cached
    <3>1. GoodFeed([f EXCEPT !.sock[f.cached].attached = a])
      BY <2>1, <2>2, AttachedSet
    <3> QED
      BY <3>1
  <2> QED
    BY <1>2, <2>3, UnsubscribedGood DEF StopBlockSubscription
<1>3. CASE f.listener # 0 /\ ~Live(f)
  <2>1. SoundFeed(f)
    BY DEF GoodFeed
  <2>2. g \in Await(f, "stop") \/ g = Unsubscribed(Removed(f))
    BY <1>3 DEF StopBlockSubscription
  <2> QED
    BY <2>1, <2>2, AwaitGood, RemovedGood, UnsubscribedGood
<1> QED
  BY <1>1, <1>2, <1>3

LEMMA UpdateGood ==
    ASSUME NEW f, GoodFeed(f), NEW active \in BOOLEAN,
           NEW g \in UpdateBlockSubscription(f, active)
    PROVE  GoodFeed(g)
BY StartGood, StopGood DEF UpdateBlockSubscription

LEMMA HookGood ==
    ASSUME NEW f, SoundFeed(f), NEW s \in Sockets, f.sock[s].at = "open"
    PROVE  GoodFeed(Hook(f, s))
<1> DEFINE x == [f.sock[s] EXCEPT !.hooked = TRUE]
           g == [f EXCEPT !.sock[s] = x]
<1>1. f \in Feeds /\ f.sock[s] \in SocketStates
  BY SocketFields DEF SoundFeed
<1>2. x \in SocketStates /\ x.at = "open" /\ x.hooked
  BY <1>1 DEF SocketStates
<1>3. Hook(f, s) = [g EXCEPT !.conn = "connected"]
  BY <1>1 DEF Hook
<1> HIDE DEF x
<1>4. g \in Feeds /\ g.sock[s] = x /\ \A r \in Sockets : r # s => g.sock[r] = f.sock[r]
  BY <1>1, <1>2, SocketSet
<1> HIDE DEF g
<1>5. Hook(f, s) \in Feeds /\ Hook(f, s).sock = g.sock /\ Hook(f, s).conn = "connected"
  BY <1>3, <1>4 DEF Feeds
<1> QED
  BY <1>2, <1>4, <1>5 DEF GoodFeed, SoundFeed

\* The end of a wait: only a setup's leaves the state of the connection without its reason
LEMMA WaitEnds ==
    ASSUME NEW f, GoodFeed(f), NEW s \in Sockets, f.sock[s].at = "opening",
           NEW at \in {"open", "closed"}, NEW g, g = [f EXCEPT !.sock[s] = [Unused EXCEPT !.at = at]]
    PROVE  /\ SoundFeed(g) /\ g.sock[s].at = at /\ g.conn = f.conn
           /\ f.sock[s].by # "setup" => GoodFeed(g)
<1> DEFINE x == [Unused EXCEPT !.at = at]
<1>1. x \in SocketStates /\ x.at = at /\ ~x.hooked
  BY DEF Unused, SocketStates
<1> HIDE DEF x
<1>2. f \in Feeds /\ g = [f EXCEPT !.sock[s] = x]
  BY DEF GoodFeed, SoundFeed, x
<1>3. /\ g \in Feeds /\ g.sock[s] = x /\ g.conn = f.conn
      /\ \A r \in Sockets : r # s => g.sock[r] = f.sock[r]
  <2>1. f \in Feeds /\ x \in SocketStates
    BY <1>1, <1>2
  <2> DEFINE h == [f EXCEPT !.sock[s] = x]
  <2>2. /\ h \in Feeds /\ h.sock[s] = x /\ h.conn = f.conn
        /\ \A r \in Sockets : r # s => h.sock[r] = f.sock[r]
    BY <2>1, SocketSet
  <2>3. g = h
    BY <1>2
  <2> HIDE DEF h
  <2> QED
    BY <2>2, <2>3
<1>4. SoundFeed(g)
  BY <1>1, <1>3 DEF GoodFeed, SoundFeed
<1>5. ~f.sock[s].hooked
  BY DEF GoodFeed, SoundFeed
<1> QED
  BY <1>1, <1>3, <1>4, <1>5 DEF GoodFeed

LEMMA OpenedGood ==
    ASSUME NEW f, GoodFeed(f), NEW s \in Sockets, f.sock[s].at = "opening"
    PROVE  /\ SoundFeed(Opened(f, s)) /\ Opened(f, s).sock[s].at = "open"
           /\ f.sock[s].by # "setup" => GoodFeed(Opened(f, s))
<1> DEFINE g == [f EXCEPT !.sock[s] = [Unused EXCEPT !.at = "open"]]
<1>1. /\ SoundFeed(g) /\ g.sock[s].at = "open" /\ g.conn = f.conn
      /\ f.sock[s].by # "setup" => GoodFeed(g)
  BY WaitEnds
<1>2. Opened(f, s) = [g EXCEPT !.cached = s]
  BY DEF Opened
<1> HIDE DEF g
<1>3. s \in 0..MaxSockets
  BY DEF Sockets
<1>4. Opened(f, s) \in Feeds /\ Opened(f, s).sock = g.sock /\ Opened(f, s).conn = g.conn
  BY <1>1, <1>2, <1>3, CachedSet DEF SoundFeed
<1> QED
  BY <1>1, <1>4 DEF GoodFeed, SoundFeed

LEMMA RefusedGood ==
    ASSUME NEW f, GoodFeed(f), NEW s \in Sockets, f.sock[s].at = "opening"
    PROVE  SoundFeed(Refused(f, s)) /\ (f.sock[s].by # "setup" => GoodFeed(Refused(f, s)))
BY WaitEnds DEF Refused

\* A step that ends disconnected owes no reason
LEMMA DisconnectedSound ==
    ASSUME NEW f, SoundFeed(f), NEW n \in 0..2, NEW l \in 0..MaxSockets
    PROVE  /\ GoodFeed([f EXCEPT !.conn = "disconnected"])
           /\ GoodFeed([f EXCEPT !.conn = "disconnected", !.listener = l, !.timers = n])
BY DEF SoundFeed, GoodFeed, Feeds

LEMMA SetupGood ==
    ASSUME GoodFeed(feed), NEW active \in BOOLEAN, SetupChainListener(active)
    PROVE  GoodFeed(feed')
<1> DEFINE f == [feed EXCEPT !.timers = @ - 1]
<1>1. GoodFeed(f) /\ f.conn = feed.conn
  <2>1. feed.timers - 1 \in 0..2
    BY DEF SetupChainListener, GoodFeed, SoundFeed, Feeds
  <2> QED
    BY <2>1 DEF GoodFeed, SoundFeed, Feeds
<1>2. \/ feed' = f
      \/ Live(f) /\ feed' \in UpdateBlockSubscription(Hook(f, f.cached), active)
      \/ feed.conn = "disconnected"
         /\ feed' \in Await([f EXCEPT !.conn = "connecting"], "setup") \cup {Removed(f)}
  BY DEF SetupChainListener
<1> HIDE DEF f
<1>3. CASE Live(f) /\ feed' \in UpdateBlockSubscription(Hook(f, f.cached), active)
  <2>1. f.cached \in Sockets /\ f.sock[f.cached].at = "open"
    BY <1>1, <1>3, LiveSocket DEF Live, GoodFeed, SoundFeed
  <2>2. GoodFeed(Hook(f, f.cached))
    BY <1>1, <2>1, HookGood DEF GoodFeed
  <2> QED
    BY <1>3, <2>2, UpdateGood
<1>4. CASE feed' \in Await([f EXCEPT !.conn = "connecting"], "setup")
  <2> DEFINE h == [f EXCEPT !.conn = "connecting"]
  <2>1. SoundFeed(h) /\ h.conn = "connecting"
    BY <1>1 DEF GoodFeed, SoundFeed, Feeds
  <2> HIDE DEF h
  <2>2. /\ SoundFeed(feed') /\ feed'.conn = "connecting"
        /\ \E s \in Sockets : feed'.sock[s].at = "opening" /\ feed'.sock[s].by = "setup"
    <3>1. feed' \in Await(h, "setup")
      BY <1>4 DEF h
    <3> QED
      BY <2>1, <3>1, AwaitGood
  <2> QED
    BY <2>2 DEF GoodFeed
<1>5. CASE feed' = Removed(f)
  BY <1>1, <1>5, RemovedGood DEF GoodFeed
<1> QED
  BY <1>1, <1>2, <1>3, <1>4, <1>5

LEMMA ReadyGood ==
    ASSUME GoodFeed(feed), NEW active \in BOOLEAN, NEW s \in Sockets, ProviderReady(s, active)
    PROVE  GoodFeed(feed')
<1>1. CASE Opening(s, "setup") /\ feed' \in UpdateBlockSubscription(Hook(Opened(feed, s), s), active)
  <2>1. SoundFeed(Opened(feed, s)) /\ Opened(feed, s).sock[s].at = "open"
    BY <1>1, OpenedGood DEF Opening
  <2>2. GoodFeed(Hook(Opened(feed, s), s))
    BY <2>1, HookGood
  <2> QED
    BY <1>1, <2>2, UpdateGood
<1>2. CASE Opening(s, "start") /\ feed' = Attach(Opened(feed, s), s)
  <2>1. GoodFeed(Opened(feed, s))
    BY <1>2, OpenedGood DEF Opening
  <2> QED
    BY <1>2, <2>1, AttachGood
<1>3. CASE Opening(s, "stop") /\ feed' = Unsubscribed(Opened(feed, s))
  <2>1. GoodFeed(Opened(feed, s))
    BY <1>3, OpenedGood DEF Opening
  <2> QED
    BY <1>3, <2>1, UnsubscribedGood
<1> QED
  BY <1>1, <1>2, <1>3 DEF ProviderReady

LEMMA FailsGood ==
    ASSUME GoodFeed(feed), NEW s \in Sockets, ProviderFails(s)
    PROVE  GoodFeed(feed')
<1>1. CASE Opening(s, "setup") /\ feed' = [Refused(feed, s) EXCEPT !.conn = "disconnected"]
  <2>1. SoundFeed(Refused(feed, s)) /\ 0 \in 0..2 /\ 0 \in 0..MaxSockets
    BY <1>1, RefusedGood, ConnectionAssumption DEF Opening
  <2> QED
    BY <1>1, <2>1, DisconnectedSound
<1>2. CASE Opening(s, "start") /\ feed' = Refused(feed, s)
  BY <1>2, RefusedGood DEF Opening
<1>3. CASE Opening(s, "stop") /\ feed' = Unsubscribed(Refused(feed, s))
  <2>1. GoodFeed(Refused(feed, s))
    BY <1>3, RefusedGood DEF Opening
  <2> QED
    BY <1>3, <2>1, UnsubscribedGood
<1> QED
  BY <1>1, <1>2, <1>3 DEF ProviderFails

LEMMA DropGood ==
    ASSUME GoodFeed(feed), bounds \in Bounds, NEW s \in Sockets, Drop(s)
    PROVE  GoodFeed(feed')
<1>1. PICK end \in {"closed", "failing"} :
         feed' = [feed EXCEPT !.sock[s].at = end, !.sock[s].attached = FALSE, !.drops = @ + 1]
  BY DEF Drop
<1> DEFINE x == [feed.sock[s] EXCEPT !.at = end, !.attached = FALSE]
           g == [feed EXCEPT !.sock[s] = x]
<1>2. feed \in Feeds /\ feed.sock[s] \in SocketStates
  BY SocketFields DEF GoodFeed, SoundFeed
<1>3. x \in SocketStates /\ x.at = end /\ x.hooked = feed.sock[s].hooked
  BY <1>2 DEF SocketStates
<1>4. feed' = [g EXCEPT !.drops = feed.drops + 1]
  BY <1>1, <1>2
<1> HIDE DEF x
<1>5. /\ g \in Feeds /\ g.sock[s] = x /\ g.conn = feed.conn
      /\ \A r \in Sockets : r # s => g.sock[r] = feed.sock[r]
  BY <1>2, <1>3, SocketSet
<1> HIDE DEF g
<1>6. feed.drops + 1 \in 0..Drops
  <2>1. bounds.drops \in 0..Drops /\ feed.drops \in 0..Drops /\ Drops \in Nat
    BY <1>2, ConnectionAssumption DEF Feeds
  <2> QED
    BY <2>1 DEF Drop
<1>7. feed' \in Feeds /\ feed'.sock = g.sock /\ feed'.conn = feed.conn
  BY <1>4, <1>5, <1>6 DEF Feeds
<1>8. feed.sock[s].at = "open"
  BY DEF Drop
<1> QED
  BY <1>3, <1>5, <1>7, <1>8 DEF GoodFeed, SoundFeed

LEMMA DisconnectionGood ==
    ASSUME GoodFeed(feed), NEW s \in Sockets, HandleDisconnection(s)
    PROVE  GoodFeed(feed')
<1> DEFINE f == Delivered(feed, s)
<1>1. SoundFeed(f)
  <2> DEFINE x == [feed.sock[s] EXCEPT !.at = "closed", !.hooked = (feed.sock[s].at = "failing")]
  <2>1. feed \in Feeds /\ feed.sock[s] \in SocketStates
    BY SocketFields DEF GoodFeed, SoundFeed
  <2>2. x \in SocketStates /\ x.at = "closed"
    BY <2>1 DEF SocketStates
  <2>3. f = [feed EXCEPT !.sock[s] = x]
    BY <2>1 DEF Delivered
  <2> HIDE DEF x, f
  <2>4. f \in Feeds /\ f.sock[s] = x /\ \A r \in Sockets : r # s => f.sock[r] = feed.sock[r]
    BY <2>1, <2>2, <2>3, SocketSet
  <2> QED
    BY <2>2, <2>4 DEF GoodFeed, SoundFeed
<1>2. feed' = [RemoveProvider(f) EXCEPT !.conn = "disconnected", !.listener = 0,
                                        !.timers = Least(@ + 1, 2)]
  BY DEF HandleDisconnection
<1> HIDE DEF f
<1>3. SoundFeed(RemoveProvider(f))
  <2>1. CASE Live(f)
    <3> DEFINE c == f.cached
               x == [f.sock[c] EXCEPT !.at = "closed", !.attached = FALSE]
               g == [f EXCEPT !.sock[c] = x]
    <3>1. f \in Feeds /\ c \in Sockets /\ f.sock[c] \in SocketStates
      BY <1>1, <2>1, LiveSocket, SocketFields DEF SoundFeed
    <3>2. x \in SocketStates /\ x.at = "closed"
      BY <3>1 DEF SocketStates
    <3>3. RemoveProvider(f) = [g EXCEPT !.cached = 0]
      BY <2>1, <3>1 DEF RemoveProvider
    <3> HIDE DEF x, c
    <3>4. g \in Feeds /\ g.sock[c] = x /\ \A r \in Sockets : r # c => g.sock[r] = f.sock[r]
      BY <3>1, <3>2, SocketSet
    <3> HIDE DEF g
    <3>5. RemoveProvider(f) \in Feeds /\ RemoveProvider(f).sock = g.sock
      BY <3>3, <3>4, CachedSet, ConnectionAssumption
    <3> QED
      BY <1>1, <3>2, <3>4, <3>5 DEF SoundFeed
  <2>2. CASE ~Live(f)
    BY <1>1, <2>2, RemovedGood DEF RemoveProvider
  <2> QED
    BY <2>1, <2>2
<1>4. Least(RemoveProvider(f).timers + 1, 2) \in 0..2
  BY <1>3 DEF SoundFeed, Feeds, Least
<1>5. 0 \in 0..MaxSockets
  BY ConnectionAssumption
<1> QED
  BY <1>2, <1>3, <1>4, <1>5, DisconnectedSound

LEMMA ConnectionStepGood ==
    ASSUME GoodFeed(feed), bounds \in Bounds, NEW active \in BOOLEAN, ConnectionStep(active)
    PROVE  GoodFeed(feed')
BY SetupGood, ReadyGood, FailsGood, DropGood, DisconnectionGood DEF ConnectionStep

LEMMA DisconnectedGood ==
    /\ GoodFeed(Disconnected)
    /\ \A d \in 0..Drops : GoodFeed([Disconnected EXCEPT !.drops = d])
    /\ \A n \in 0..2, d \in 0..Drops : GoodFeed([Disconnected EXCEPT !.timers = n, !.drops = d])
<1>1. Unused \in SocketStates /\ ~Unused.hooked
  BY DEF Unused, SocketStates
<1>2. 0 \in 0..2 /\ 0 \in 0..Drops /\ 0 \in 0..MaxSockets
  BY ConnectionAssumption
<1>3. Disconnected \in Feeds /\ Disconnected.conn = "disconnected"
  BY <1>1, <1>2 DEF Disconnected, Feeds
<1>4. \A s \in Sockets : ~Disconnected.sock[s].hooked
  BY <1>1 DEF Disconnected
<1> QED
  BY <1>3, <1>4 DEF GoodFeed, SoundFeed, Feeds

----------------------------------------------------------------------------
(* The statuses *)

OnChain(t) ==
    /\ minedAt[t] # 0 /\ t \notin reverted
    /\ height >= minedAt[t] + Required - 1

\* What stands behind a status of t, wherever it is kept
Justified(t, s) ==
    /\ s = "CONFIRMED" => OnChain(t)
    /\ s = "FAILED" => t \in reverted \cup erred
    /\ s \in Final => t \in judged

\* What check r knows while it waits
GoodCheck(r) ==
    /\ r.at = "height" => minedAt[r.tx] # 0
    /\ r.at = "save" => Justified(r.tx, r.val)
    /\ r.at = "giveUp" => Justified(r.tx, "FAILED")

ChainOK ==
    /\ height \in 1..MaxHeight /\ minedAt \in [Txs -> 0..MaxHeight]
    /\ reverted \subseteq Txs /\ erred \subseteq Txs /\ judged \subseteq Txs

RowsOK ==
    /\ row \in [Txs -> Pending \cup Final]
    /\ \A t \in Txs : Justified(t, row[t])

ObjectsOK ==
    /\ obj \in [Txs -> [1..MaxAdds -> Objects]]
    /\ \A t \in Txs, k \in 1..MaxAdds : Justified(t, obj[t][k].status)

ChecksOK ==
    /\ check \in [Checkers -> Checks]
    /\ \A c \in Checkers : GoodCheck(check[c])

MapOK ==
    /\ msg \in [Txs -> {"visible", "deleted"}] /\ up \in BOOLEAN
    /\ made \in [Txs -> 0..MaxAdds] /\ entry \in [Txs -> 0..MaxAdds]
    /\ FollowedUntilFinal

\* The inductive invariant
Inv == ChainOK /\ RowsOK /\ ObjectsOK /\ ChecksOK /\ MapOK /\ GoodFeed(feed)

\* What every step but Start and Stop grants: reasons for a status never go away
Grows ==
    /\ ChainOK'
    /\ height' >= height /\ erred \subseteq erred' /\ judged \subseteq judged'
    /\ \A t \in Txs : minedAt[t] # 0 =>
           minedAt'[t] = minedAt[t] /\ (t \in reverted' <=> t \in reverted)
    /\ reverted \subseteq reverted'

LEMMA JustifiedStable ==
    ASSUME ChainOK, Grows, NEW t \in Txs, NEW s, Justified(t, s)
    PROVE  Justified(t, s)'
BY ConstantsAssumption DEF ChainOK, Grows, Justified, OnChain

LEMMA GoodCheckStable ==
    ASSUME ChainOK, Grows, NEW r \in Checks, GoodCheck(r)
    PROVE  GoodCheck(r)'
<1>1. r.tx \in Txs
  BY DEF Checks
<1>2. \A s : Justified(r.tx, s) => Justified(r.tx, s)'
  BY <1>1, JustifiedStable
<1>3. minedAt[r.tx] # 0 => minedAt'[r.tx] # 0
  BY <1>1 DEF Grows
<1> QED
  BY <1>2, <1>3 DEF GoodCheck

\* Steps that leave the chain alone
LEMMA GrowsWithoutBlock ==
    ASSUME ChainOK, UNCHANGED chain, erred \subseteq erred', judged \subseteq judged',
           erred' \subseteq Txs, judged' \subseteq Txs
    PROVE  Grows
BY DEF ChainOK, chain, Grows

----------------------------------------------------------------------------
(* What a step does to one of the places a status is kept in *)

LEMMA RowsKept ==
    ASSUME ChainOK, Grows, RowsOK, UNCHANGED row
    PROVE  RowsOK'
BY JustifiedStable DEF RowsOK

LEMMA RowWritten ==
    ASSUME ChainOK, Grows, RowsOK, NEW t \in Txs, NEW s \in Pending \cup Final,
           Justified(t, s), UpdateRow(t, s)
    PROVE  RowsOK'
BY JustifiedStable DEF RowsOK, UpdateRow

LEMMA ObjectsKept ==
    ASSUME ChainOK, Grows, ObjectsOK, UNCHANGED obj
    PROVE  ObjectsOK'
BY JustifiedStable DEF ObjectsOK

LEMMA ObjectWritten ==
    ASSUME ChainOK, Grows, ObjectsOK, NEW t \in Txs, NEW k \in 1..MaxAdds,
           NEW o \in Objects, Justified(t, o.status)', obj' = [obj EXCEPT ![t][k] = o]
    PROVE  ObjectsOK'
BY JustifiedStable DEF ObjectsOK

LEMMA ChecksKept ==
    ASSUME ChainOK, Grows, ChecksOK, UNCHANGED check
    PROVE  ChecksOK'
BY GoodCheckStable DEF ChecksOK

LEMMA CheckWritten ==
    ASSUME ChainOK, Grows, ChecksOK, NEW c \in Checkers,
           NEW r \in Checks, GoodCheck(r)', check' = [check EXCEPT ![c] = r]
    PROVE  ChecksOK'
BY GoodCheckStable DEF ChecksOK

LEMMA MapKept ==
    ASSUME Grows, MapOK, UNCHANGED <<msg, up, made, entry>>
    PROVE  MapOK'
BY DEF Grows, MapOK, FollowedUntilFinal

LEMMA Forgotten ==
    ASSUME Grows, MapOK, GoodFeed(feed), UNCHANGED <<msg, up, made>>,
           NEW t \in Txs, t \in judged', Forget(t)
    PROVE  MapOK' /\ GoodFeed(feed')
<1>1. HasActiveTx(entry', obj) \in BOOLEAN
  BY DEF HasActiveTx
<1>2. GoodFeed(feed')
  BY <1>1, UpdateGood DEF Forget
<1>3. entry' = [entry EXCEPT ![t] = 0] /\ 0 \in 0..MaxAdds
  BY ConstantsAssumption, ConnectionAssumption DEF Forget
<1> QED
  BY <1>2, <1>3 DEF Grows, MapOK, FollowedUntilFinal

LEMMA IdleCheck ==
    Idle \in Checks /\ Idle.at = "idle"
<1>1. (CHOOSE t \in Txs : TRUE) \in Txs
  BY ConstantsAssumption, ConnectionAssumption
<1>2. 1 \in 1..MaxAdds
  BY ConstantsAssumption, ConnectionAssumption
<1> QED
  BY <1>1, <1>2 DEF Idle, Checks, Stages, Pending

LEMMA Returned ==
    ASSUME ChainOK, Grows, ChecksOK, NEW c \in Checkers, Return(c)
    PROVE  ChecksOK'
<1>1. GoodCheck(Idle)'
  BY IdleCheck DEF GoodCheck, Idle
<1> QED
  BY <1>1, IdleCheck, CheckWritten DEF Return

LEMMA FreshObject ==
    ASSUME NEW t \in Txs, NEW s \in Pending \cup Final, Justified(t, s)
    PROVE  /\ [Fresh EXCEPT !.status = s] \in Objects
           /\ Justified(t, [Fresh EXCEPT !.status = s].status)
           /\ Fresh \in Objects /\ Justified(t, Fresh.status)
<1>1. 0 \in 0..MaxRetries
  BY ConstantsAssumption
<1> QED
  BY <1>1 DEF Fresh, Objects, Justified, Pending, Final

LEMMA CountedObject ==
    ASSUME NEW o \in Objects, NEW s \in Pending \cup Final
    PROVE  /\ Counted(o) \in Objects /\ Counted(o).status = o.status
           /\ [Counted(o) EXCEPT !.status = s] \in Objects
           /\ [Counted(o) EXCEPT !.status = s].status = s
<1>1. Least(o.retries + 1, MaxRetries) \in 0..MaxRetries
  BY ConstantsAssumption DEF Objects, Least
<1>2. Counted(o) = [o EXCEPT !.retries = Least(o.retries + 1, MaxRetries)]
  BY DEF Counted
<1> QED
  BY <1>1, <1>2 DEF Objects

LEMMA StatusSet ==
    ASSUME NEW o \in Objects, NEW s \in Pending \cup Final
    PROVE  [o EXCEPT !.status = s] \in Objects /\ [o EXCEPT !.status = s].status = s
BY DEF Objects

LEMMA CheckFields ==
    ASSUME ChecksOK, ObjectsOK, NEW c \in Checkers
    PROVE  /\ check[c] \in Checks
           /\ check[c].tx \in Txs /\ check[c].k \in 1..MaxAdds
           /\ Object(c) \in Objects /\ Object(c).status \in Pending \cup Final
           /\ Justified(check[c].tx, Object(c).status)
           /\ GoodCheck(check[c])
BY DEF ChecksOK, Checks, ObjectsOK, Objects, Object

----------------------------------------------------------------------------
(* Steps of the connection and of the chain *)

LEMMA FeedStep ==
    ASSUME Inv, UNCHANGED <<chain, row, msg, up, made, entry, obj, check, erred, judged>>,
           GoodFeed(feed')
    PROVE  Inv'
<1>1. Grows
  BY GrowsWithoutBlock DEF Inv, ChainOK
<1> QED
  BY <1>1, RowsKept, ObjectsKept, ChecksKept, MapKept DEF Inv, Grows, GoodFeed

LEMMA ChainStep ==
    ASSUME Inv, Grow \/ \E t \in Txs : Mine(t)
    PROVE  Inv'
<1>1. UNCHANGED <<row, msg, up, made, entry, obj, check, feed, erred, judged>>
  BY DEF Grow, Mine
<1>2. Grows
  <2>1. CASE Grow
    BY <2>1, ConstantsAssumption DEF Grow, Grows, Inv, ChainOK
  <2>2. ASSUME NEW t \in Txs, Mine(t)
        PROVE  Grows
    <3>1. height + 1 \in 1..MaxHeight /\ height + 1 \in 0..MaxHeight
      BY <2>2, ConstantsAssumption DEF Mine, Inv, ChainOK
    <3> QED
      BY <2>2, <3>1 DEF Mine, Grows, Inv, ChainOK
  <2> QED
    BY <2>1, <2>2
<1> QED
  BY <1>1, <1>2, RowsKept, ObjectsKept, ChecksKept, MapKept DEF Inv, Grows, GoodFeed

----------------------------------------------------------------------------
(* Steps of what is followed *)

LEMMA AddKeeps ==
    ASSUME Inv, bounds \in Bounds, NEW t \in Txs, AddTransaction(t)
    PROVE  Inv'
<1>1. Grows
  BY GrowsWithoutBlock DEF AddTransaction, Inv, ChainOK
<1>2. made[t] + 1 \in 1..MaxAdds /\ made[t] + 1 \in 0..MaxAdds /\ made[t] + 1 # 0
  <2>1. bounds.adds \in 1..MaxAdds /\ made[t] \in 0..MaxAdds /\ MaxAdds \in Nat
    BY ConnectionAssumption DEF Inv, MapOK
  <2> QED
    BY <2>1 DEF AddTransaction
<1>3. ObjectsOK'
  <2> DEFINE o == [Fresh EXCEPT !.status = "SENT"]
  <2>1. "SENT" \in Pending \cup Final /\ Justified(t, "SENT")
    BY DEF Pending, Final, Justified
  <2>2. o \in Objects /\ Justified(t, o.status)
    BY <2>1, FreshObject
  <2>3. Justified(t, o.status)'
    BY <1>1, <2>2, JustifiedStable DEF Inv
  <2>4. obj' = [obj EXCEPT ![t][made[t] + 1] = o]
    BY DEF AddTransaction, Put
  <2> QED
    BY <1>1, <1>2, <2>2, <2>3, <2>4, ObjectWritten DEF Inv
<1>4. MapOK'
  <2>1. /\ made' = [made EXCEPT ![t] = made[t] + 1]
        /\ entry' = [entry EXCEPT ![t] = made[t] + 1]
        /\ msg' \in {msg, [msg EXCEPT ![t] = "deleted"]}
        /\ up' = up
    BY DEF AddTransaction, Put
  <2> QED
    BY <1>1, <1>2, <2>1 DEF Inv, MapOK, Grows, FollowedUntilFinal
<1>5. GoodFeed(feed')
  <2>1. HasActiveTx(entry', obj') \in BOOLEAN
    BY DEF HasActiveTx
  <2> QED
    BY <2>1, UpdateGood DEF AddTransaction, Inv
<1>6. UNCHANGED <<row, check>>
  BY DEF AddTransaction
<1> QED
  BY <1>1, <1>3, <1>4, <1>5, <1>6, RowsKept, ChecksKept DEF Inv, Grows, GoodFeed

\* No reason for a status is lost with the memory of the service
LEMMA StartKeeps ==
    ASSUME Inv, Start
    PROVE  Inv'
<1>1. Grows
  BY GrowsWithoutBlock DEF Start, Inv, ChainOK
<1>2. ObjectsOK'
  <2>1. obj' = [t \in Txs |-> [obj[t] EXCEPT ![1].status = IF t \in Loaded THEN row[t] ELSE @]]
    BY DEF Start
  <2>2. 1 \in 1..MaxAdds
    BY ConstantsAssumption, ConnectionAssumption
  <2>3. ASSUME NEW t \in Txs
        PROVE  /\ obj'[t] \in [1..MaxAdds -> Objects]
               /\ \A k \in 1..MaxAdds : Justified(t, obj'[t][k].status)
    <3> DEFINE s == IF t \in Loaded THEN row[t] ELSE obj[t][1].status
               o == [obj[t][1] EXCEPT !.status = s]
    <3>1. obj[t] \in [1..MaxAdds -> Objects] /\ obj[t][1] \in Objects
      BY <2>2 DEF Inv, ObjectsOK
    <3>2. s \in Pending \cup Final /\ Justified(t, s)
      BY <2>2, <3>1 DEF Inv, RowsOK, ObjectsOK, Objects
    <3>3. obj'[t] = [obj[t] EXCEPT ![1] = o]
      BY <2>1
    <3> HIDE DEF s
    <3>4. o \in Objects /\ o.status = s
      BY <3>1, <3>2 DEF Objects
    <3> HIDE DEF o
    <3> QED
      BY <3>1, <3>2, <3>3, <3>4 DEF Inv, ObjectsOK
  <2>4. \A t \in Txs : \A s : Justified(t, s) => Justified(t, s)'
    BY <1>1, JustifiedStable DEF Inv
  <2>5. obj' \in [Txs -> [1..MaxAdds -> Objects]]
    BY <2>1, <2>3
  <2> QED
    BY <2>3, <2>4, <2>5 DEF ObjectsOK
<1>3. MapOK'
  <2>1. 1 \in 0..MaxAdds /\ 0 \in 0..MaxAdds
    BY ConstantsAssumption, ConnectionAssumption
  <2>2. \A t \in Txs : t \notin Loaded => t \in judged
    BY DEF Loaded, Inv, RowsOK, Justified
  <2> QED
    BY <1>1, <2>1, <2>2 DEF Start, Inv, MapOK, Grows, FollowedUntilFinal
<1>4. GoodFeed(feed')
  <2>1. feed.drops \in 0..Drops /\ 1 \in 0..2
    BY DEF Inv, GoodFeed, SoundFeed, Feeds
  <2> QED
    BY <2>1, DisconnectedGood DEF Start
<1>5. UNCHANGED <<row, check>>
  BY DEF Start
<1> QED
  BY <1>1, <1>2, <1>3, <1>4, <1>5, RowsKept, ChecksKept DEF Inv, Grows, GoodFeed

LEMMA StopKeeps ==
    ASSUME Inv, Stop
    PROVE  Inv'
<1>1. Grows
  BY GrowsWithoutBlock DEF Stop, Inv, ChainOK
<1>2. ObjectsOK'
  <2>1. \A t \in Txs : Fresh \in Objects /\ Justified(t, Fresh.status)
    BY FreshObject DEF Justified, Pending, Final
  <2>2. \A t \in Txs : \A s : Justified(t, s) => Justified(t, s)'
    BY <1>1, JustifiedStable DEF Inv
  <2>3. obj' = [t \in Txs |-> [k \in 1..MaxAdds |-> Fresh]]
    BY DEF Stop
  <2>4. Fresh' = Fresh
    BY DEF Fresh
  <2> QED
    BY <2>1, <2>2, <2>3, <2>4 DEF ObjectsOK
<1>3. ChecksOK'
  <2>1. GoodCheck(Idle)'
    BY IdleCheck DEF GoodCheck, Idle
  <2> QED
    BY <2>1, IdleCheck DEF Stop, ChecksOK
<1>4. MapOK'
  <2>1. 0 \in 0..MaxAdds
    BY ConstantsAssumption, ConnectionAssumption
  <2> QED
    BY <2>1 DEF Stop, Inv, MapOK, FollowedUntilFinal
<1>5. GoodFeed(feed')
  <2>1. feed.drops \in 0..Drops
    BY DEF Inv, GoodFeed, SoundFeed, Feeds
  <2> QED
    BY <2>1, DisconnectedGood DEF Stop
<1>6. UNCHANGED row
  BY DEF Stop
<1> QED
  BY <1>1, <1>2, <1>3, <1>4, <1>5, <1>6, RowsKept DEF Inv, Grows, GoodFeed

----------------------------------------------------------------------------
(* Steps of a check *)

LEMMA BeginKeeps ==
    ASSUME Inv, NEW c \in Checkers, NEW t \in Txs, Begin(c, t)
    PROVE  Inv'
<1>1. Grows
  BY GrowsWithoutBlock DEF Begin, Inv, ChainOK
<1>2. ChecksOK'
  <2>1. entry[t] \in 1..MaxAdds
    BY ConnectionAssumption DEF Begin, Inv, MapOK
  <2>2. ASSUME NEW st \in {"receipt", "provider"},
               check' = [check EXCEPT ![c] = [Idle EXCEPT !.at = st, !.tx = t, !.k = entry[t]]]
        PROVE  ChecksOK'
    <3>1. PICK r \in Checks : r = [Idle EXCEPT !.at = st, !.tx = t, !.k = entry[t]]
      BY <2>1, IdleCheck DEF Checks, Stages
    <3>2. r.at = st
      BY <3>1, IdleCheck DEF Checks
    <3>3. check' = [check EXCEPT ![c] = r]
      BY <2>2, <3>1
    <3>4. GoodCheck(r)'
      BY <3>2 DEF GoodCheck
    <3> QED
      BY <1>1, <3>3, <3>4, CheckWritten DEF Inv
  <2> QED
    BY <1>1, <2>2, ChecksKept DEF Begin, Inv
<1>3. GoodFeed(feed')
  <2>1. feed' = feed \/ feed' \in Await(feed, "check") \/ feed' = Removed(feed)
    BY DEF Begin
  <2>2. GoodFeed(feed) /\ SoundFeed(feed)
    BY DEF Inv, GoodFeed
  <2> QED
    BY <2>1, <2>2, AwaitGood, RemovedGood
<1>4. UNCHANGED <<row, msg, up, made, entry, obj>>
  BY DEF Begin
<1> QED
  BY <1>1, <1>2, <1>3, <1>4, RowsKept, ObjectsKept, MapKept DEF Inv, Grows

LEMMA NewBlockKeeps ==
    ASSUME Inv, NEW c \in Checkers, NewBlock(c)
    PROVE  Inv'
<1>1. CASE \E t \in Txs : Begin(c, t)
  BY <1>1, BeginKeeps
<1>2. CASE /\ feed' \in UpdateBlockSubscription(feed, FALSE)
           /\ UNCHANGED <<chain, row, msg, up, made, entry, obj, check, erred, judged>>
  <2>1. GoodFeed(feed')
    BY <1>2, UpdateGood DEF Inv
  <2> QED
    BY <1>2, <2>1, FeedStep
<1> QED
  BY <1>1, <1>2 DEF NewBlock

\* A check that moves to a stage at which it has to know something, with what it knows
LEMMA Moved ==
    ASSUME Inv, Grows, NEW c \in Checkers, NEW st \in Stages,
           NEW p \in Pending \cup Final, NEW v \in Pending \cup Final,
           NEW t \in Txs, t = check[c].tx,
           check' = [check EXCEPT ![c] = [check[c] EXCEPT !.at = st, !.prev = p, !.val = v]],
           st = "height" => minedAt[t] # 0,
           st = "save" => Justified(t, v)',
           st = "giveUp" => Justified(t, "FAILED")'
    PROVE  ChecksOK'
<1>1. check[c] \in Checks
  BY DEF Inv, ChecksOK
<1>2. PICK r \in Checks : r = [check[c] EXCEPT !.at = st, !.prev = p, !.val = v]
  BY <1>1 DEF Checks
<1>3. r.at = st /\ r.val = v /\ r.tx = t
  BY <1>1, <1>2 DEF Checks
<1>4. minedAt[t] # 0 => minedAt'[t] # 0
  BY DEF Grows
<1>5. GoodCheck(r)'
  BY <1>3, <1>4 DEF GoodCheck
<1> QED
  BY <1>2, <1>5, CheckWritten DEF Inv

LEMMA Went ==
    ASSUME Inv, Grows, NEW c \in Checkers, NEW st \in Stages, Goto(c, st),
           NEW t \in Txs, t = check[c].tx, st # "save",
           st = "height" => minedAt[t] # 0,
           st = "giveUp" => Justified(t, "FAILED")'
    PROVE  ChecksOK'
<1>1. check[c] \in Checks
  BY DEF Inv, ChecksOK
<1>2. PICK p \in Pending \cup Final, v \in Pending \cup Final :
         p = check[c].prev /\ v = check[c].val
  BY <1>1 DEF Checks
<1>3. check' = [check EXCEPT ![c] = [check[c] EXCEPT !.at = st, !.prev = p, !.val = v]]
  BY <1>1, <1>2 DEF Goto, Checks, Inv, ChecksOK
<1> QED
  BY <1>3, Moved

LEMMA GetProviderKeeps ==
    ASSUME Inv, NEW c \in Checkers, GetProvider(c)
    PROVE  Inv'
<1>1. Grows
  BY GrowsWithoutBlock DEF GetProvider, Inv, ChainOK
<1>2. PICK s \in Sockets :
         /\ Opening(s, "check") /\ feed' \in {Opened(feed, s), Refused(feed, s)}
         /\ Goto(c, "receipt") \/ Goto(c, "stuck") \/ Return(c)
  BY DEF GetProvider
<1>3. GoodFeed(feed')
  BY <1>2, OpenedGood, RefusedGood DEF Opening, Inv
<1>4. ChecksOK'
  <2>1. ASSUME NEW st \in {"receipt", "stuck"}, Goto(c, st)
        PROVE  ChecksOK'
    <3>1. PICK t \in Txs : t = check[c].tx
      BY CheckFields DEF Inv
    <3> QED
      BY <1>1, <2>1, <3>1, Went DEF Stages
  <2>2. CASE Return(c)
    BY <1>1, <2>2, Returned DEF Inv
  <2> QED
    BY <1>2, <2>1, <2>2
<1>5. UNCHANGED <<row, msg, up, made, entry, obj>>
  BY DEF GetProvider
<1> QED
  BY <1>1, <1>3, <1>4, <1>5, RowsKept, ObjectsKept, MapKept DEF Inv, Grows

LEMMA ReadReceiptKeeps ==
    ASSUME Inv, NEW c \in Checkers, ReadReceipt(c)
    PROVE  Inv'
<1>1. Grows
  BY GrowsWithoutBlock DEF ReadReceipt, Inv, ChainOK
<1>2. ChecksOK'
  <2>1. PICK t \in Txs : t = check[c].tx
    BY CheckFields DEF Inv
  <2>2. PICK st \in {"height", "lookup"} : st = IF minedAt[t] # 0 THEN "height" ELSE "lookup"
    OBVIOUS
  <2>3. Goto(c, st) /\ st \in Stages
    BY <2>1, <2>2 DEF ReadReceipt, Stages
  <2> QED
    BY <1>1, <2>1, <2>2, <2>3, Went
<1>3. UNCHANGED <<row, msg, up, made, entry, obj, feed>>
  BY DEF ReadReceipt
<1> QED
  BY <1>1, <1>2, <1>3, RowsKept, ObjectsKept, MapKept DEF Inv, Grows, GoodFeed

LEMMA LookUpKeeps ==
    ASSUME Inv, NEW c \in Checkers, LookUp(c)
    PROVE  Inv'
<1>1. Grows
  BY GrowsWithoutBlock DEF LookUp, Inv, ChainOK
<1>2. PICK t \in Txs, k \in 1..MaxAdds, o \in Objects :
         t = check[c].tx /\ k = check[c].k /\ o = Object(c)
  BY CheckFields DEF Inv
<1>3. UNCHANGED <<row, msg, up, made, entry, feed>>
  BY DEF LookUp
<1>4. CASE /\ obj' = [obj EXCEPT ![t][k] = Counted(@)]
           /\ Return(c)
  <2>1. PICK p \in Objects : p = Counted(o) /\ p.status = o.status
    BY CountedObject DEF Pending
  <2>2. obj' = [obj EXCEPT ![t][k] = p]
    BY <1>2, <1>4, <2>1 DEF Object, Inv, ObjectsOK
  <2>3. Justified(t, p.status)
    BY <1>2, <2>1, CheckFields DEF Inv
  <2>4. Justified(t, p.status)'
    BY <1>1, <2>3, JustifiedStable DEF Inv
  <2>5. ObjectsOK' /\ ChecksOK'
    BY <1>1, <1>4, <2>2, <2>4, ObjectWritten, Returned DEF Inv
  <2> QED
    BY <1>1, <1>3, <2>5, RowsKept, MapKept DEF Inv, Grows, GoodFeed
<1>5. CASE /\ obj' = [obj EXCEPT ![t][k].status = "CONFIRMING"]
           /\ Goto(c, "note") \/ Return(c)
  <2>1. PICK p \in Objects : p = [o EXCEPT !.status = "CONFIRMING"] /\ p.status = "CONFIRMING"
    BY StatusSet DEF Pending
  <2>2. obj' = [obj EXCEPT ![t][k] = p]
    BY <1>2, <1>5, <2>1 DEF Object, Inv, ObjectsOK
  <2>3. Justified(t, p.status)'
    BY <2>1 DEF Justified, Final
  <2>4. ObjectsOK'
    BY <1>1, <2>2, <2>3, ObjectWritten DEF Inv
  <2>5. ChecksOK'
    <3>1. CASE Goto(c, "note")
      BY <1>1, <1>2, <3>1, Went DEF Stages
    <3>2. CASE Return(c)
      BY <1>1, <3>2, Returned DEF Inv
    <3> QED
      BY <1>5, <3>1, <3>2
  <2> QED
    BY <1>1, <1>3, <2>4, <2>5, RowsKept, MapKept DEF Inv, Grows, GoodFeed
<1> QED
  BY <1>2, <1>4, <1>5 DEF LookUp

LEMMA NoteKeeps ==
    ASSUME Inv, NEW c \in Checkers, Note(c)
    PROVE  Inv'
<1>1. Grows
  BY GrowsWithoutBlock DEF Note, Inv, ChainOK
<1>2. PICK t \in Txs : t = check[c].tx
  BY CheckFields DEF Inv
<1>3. RowsOK'
  <2>1. Justified(t, "CONFIRMING") /\ "CONFIRMING" \in Pending \cup Final
    BY DEF Justified, Final, Pending
  <2> QED
    BY <1>1, <1>2, <2>1, RowWritten DEF Note, Inv
<1>4. ChecksOK'
  BY <1>1, Returned DEF Note, Inv
<1>5. UNCHANGED <<msg, up, made, entry, obj, feed>>
  BY DEF Note
<1> QED
  BY <1>1, <1>3, <1>4, <1>5, ObjectsKept, MapKept DEF Inv, Grows, GoodFeed

\* What the receipt and the block number say when they are compared
LEMMA VerdictJustified ==
    ASSUME Inv, NEW t \in Txs, minedAt[t] # 0
    PROVE  /\ Verdict(t, Confirmations(t)) \in Pending \cup Final
           /\ Verdict(t, Confirmations(t)) = "CONFIRMED" => OnChain(t)
           /\ Verdict(t, Confirmations(t)) = "FAILED" => t \in reverted
<1>1. height \in Nat /\ minedAt[t] \in Nat /\ Required \in Nat
  BY ConstantsAssumption DEF Inv, ChainOK
<1>2. Confirmations(t) >= Required => height >= minedAt[t] + Required - 1
  BY <1>1 DEF Confirmations
<1> QED
  BY <1>2 DEF Verdict, OnChain, Pending, Final

LEMMA SettleKeeps ==
    ASSUME Inv, Grows, NEW c \in Checkers, UNCHANGED <<msg, up, made>>, Settle(c)
    PROVE  MapOK' /\ GoodFeed(feed')
<1>1. PICK t \in Txs : t = check[c].tx
  BY CheckFields DEF Inv
<1>2. CASE Object(c).status \in Final
  <2>1. t \in judged'
    BY <1>1, <1>2, CheckFields DEF Inv, Justified, Grows
  <2> QED
    BY <1>1, <1>2, <2>1, Forgotten DEF Settle, Inv
<1>3. CASE Object(c).status \notin Final
  BY <1>3, MapKept DEF Settle, Inv, GoodFeed
<1> QED
  BY <1>2, <1>3

LEMMA JudgeKeeps ==
    ASSUME Inv, NEW c \in Checkers, Judge(c)
    PROVE  Inv'
<1>1. PICK t \in Txs, k \in 1..MaxAdds, o \in Objects :
         t = check[c].tx /\ k = check[c].k /\ o = Object(c)
  BY CheckFields DEF Inv
<1>2. minedAt[t] # 0
  BY <1>1, CheckFields DEF Judge, At, GoodCheck, Inv
<1>3. PICK status \in Pending \cup Final :
         /\ status = Verdict(t, Confirmations(t))
         /\ status = "CONFIRMED" => OnChain(t)
         /\ status = "FAILED" => t \in reverted
  BY <1>2, VerdictJustified
<1>4. judged' = IF status \in Final THEN judged \cup {t} ELSE judged
  BY <1>1, <1>3 DEF Judge
<1>5. UNCHANGED <<chain, row, msg, up, made, erred>>
  BY DEF Judge
<1>6. Grows
  BY <1>4, <1>5, GrowsWithoutBlock DEF Inv, ChainOK
<1>7. Justified(t, status)'
  BY <1>3, <1>4, <1>5 DEF Justified, OnChain, chain
<1>8. ObjectsOK'
  <2>1. PICK p \in Objects : p = [o EXCEPT !.status = status] /\ p.status = status
    BY StatusSet
  <2>2. obj' = [obj EXCEPT ![t][k] = p]
    BY <1>1, <1>3, <2>1 DEF Judge, Object, Inv, ObjectsOK
  <2> QED
    BY <1>6, <1>7, <2>1, <2>2, ObjectWritten DEF Inv
<1>9. ChecksOK' /\ MapOK' /\ GoodFeed(feed')
  <2>1. check[c] \in Checks
    BY CheckFields DEF Inv
  <2>2. PICK p \in Pending \cup Final, v \in Pending \cup Final :
           p = check[c].prev /\ v = check[c].val
    BY <2>1 DEF Checks
  <2>3. ASSUME NEW st \in {"stuckProvider", "stuck"}, UNCHANGED entry,
               check' = [check EXCEPT ![c].at = st, ![c].prev = Object(c).status],
               feed' = feed \/ feed' = Removed(feed) \/ feed' \in Await(feed, "check")
        PROVE  ChecksOK' /\ MapOK' /\ GoodFeed(feed')
    <3>1. PICK q \in Pending \cup Final : q = Object(c).status
      BY CheckFields DEF Inv
    <3>2. check' = [check EXCEPT ![c] = [check[c] EXCEPT !.at = st, !.prev = q, !.val = v]]
      BY <2>1, <2>2, <2>3, <3>1 DEF Checks, Inv, ChecksOK
    <3>3. ChecksOK'
      BY <1>1, <1>6, <3>2, Moved DEF Stages
    <3>4. GoodFeed(feed) /\ SoundFeed(feed)
      BY DEF Inv, GoodFeed
    <3>5. GoodFeed(feed')
      BY <2>3, <3>4, AwaitGood, RemovedGood
    <3> QED
      BY <1>5, <1>6, <2>3, <3>3, <3>5, MapKept DEF Inv
  <2>4. CASE /\ check' = [check EXCEPT ![c].at = "save", ![c].val = status]
             /\ UNCHANGED <<entry, feed>>
    <3>1. check' = [check EXCEPT ![c] = [check[c] EXCEPT !.at = "save", !.prev = p, !.val = status]]
      BY <2>1, <2>2, <2>4 DEF Checks, Inv, ChecksOK
    <3>2. ChecksOK'
      BY <1>1, <1>6, <1>7, <3>1, Moved DEF Stages
    <3> QED
      BY <1>5, <1>6, <2>4, <3>2, MapKept DEF Inv, GoodFeed
  <2>5. CASE status \in Final /\ Return(c) /\ Forget(t)
    <3>1. t \in judged'
      BY <1>4, <2>5
    <3> QED
      BY <1>5, <1>6, <2>5, <3>1, Returned, Forgotten DEF Inv
  <2> QED
    BY <1>1, <1>3, <2>3, <2>4, <2>5 DEF Judge
<1> QED
  BY <1>5, <1>6, <1>8, <1>9, RowsKept DEF Inv, Grows

LEMMA AskStuckKeeps ==
    ASSUME Inv, NEW c \in Checkers, AskStuck(c)
    PROVE  Inv'
<1>1. UNCHANGED <<chain, row, msg, up, made, obj, erred, judged>>
  BY DEF AskStuck
<1>2. Grows
  BY <1>1, GrowsWithoutBlock DEF Inv, ChainOK
<1>3. ChecksOK' /\ MapOK' /\ GoodFeed(feed')
  <2>1. CASE /\ check' = [check EXCEPT ![c].at = "save", ![c].val = Object(c).status]
             /\ UNCHANGED <<entry, feed>>
    <3>1. check[c] \in Checks
      BY CheckFields DEF Inv
    <3>2. PICK t \in Txs, p \in Pending \cup Final, v \in Pending \cup Final :
             t = check[c].tx /\ p = check[c].prev /\ v = Object(c).status /\ Justified(t, v)
      BY <3>1, CheckFields DEF Checks, Inv
    <3>3. check' = [check EXCEPT ![c] = [check[c] EXCEPT !.at = "save", !.prev = p, !.val = v]]
      BY <2>1, <3>1, <3>2 DEF Checks, Inv, ChecksOK
    <3>4. Justified(t, v)'
      BY <1>2, <3>2, JustifiedStable DEF Inv
    <3>5. ChecksOK'
      BY <1>2, <3>2, <3>3, <3>4, Moved DEF Stages
    <3> QED
      BY <1>1, <1>2, <2>1, <3>5, MapKept DEF Inv, GoodFeed
  <2>2. CASE Return(c) /\ Settle(c)
    BY <1>1, <1>2, <2>2, Returned, SettleKeeps DEF Inv
  <2> QED
    BY <2>1, <2>2 DEF AskStuck
<1> QED
  BY <1>1, <1>2, <1>3, RowsKept, ObjectsKept DEF Inv, Grows

LEMMA SaveKeeps ==
    ASSUME Inv, NEW c \in Checkers, Save(c)
    PROVE  Inv'
<1>1. UNCHANGED <<chain, msg, up, made, obj, erred, judged>>
  BY DEF Save
<1>2. Grows
  BY <1>1, GrowsWithoutBlock DEF Inv, ChainOK
<1>3. RowsOK'
  <2>1. PICK t \in Txs, v \in Pending \cup Final : t = check[c].tx /\ v = check[c].val
    BY CheckFields DEF Inv, Checks
  <2>2. Justified(t, v)
    BY <2>1, CheckFields DEF Inv, Save, At, GoodCheck
  <2> QED
    BY <1>2, <2>1, <2>2, RowWritten DEF Save, Inv
<1>4. ChecksOK' /\ MapOK' /\ GoodFeed(feed')
  BY <1>1, <1>2, Returned, SettleKeeps DEF Save, Inv
<1> QED
  BY <1>1, <1>2, <1>3, <1>4, ObjectsKept DEF Inv, Grows

LEMMA NodeErrorKeeps ==
    ASSUME Inv, NEW c \in Checkers, NodeError(c)
    PROVE  Inv'
<1>1. PICK t \in Txs, k \in 1..MaxAdds, o \in Objects :
         t = check[c].tx /\ k = check[c].k /\ o = Object(c)
  BY CheckFields DEF Inv
<1>2. /\ erred' = erred \cup {t} /\ judged' \in {judged, judged \cup {t}}
      /\ UNCHANGED <<chain, row, msg, up, made, entry, feed>>
  BY <1>1 DEF NodeError
<1>3. Grows
  BY <1>2, GrowsWithoutBlock DEF Inv, ChainOK
<1>4. CASE /\ obj' = [obj EXCEPT ![t][k] = [Counted(o) EXCEPT !.status = "FAILED"]]
           /\ judged' = judged \cup {t}
           /\ Goto(c, "giveUp")
  <2>1. Justified(t, "FAILED")'
    BY <1>2, <1>4 DEF Justified
  <2>2. PICK p \in Objects : p = [Counted(o) EXCEPT !.status = "FAILED"] /\ p.status = "FAILED"
    <3>1. "FAILED" \in Pending \cup Final
      BY DEF Final
    <3>2. /\ [Counted(o) EXCEPT !.status = "FAILED"] \in Objects
          /\ [Counted(o) EXCEPT !.status = "FAILED"].status = "FAILED"
      BY <3>1, CountedObject
    <3> QED
      BY <3>2
  <2>3. obj' = [obj EXCEPT ![t][k] = p] /\ Justified(t, p.status)'
    BY <1>4, <2>1, <2>2
  <2>4. ObjectsOK' /\ ChecksOK'
    BY <1>1, <1>3, <1>4, <2>1, <2>3, ObjectWritten, Went DEF Inv, Stages
  <2> QED
    BY <1>2, <1>3, <2>4, RowsKept, MapKept DEF Inv, Grows, GoodFeed
<1>5. CASE /\ obj' = [obj EXCEPT ![t][k] = Counted(o)]
           /\ Return(c)
  <2>1. PICK p \in Objects : p = Counted(o) /\ p.status = o.status
    BY CountedObject DEF Pending
  <2>2. Justified(t, p.status)
    BY <1>1, <2>1, CheckFields DEF Inv
  <2>3. obj' = [obj EXCEPT ![t][k] = p] /\ Justified(t, p.status)'
    BY <1>3, <1>5, <2>1, <2>2, JustifiedStable DEF Inv
  <2>4. ObjectsOK' /\ ChecksOK'
    BY <1>3, <1>5, <2>3, ObjectWritten, Returned DEF Inv
  <2> QED
    BY <1>2, <1>3, <2>4, RowsKept, MapKept DEF Inv, Grows, GoodFeed
<1> QED
  BY <1>1, <1>4, <1>5 DEF NodeError

LEMMA GiveUpKeeps ==
    ASSUME Inv, NEW c \in Checkers, GiveUp(c)
    PROVE  Inv'
<1>1. UNCHANGED <<chain, msg, up, made, obj, erred, judged>>
  BY DEF GiveUp
<1>2. Grows
  BY <1>1, GrowsWithoutBlock DEF Inv, ChainOK
<1>3. PICK t \in Txs : t = check[c].tx
  BY CheckFields DEF Inv
<1>4. Justified(t, "FAILED") /\ t \in judged'
  BY <1>1, <1>3, CheckFields DEF Inv, GiveUp, At, GoodCheck, Justified, Final
<1>5. RowsOK'
  BY <1>2, <1>3, <1>4, RowWritten DEF GiveUp, Inv, Final
<1>6. ChecksOK' /\ MapOK' /\ GoodFeed(feed')
  BY <1>1, <1>2, <1>3, <1>4, Returned, Forgotten DEF GiveUp, Inv
<1> QED
  BY <1>1, <1>2, <1>5, <1>6, ObjectsKept DEF Inv, Grows

----------------------------------------------------------------------------
(* Theorems *)

LEMMA InitInv ==
    ASSUME Init
    PROVE  Inv
<1>1. 1 \in 1..MaxHeight /\ 0 \in 0..MaxHeight /\ 0 \in 0..MaxAdds
  BY ConstantsAssumption, ConnectionAssumption
<1>2. \A t \in Txs : Fresh \in Objects /\ Justified(t, Fresh.status) /\ Justified(t, "SENT")
  BY FreshObject DEF Justified, Pending, Final
<1>3. ChainOK /\ RowsOK /\ MapOK
  BY <1>1, <1>2 DEF Init, ChainOK, RowsOK, MapOK, FollowedUntilFinal, Pending
<1>4. ObjectsOK
  BY <1>2 DEF Init, ObjectsOK
<1>5. ChecksOK
  BY IdleCheck DEF Init, ChecksOK, GoodCheck
<1>6. GoodFeed(Disconnected)
  BY DisconnectedGood
<1> QED
  BY <1>3, <1>4, <1>5, <1>6 DEF Init, Inv

LEMMA NextInv ==
    ASSUME Inv, bounds \in Bounds, [Next]_vars
    PROVE  Inv' /\ bounds' \in Bounds
<1>0. bounds' \in Bounds
  BY DEF Next, vars
<1> SUFFICES Inv'
  BY <1>0
<1>1. CASE Start \/ Stop
  BY <1>1, StartKeeps, StopKeeps
<1>2. ASSUME NEW t \in Txs, AddTransaction(t) \/ Mine(t)
      PROVE  Inv'
  BY <1>2, AddKeeps, ChainStep
<1>3. ASSUME NEW c \in Checkers, CheckStep(c)
      PROVE  Inv'
  BY <1>3, GetProviderKeeps, ReadReceiptKeeps, LookUpKeeps, NoteKeeps, JudgeKeeps, AskStuckKeeps,
     SaveKeeps, NodeErrorKeeps, GiveUpKeeps DEF CheckStep
<1>4. ASSUME NEW c \in Checkers, NewBlock(c)
      PROVE  Inv'
  BY <1>4, NewBlockKeeps
<1>5. ASSUME NEW c \in Checkers, NEW t \in Txs, Poll(c, t) \/ Request(c, t)
      PROVE  Inv'
  BY <1>5, BeginKeeps DEF Poll, Request
<1>6. CASE Connection
  <2>1. HasActiveTx(entry, obj) \in BOOLEAN
    BY DEF HasActiveTx
  <2>2. GoodFeed(feed')
    BY <1>6, <2>1, ConnectionStepGood DEF Connection, Inv
  <2> QED
    BY <1>6, <2>2, FeedStep DEF Connection
<1>7. CASE UNCHANGED vars
  BY <1>7, FeedStep DEF vars, Inv
<1>8. CASE Grow
  BY <1>8, ChainStep
<1> QED
  BY <1>1, <1>2, <1>3, <1>4, <1>5, <1>6, <1>7, <1>8 DEF Next

\* The invariant holds throughout.
THEOREM InvAlways == Spec => [](Inv /\ bounds \in Bounds)
<1>1. Init => Inv /\ bounds \in Bounds
  BY InitInv DEF Init
<1>2. (Inv /\ bounds \in Bounds) /\ [Next]_vars => (Inv /\ bounds \in Bounds)'
  BY NextInv
<1> QED
  BY <1>1, <1>2, PTL DEF Spec

\* TypeOK: every value stays in its set, whatever checks run at the same time.
THEOREM TypeCorrect == Spec => []TypeOK
<1>1. Inv /\ bounds \in Bounds => TypeOK
  BY DEF Inv, ChainOK, RowsOK, ObjectsOK, ChecksOK, MapOK, GoodFeed, SoundFeed, TypeOK
<1> QED
  BY <1>1, InvAlways, PTL

\* ConfirmedOnChain: updateTransactionStatus writes CONFIRMED only for a transaction that is
\* in a block, with success, and has getRequiredConfirmations blocks.
THEOREM ConfirmedSound == Spec => []ConfirmedOnChain
<1>1. Inv => ConfirmedOnChain
  BY DEF Inv, RowsOK, Justified, OnChain, ConfirmedOnChain
<1> QED
  BY <1>1, InvAlways, PTL

\* FailedHasCause: a row becomes FAILED only after a receipt with status 0 or an error of the
\* node, never because the transaction waits to be mined.
THEOREM FailedSound == Spec => []FailedHasCause
<1>1. Inv => FailedHasCause
  BY DEF Inv, RowsOK, Justified, FailedHasCause
<1> QED
  BY <1>1, InvAlways, PTL

\* FollowedUntilFinal: a transaction whose message is gone leaves activeTransactions only
\* after a check found it final, across redelivered messages and restarts.
THEOREM NeverForgotten == Spec => []FollowedUntilFinal
<1>1. Inv => FollowedUntilFinal
  BY DEF Inv, MapOK
<1> QED
  BY <1>1, InvAlways, PTL

\* LossNoticed: a connection recorded as connected has a socket with the handlers of
\* setupChainListener, or such a socket's last event is still to come, although overlapping
\* calls of getProvider replace each other's provider in the cache.
THEOREM LossAlwaysNoticed == Spec => []LossNoticed
<1>1. Inv => LossNoticed
  BY DEF Inv, GoodFeed, LossNoticed
<1> QED
  BY <1>1, InvAlways, PTL

\* ConnectingEnds: while the state is connecting a call of setupChainListener waits for its
\* provider, and its end changes the state, however many setups overlap.
THEOREM ConnectingAlwaysEnds == Spec => []ConnectingEnds
<1>1. Inv => ConnectingEnds
  BY DEF Inv, GoodFeed, ConnectingEnds, Opening
<1> QED
  BY <1>1, InvAlways, PTL
=============================================================================
