-------------------------------- MODULE LiveFeed --------------------------------
(***************************************************************************)
(* The live feed of one venue: the SubscriptionPool, the tasks of the      *)
(* WsVenueConnections it opens (senken_feed), the venue at the other end   *)
(* of their sockets, and the switch that disables the venue's plugin       *)
(* (runtime/src/plugin_gate.rs).                                           *)
(*                                                                         *)
(* Every action of the pool is taken together with what it does to the     *)
(* connection it calls, so whether a subscribe succeeds is no longer open. *)
(***************************************************************************)
EXTENDS SubscriptionPool

CONSTANTS MaxDrops,    \* bound: sockets the venue or the network loses
          MaxToggles   \* bound: flips of the plugin's switch

ASSUME FeedAssumption == MaxDrops \in Nat /\ MaxToggles \in Nat

VARIABLES
  task,     \* task[x]: where WsVenueConnection::run of connection x is
  stop,     \* stop[x]: its `shutdown` watch
  up,       \* up[x]: its current socket still reaches the venue
  wire,     \* wire[x][i]: the last frame about i in its outbound channel
  venue,    \* venue[x]: the instruments the venue streams on its socket
  enabled,  \* PluginGate
  drops, toggles

link == <<task, stop, up, wire, venue>>
gate == <<enabled, drops, toggles>>
feedVars == <<vars, link, gate>>

(***************************************************************************)
(*   none       not opened yet, or `run` has returned                      *)
(*   serving    in the select! loop                                        *)
(*   redialing  in redial_until_up, with `outbound` None                   *)
(*   replaying  redialed, `outbound` Some, awaiting pool.reconnected       *)
(* Frames about different instruments commute at the venue and a later     *)
(* frame about an instrument overrides an earlier one, so the channel is   *)
(* kept as the last frame about each.                                      *)
(***************************************************************************)
TaskStates == {"none", "serving", "redialing", "replaying"}
Frames == {"none", "sub", "unsub"}

Quiet == [i \in Instruments |-> "none"]

FeedTypeOK ==
  /\ TypeOK
  /\ task \in [Conns -> TaskStates]
  /\ stop \in [Conns -> BOOLEAN]
  /\ up \in [Conns -> BOOLEAN]
  /\ wire \in [Conns -> [Instruments -> Frames]]
  /\ venue \in [Conns -> SUBSET Instruments]
  /\ enabled \in BOOLEAN
  /\ drops \in 0..MaxDrops
  /\ toggles \in 0..MaxToggles

FeedInit ==
  /\ Init
  /\ task = [x \in Conns |-> "none"]
  /\ stop = [x \in Conns |-> FALSE]
  /\ up = [x \in Conns |-> FALSE]
  /\ wire = [x \in Conns |-> Quiet]
  /\ venue = [x \in Conns |-> {}]
  /\ enabled = TRUE
  /\ drops = 0
  /\ toggles = 0

-----------------------------------------------------------------------------
(* The connection tasks, the venue and the switch. *)

\* The socket breaks; nobody knows yet.
SocketDies(x) ==
  /\ drops < MaxDrops
  /\ up[x]
  /\ up' = [up EXCEPT ![x] = FALSE]
  /\ venue' = [venue EXCEPT ![x] = {}]
  /\ drops' = drops + 1
  /\ UNCHANGED <<vars, task, stop, wire, enabled, toggles>>

\* Mutant: the frames queued for the dead socket are kept for the next one.
KeepFrames(x) ==
  /\ task[x] = "serving" /\ ~ up[x] /\ ~ stop[x]
  /\ task' = [task EXCEPT ![x] = "redialing"]
  /\ UNCHANGED <<vars, stop, up, wire, venue, gate>>

\* The select! loop breaks, `outbound` becomes None and its channel is lost.
NoticeLoss(x) ==
  /\ task[x] = "serving" /\ ~ up[x] /\ ~ stop[x]
  /\ task' = [task EXCEPT ![x] = "redialing"]
  /\ wire' = [wire EXCEPT ![x] = Quiet]
  /\ UNCHANGED <<vars, stop, up, venue, gate>>

\* select! is biased: shutdown goes first.  A frame sent on a dead socket is lost.
SendFrame(x, i) ==
  /\ task[x] = "serving" /\ ~ stop[x]
  /\ wire[x][i] # "none"
  /\ venue' = [venue EXCEPT ![x] =
                 CASE ~ up[x]                        -> {}
                   [] up[x] /\ wire[x][i] = "sub"    -> @ \cup {i}
                   [] up[x] /\ wire[x][i] = "unsub"  -> @ \ {i}]
  /\ wire' = [wire EXCEPT ![x][i] = "none"]
  /\ UNCHANGED <<vars, task, stop, up, gate>>

\* Mutant: only redial_until_up watches the flag.
EndRedial(x) ==
  /\ task[x] = "redialing" /\ stop[x]
  /\ task' = [task EXCEPT ![x] = "none"]
  /\ stop' = [stop EXCEPT ![x] = FALSE]
  /\ UNCHANGED <<vars, up, wire, venue, gate>>

\* Whichever wait `run` is in sees the flag; a dial in flight ends in DialSucceeds first.
EndTask(x) ==
  /\ task[x] \in {"serving", "redialing"} /\ stop[x]
  /\ task' = [task EXCEPT ![x] = "none"]
  /\ stop' = [stop EXCEPT ![x] = FALSE]
  /\ up' = [up EXCEPT ![x] = FALSE]
  /\ wire' = [wire EXCEPT ![x] = Quiet]
  /\ venue' = [venue EXCEPT ![x] = {}]
  /\ UNCHANGED <<vars, gate>>

\* Mutant: back up without telling the pool.
DialSilently(x) ==
  /\ task[x] = "redialing"
  /\ task' = [task EXCEPT ![x] = "serving"]
  /\ up' = [up EXCEPT ![x] = TRUE]
  /\ UNCHANGED <<vars, stop, wire, venue, gate>>

\* A new outbound channel, then `reconnected`; the shutdown flag is not looked at.
DialSucceeds(x) ==
  /\ task[x] = "redialing"
  /\ task' = [task EXCEPT ![x] = "replaying"]
  /\ up' = [up EXCEPT ![x] = TRUE]
  /\ ReportReconnected(x)
  /\ UNCHANGED <<stop, wire, venue, gate>>

Toggle ==
  /\ toggles < MaxToggles
  /\ enabled' = ~ enabled
  /\ toggles' = toggles + 1
  /\ UNCHANGED <<vars, link, drops>>

-----------------------------------------------------------------------------
(* The pool's calls on a connection. *)

\* `outbound` is Some.
Reachable(x) == task[x] \in {"serving", "replaying"}

\* The instruments the pool has on connection x.
Carried(x) == UNION {shards[k].symbols : k \in {n \in DOMAIN shards : shards[n].conn = x}}

\* VenueConnection::subscribe: the gated protocol's frame, which the protocol inside may
\* refuse on its own, then `send` on outbound.
Subscribe(x, reachable, ok) ==
  /\ ok => enabled /\ reachable
  /\ wire' = IF ok THEN [wire EXCEPT ![x][want[Head(queue).claim]] = "sub"] ELSE wire

\* WsVenueConnector::connect spawns `run` with the first socket.
Open(x) ==
  /\ task[x] = "none"
  /\ task' = [task EXCEPT ![x] = "serving"]
  /\ up' = [up EXCEPT ![x] = TRUE]
  /\ UNCHANGED <<stop, venue, gate>>

FeedLeaseOnShard(k, ok) ==
  /\ LeaseOnShard(k, ok)
  /\ Subscribe(shards[k].conn, Reachable(shards[k].conn), ok)
  /\ UNCHANGED <<task, stop, up, venue, gate>>

\* The connection subscribed on need not be the one just opened.
FeedLeaseInHole(x, k, ok) ==
  /\ LeaseInHole(x, k, ok)
  /\ IF k \in Holes(shards)
       THEN Subscribe(x, TRUE, ok)
       ELSE Subscribe(shards[k].conn, Reachable(shards[k].conn), ok)
  /\ Open(x)

FeedLeaseOnPushed(x, ok) ==
  /\ LeaseOnPushed(x, ok)
  /\ Subscribe(x, TRUE, ok)
  /\ Open(x)

\* The unsubscribe frame is never gated; without an outbound channel it is rejected.
FeedRelease ==
  /\ HandleRelease
  /\ LET i == want[Head(queue).claim]
         x == shards[shardOf[i]].conn
     IN  wire' = IF count[i] = 1 /\ Reachable(x) THEN [wire EXCEPT ![x][i] = "unsub"] ELSE wire
  /\ UNCHANGED <<task, stop, up, venue, gate>>

\* Mutant: `shutdown` notifies whoever waits (Notify, not a watch): a task that is
\* sending or replaying misses it.
NotifyWaiting ==
  /\ HandleSweep
  /\ stop' = [x \in Conns |-> \/ stop[x]
                             \/ /\ \E k \in DOMAIN shards : Due(k) /\ shards[k].conn = x
                                /\ task[x] # "replaying" /\ wire[x] = Quiet]
  /\ UNCHANGED <<task, up, wire, venue, gate>>

\* retire_shard calls `shutdown` on the connection of every shard it takes.
FeedSweep ==
  /\ HandleSweep
  /\ stop' = [x \in Conns |-> stop[x] \/ \E k \in DOMAIN shards : Due(k) /\ shards[k].conn = x]
  /\ UNCHANGED <<task, up, wire, venue, gate>>

\* Mutant: the replay is acknowledged and not done.
ReplayNothing(x, done) ==
  /\ done \subseteq Instruments
  /\ task' = [task EXCEPT ![x] = "serving"]
  /\ UNCHANGED wire

\* `reconnected` subscribes what the connection's shard carries, in no order, up to
\* the first refusal; a switch flipped off meanwhile cuts it anywhere.
Replay(x, done) ==
  /\ wire' = [wire EXCEPT ![x] = [i \in Instruments |-> IF i \in done THEN "sub" ELSE @[i]]]
  /\ task' = [task EXCEPT ![x] = "serving"]

FeedReconnected ==
  /\ HandleReconnected
  /\ LET x == Head(queue).conn
     IN  \/ /\ Replay(x, IF enabled THEN Carried(x) ELSE {})
            /\ UNCHANGED <<enabled, toggles>>
         \/ /\ enabled /\ toggles < MaxToggles
            /\ \E done \in SUBSET Carried(x) : Replay(x, done)
            /\ enabled' = FALSE
            /\ toggles' = toggles + 1
  /\ UNCHANGED <<stop, up, venue, drops>>

FeedActor ==
  \/ (JoinLease \/ ConnectFails) /\ UNCHANGED <<link, gate>>
  \/ \E ok \in BOOLEAN :
       \/ \E k \in DOMAIN shards : FeedLeaseOnShard(k, ok)
       \/ \E x \in Conns, k \in 1..Len(shards) : FeedLeaseInHole(x, k, ok)
       \/ \E x \in Conns : FeedLeaseOnPushed(x, ok)
  \/ FeedRelease
  \/ FeedSweep
  \/ FeedReconnected

Connection(x) ==
  \/ NoticeLoss(x)
  \/ \E i \in Instruments : SendFrame(x, i)
  \/ EndTask(x)
  \/ DialSucceeds(x)

FeedNext ==
  \/ (Claimants \/ Timers) /\ UNCHANGED <<link, gate>>
  \/ Len(queue) < MaxQueue /\ StraySweep /\ UNCHANGED <<link, gate>>
  \/ FeedActor
  \/ \E x \in Conns : SocketDies(x) \/ Connection(x)
  \/ Toggle

FeedSpec == FeedInit /\ [][FeedNext]_feedVars

(***************************************************************************)
(* As in the pool, plus the connection tasks, which tokio polls; that a    *)
(* redial succeeds once the venue stops failing is an assumption about the *)
(* venue.  Nothing makes a socket die or the switch flip.                  *)
(***************************************************************************)
FeedFairness ==
  /\ WF_feedVars(FeedActor)
  /\ \A c \in Claims : WF_feedVars(TakeLease(c) /\ UNCHANGED <<link, gate>>)
  /\ \A k \in 1..Cardinality(Conns) :
        WF_feedVars(/\ k \in DOMAIN shards
                    /\ GraceElapses(k) \/ SweepFires(k)
                    /\ UNCHANGED <<link, gate>>)
  /\ \A x \in Conns : WF_feedVars(Connection(x))

FeedFairSpec == FeedSpec /\ FeedFairness

-----------------------------------------------------------------------------
(* What must hold. *)

\* What the venue will stream on x once the frames under way have reached it.
Effective(x) ==
  IF up[x] THEN {i \in Instruments : wire[x][i] = "sub" \/ (wire[x][i] = "none" /\ i \in venue[x])}
           ELSE {}

\* No connection streams, or is about to, what nobody leases on it: releases that
\* race drops, redials and replays leave no subscription behind.
NothingUnleasedStreams ==
  \A x \in Conns : Effective(x) \subseteq Carried(x)

\* As long as the plugin was never disabled, a connection that is not mid-recovery
\* carries every instrument leased on its shard, however its socket failed.
EverythingLeasedStreams ==
  toggles = 0 =>
    \A x \in Conns : task[x] = "serving" /\ up[x] => Carried(x) \subseteq Effective(x)

\* The pool holds no connection whose task is gone, and no task outlives its shard
\* without having been told to stop: no socket is leaked.
PoolAndTasksAgree ==
  \A x \in Conns : task[x] # "none" <=> (~ Unused(x) \/ stop[x])

\* A retired connection's task ends, wherever `run` was when it was told to.
RetiredTaskEnds ==
  \A x \in Conns : stop[x] ~> ~ stop[x]

\* A lease held for good is streamed for good once the venue keeps its sockets.
HeldLeaseIsStreamed ==
  \A c \in Claims, i \in Instruments :
     <>[](claim[c] = "held" /\ want[c] = i)
       => <>[](toggles > 0 \/ \E x \in Conns : i \in Carried(x) /\ i \in venue[x])

=============================================================================
