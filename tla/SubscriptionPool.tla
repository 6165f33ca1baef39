---------------------------- MODULE SubscriptionPool ----------------------------
(***************************************************************************)
(* senken_subscription::SubscriptionPool: one actor task that applies the  *)
(* commands of an unbounded FIFO channel one at a time, reference-counts   *)
(* the leases of one venue's instruments and shards them over connections. *)
(*                                                                         *)
(* The callers (lease futures, Lease guards), the actor and the idle-sweep *)
(* timers are separate tasks: they interleave between the actions below.   *)
(* What the venue answers to connect and subscribe is left open here; the  *)
(* module LiveFeed decides it from the state of the sockets.               *)
(***************************************************************************)
EXTENDS Naturals, Sequences, FiniteSets

CONSTANTS Instruments,   \* InstrumentIds of one venue
          Claims,        \* calls of `lease` outstanding at once, see LeaseRegistry
          Abortable,     \* the claims whose calling task may be aborted
          Conns,         \* identities of connections (Arc::ptr_eq)
          NoInstrument, NoClaim, NoConn,
          Cap,           \* cap_per_connection, after its .max(1)
          MaxQueue       \* bound: reconnects and stray sweeps wait for a shorter queue

ASSUME PoolAssumption ==
  /\ Cap \in Nat \ {0}
  /\ MaxQueue \in Nat
  /\ IsFiniteSet(Claims)
  /\ IsFiniteSet(Instruments)
  /\ Abortable \subseteq Claims
  /\ NoInstrument \notin Instruments
  /\ NoClaim \notin Claims
  /\ NoConn \notin Conns

VARIABLES claim,    \* claim[c]: stage of claim c (the stages of LeaseRegistry)
          want,     \* want[c]: the instrument claim c is about
          queue,    \* Actor's command channel
          count,    \* LeaseRecord::count; 0 stands for no record
          shardOf,  \* LeaseRecord::shard, 1-based; 0 without a record
          shards    \* Actor::shards, the Vec<Option<Shard>>

vars == <<claim, want, queue, count, shardOf, shards>>

Stages == {"idle", "waiting", "aborted", "answered", "held", "dropped", "orphaned"}
Granted == {"answered", "held", "dropped", "orphaned"}

(***************************************************************************)
(* A slot of the Vec<Option<Shard>>; Vacant is the None of a retired one.  *)
(* `since` is empty_since seen from the grace: not set, younger than the   *)
(* grace, or at least as old.  `timed` says the sweep timer armed when the *)
(* shard became empty is still to fire.                                    *)
(***************************************************************************)
Shard == [conn : Conns, symbols : SUBSET Instruments,
          since : {"unset", "young", "elapsed"}, timed : BOOLEAN]

Vacant == [conn |-> NoConn, symbols |-> {}, since |-> "unset", timed |-> FALSE]

\* Publish and PublishQuote only write a lease's watch channels and are left out.
Command == [op : {"lease", "release", "reconnected", "sweep"},
            claim : Claims \cup {NoClaim}, conn : Conns \cup {NoConn}]

LeaseCommand(c)       == [op |-> "lease", claim |-> c, conn |-> NoConn]
ReleaseCommand(c)     == [op |-> "release", claim |-> c, conn |-> NoConn]
ReconnectedCommand(x) == [op |-> "reconnected", claim |-> NoClaim, conn |-> x]
SweepCommand          == [op |-> "sweep", claim |-> NoClaim, conn |-> NoConn]

\* The values every variable keeps, Option<Shard> and the counters included.
TypeOK ==
  /\ claim \in [Claims -> Stages]
  /\ want \in [Claims -> Instruments \cup {NoInstrument}]
  /\ queue \in Seq(Command)
  /\ count \in [Instruments -> Nat]
  /\ shardOf \in [Instruments -> Nat]
  /\ shards \in Seq(Shard \cup {Vacant})

Init ==
  /\ claim = [c \in Claims |-> "idle"]
  /\ want = [c \in Claims |-> NoInstrument]
  /\ queue = <<>>
  /\ count = [i \in Instruments |-> 0]
  /\ shardOf = [i \in Instruments |-> 0]
  /\ shards = <<>>

-----------------------------------------------------------------------------
(* The callers. *)

\* `lease`: the command is sent before the first await.
CallLease(c, i) ==
  /\ claim[c] = "idle"
  /\ claim' = [claim EXCEPT ![c] = "waiting"]
  /\ want' = [want EXCEPT ![c] = i]
  /\ queue' = Append(queue, LeaseCommand(c))
  /\ UNCHANGED <<count, shardOf, shards>>

\* The caller's task is aborted: the oneshot receiver goes, with whatever is in it.
AbortLease(c) ==
  /\ c \in Abortable
  /\ \/ /\ claim[c] = "waiting"
        /\ claim' = [claim EXCEPT ![c] = "aborted"]
     \/ /\ claim[c] = "answered"
        /\ claim' = [claim EXCEPT ![c] = "orphaned"]
  /\ UNCHANGED <<want, queue, count, shardOf, shards>>

\* The awaiting caller reads the answer and builds its Lease.
TakeLease(c) ==
  /\ claim[c] = "answered"
  /\ claim' = [claim EXCEPT ![c] = "held"]
  /\ UNCHANGED <<want, queue, count, shardOf, shards>>

\* Mutant: a dropped lease sends no release.
DropSilently(c) ==
  /\ claim[c] = "held"
  /\ claim' = [claim EXCEPT ![c] = "dropped"]
  /\ UNCHANGED <<want, queue, count, shardOf, shards>>

\* Drop for Lease.
DropLease(c) ==
  /\ claim[c] = "held"
  /\ claim' = [claim EXCEPT ![c] = "dropped"]
  /\ queue' = Append(queue, ReleaseCommand(c))
  /\ UNCHANGED <<want, count, shardOf, shards>>

\* A connection's task calls `reconnected` and awaits the answer, so once at a time.
ReportReconnected(x) ==
  /\ ReconnectedCommand(x) \notin {queue[n] : n \in DOMAIN queue}
  /\ queue' = Append(queue, ReconnectedCommand(x))
  /\ UNCHANGED <<claim, want, count, shardOf, shards>>

-----------------------------------------------------------------------------
(* Time and the sweep timers. *)

GraceElapses(k) ==
  /\ shards[k].since = "young"
  /\ shards' = [shards EXCEPT ![k].since = "elapsed"]
  /\ UNCHANGED <<claim, want, queue, count, shardOf>>

\* Mutant: the timer sleeps less than the grace the sweep will ask for.
SweepFiresEarly(k) ==
  /\ shards[k].timed
  /\ shards' = [shards EXCEPT ![k].timed = FALSE]
  /\ queue' = Append(queue, SweepCommand)
  /\ UNCHANGED <<claim, want, count, shardOf>>

\* The timer was armed with the same grace no earlier than empty_since was set.
SweepFires(k) ==
  /\ shards[k].timed
  /\ shards[k].since = "elapsed"
  /\ shards' = [shards EXCEPT ![k].timed = FALSE]
  /\ queue' = Append(queue, SweepCommand)
  /\ UNCHANGED <<claim, want, count, shardOf>>

\* A timer whose shard was leased again or retired since, or a call of `flush`.
StraySweep ==
  /\ queue' = Append(queue, SweepCommand)
  /\ UNCHANGED <<claim, want, count, shardOf, shards>>

-----------------------------------------------------------------------------
(* shard_with_room. *)

\* What Iterator::position and Iterator::find stop at.
IsFirst(k, S) == k \in S /\ \A j \in S : k <= j

Occupied(ss) == {k \in DOMAIN ss : ss[k].conn # NoConn}
Holes(ss) == (DOMAIN ss) \ Occupied(ss)
Roomy(ss) == {k \in Occupied(ss) : Cardinality(ss[k].symbols) < Cap}
Unused(x) == \A k \in DOMAIN shards : shards[k].conn # x

\* empty_since is set at birth, and no sweep is armed for it.
NewShard(x) == [conn |-> x, symbols |-> {}, since |-> "young", timed |-> FALSE]

-----------------------------------------------------------------------------
(* The actor: one action per command and outcome. *)

HeadIs(op) == queue # <<>> /\ Head(queue).op = op

\* respond.send(Ok(..)): nobody is left to receive it if the caller was aborted.
Grant(c) ==
  claim' = [claim EXCEPT ![c] = IF claim[c] = "aborted" THEN "orphaned" ELSE "answered"]

\* The life of claim c is over: its call failed or its release was applied.
Finish(c) ==
  /\ claim' = [claim EXCEPT ![c] = "idle"]
  /\ want' = [want EXCEPT ![c] = NoInstrument]

\* Mutant: a second lease of an instrument is not counted.
JoinUncounted ==
  /\ HeadIs("lease")
  /\ count[want[Head(queue).claim]] > 0
  /\ Grant(Head(queue).claim)
  /\ queue' = Tail(queue)
  /\ UNCHANGED <<want, count, shardOf, shards>>

JoinLease ==
  /\ HeadIs("lease")
  /\ LET c == Head(queue).claim
         i == want[c]
     IN  /\ count[i] > 0
         /\ count' = [count EXCEPT ![i] = @ + 1]
         /\ Grant(c)
  /\ queue' = Tail(queue)
  /\ UNCHANGED <<want, shardOf, shards>>

\* The head of the queue is the first lease of its instrument.
FirstLease == HeadIs("lease") /\ count[want[Head(queue).claim]] = 0

\* Shard s once i is subscribed on it.
Carrying(s, i) ==
  [s EXCEPT !.symbols = @ \cup {i}, !.since = "unset", !.timed = FALSE]

\* Mutant: the record is inserted before the venue accepts the subscribe.
RecordFirst(ss, k, ok) ==
  LET c == Head(queue).claim
      i == want[c]
  IN  /\ shards' = [ss EXCEPT ![k] = Carrying(ss[k], i)]
      /\ count' = [count EXCEPT ![i] = 1]
      /\ shardOf' = [shardOf EXCEPT ![i] = k]
      /\ IF ok THEN Grant(c) /\ UNCHANGED want ELSE Finish(c)

\* The tail of `lease`, once shard_with_room left the shards as ss and gave index k:
\* the connection accepts the subscribe, or the call fails and the shards stay.
SubscribeOn(ss, k, ok) ==
  LET c == Head(queue).claim
      i == want[c]
  IN  \/ /\ ok
         /\ shards' = [ss EXCEPT ![k] = Carrying(ss[k], i)]
         /\ count' = [count EXCEPT ![i] = 1]
         /\ shardOf' = [shardOf EXCEPT ![i] = k]
         /\ Grant(c)
         /\ UNCHANGED want
      \/ /\ ~ok
         /\ shards' = ss
         /\ Finish(c)
         /\ UNCHANGED <<count, shardOf>>

LeaseOnShard(k, ok) ==
  /\ FirstLease
  /\ IsFirst(k, Roomy(shards))
  /\ SubscribeOn(shards, k, ok)
  /\ queue' = Tail(queue)

\* The new shard fills the first hole, but the index returned is that of the
\* first occupied slot.
LeaseInHole(x, k, ok) ==
  /\ FirstLease
  /\ Roomy(shards) = {}
  /\ Unused(x)
  /\ \E h \in Holes(shards) :
       LET ss == [shards EXCEPT ![h] = NewShard(x)]
       IN  /\ IsFirst(h, Holes(shards))
           /\ IsFirst(k, Occupied(ss))
           /\ SubscribeOn(ss, k, ok)
  /\ queue' = Tail(queue)

LeaseOnPushed(x, ok) ==
  /\ FirstLease
  /\ Roomy(shards) = {}
  /\ Holes(shards) = {}
  /\ Unused(x)
  /\ SubscribeOn(Append(shards, NewShard(x)), Len(shards) + 1, ok)
  /\ queue' = Tail(queue)

ConnectFails ==
  /\ FirstLease
  /\ Roomy(shards) = {}
  /\ Finish(Head(queue).claim)
  /\ queue' = Tail(queue)
  /\ UNCHANGED <<count, shardOf, shards>>

\* Shard s once i is unsubscribed: left empty, it gets its timer.
Without(s, i) ==
  IF s.symbols \subseteq {i}
    THEN [s EXCEPT !.symbols = {}, !.since = "young", !.timed = TRUE]
    ELSE [s EXCEPT !.symbols = @ \ {i}]

\* Mutant: releasing an instrument hangs up its connection, shared or not.
HangUp(i) ==
  /\ count' = [count EXCEPT ![i] = 0]
  /\ shardOf' = [shardOf EXCEPT ![i] = 0]
  /\ shards' = [shards EXCEPT ![shardOf[i]] = Vacant]

\* The last lease of i is gone.  A rejected unsubscribe changes nothing here.
Unsubscribe(i) ==
  /\ count' = [count EXCEPT ![i] = 0]
  /\ shardOf' = [shardOf EXCEPT ![i] = 0]
  /\ shards' = [shards EXCEPT ![shardOf[i]] = Without(shards[shardOf[i]], i)]

\* Mutant: any release unsubscribes, however many leases are left.
ReleaseUncounted ==
  /\ HeadIs("release")
  /\ Finish(Head(queue).claim)
  /\ IF count[want[Head(queue).claim]] = 0
       THEN UNCHANGED <<count, shardOf, shards>>
       ELSE Unsubscribe(want[Head(queue).claim])
  /\ queue' = Tail(queue)

\* With no record (count 0) `release` warns and returns.
HandleRelease ==
  /\ HeadIs("release")
  /\ LET c == Head(queue).claim
         i == want[c]
     IN  /\ Finish(c)
         /\ \/ /\ count[i] = 1
               /\ Unsubscribe(i)
            \/ /\ count[i] # 1
               /\ count' = [count EXCEPT ![i] = IF @ = 0 THEN 0 ELSE @ - 1]
               /\ UNCHANGED <<shardOf, shards>>
  /\ queue' = Tail(queue)

\* retire_idle re-checks each shard rather than trusting the timer that woke it.
Due(k) ==
  /\ shards[k].conn # NoConn
  /\ shards[k].since = "elapsed"
  /\ shards[k].symbols = {}

\* Mutant: a retired shard is removed from the Vec, which shifts the others.
SweepRemoves ==
  /\ HeadIs("sweep")
  /\ shards' = SelectSeq(shards, LAMBDA s : ~ (s.since = "elapsed" /\ s.symbols = {}))
  /\ queue' = Tail(queue)
  /\ UNCHANGED <<claim, want, count, shardOf>>

\* Mutant: retiring closes the connection and forgets to vacate the slot.
SweepKeepsSlot ==
  /\ HeadIs("sweep")
  /\ shards' = [k \in DOMAIN shards |->
                  IF Due(k) THEN [shards[k] EXCEPT !.conn = NoConn] ELSE shards[k]]
  /\ queue' = Tail(queue)
  /\ UNCHANGED <<claim, want, count, shardOf>>

HandleSweep ==
  /\ HeadIs("sweep")
  /\ shards' = [k \in DOMAIN shards |-> IF Due(k) THEN Vacant ELSE shards[k]]
  /\ queue' = Tail(queue)
  /\ UNCHANGED <<claim, want, count, shardOf>>

\* The replay only calls the connection.
HandleReconnected ==
  /\ HeadIs("reconnected")
  /\ queue' = Tail(queue)
  /\ UNCHANGED <<claim, want, count, shardOf, shards>>

Claimants ==
  \E c \in Claims :
     \/ \E i \in Instruments : CallLease(c, i)
     \/ AbortLease(c)
     \/ TakeLease(c)
     \/ DropLease(c)

Timers == \E k \in DOMAIN shards : GraceElapses(k) \/ SweepFires(k)

Reports == StraySweep \/ \E x \in Conns : ReportReconnected(x)

Lease ==
  \/ JoinLease
  \/ ConnectFails
  \/ \E ok \in BOOLEAN :
        \/ \E k \in DOMAIN shards : LeaseOnShard(k, ok)
        \/ \E x \in Conns, k \in DOMAIN shards : LeaseInHole(x, k, ok)
        \/ \E x \in Conns : LeaseOnPushed(x, ok)

Actor == Lease \/ HandleRelease \/ HandleSweep \/ HandleReconnected

Next ==
  \/ Claimants
  \/ Timers
  \/ Len(queue) < MaxQueue /\ Reports
  \/ Actor

Spec == Init /\ [][Next]_vars

(***************************************************************************)
(* The actor's loop, the caller woken by its oneshot and the sleeping      *)
(* timers are tokio tasks, which the runtime polls once they are ready.    *)
(* Nothing makes a caller lease, drop or abort, nor anyone flush.          *)
(***************************************************************************)
Fairness ==
  /\ WF_vars(Actor)
  /\ \A c \in Claims : WF_vars(TakeLease(c))
  /\ \A k \in 1..Cardinality(Conns) :
        WF_vars(k \in DOMAIN shards /\ (GraceElapses(k) \/ SweepFires(k)))

FairSpec == Spec /\ Fairness

-----------------------------------------------------------------------------
(* What must hold. *)

\* The record of an instrument and the symbols of the shards say the same: every
\* record points at a live shard that carries its instrument, and nothing else is
\* carried.  The `expect` of shard_mut rests on it.
BookkeepingAgrees ==
  /\ \A i \in Instruments :
       \/ count[i] = 0 /\ shardOf[i] = 0
       \/ count[i] > 0 /\ shardOf[i] \in Occupied(shards)
  /\ \A k \in DOMAIN shards : shards[k].symbols = {i \in Instruments : shardOf[i] = k}

\* The claims on i that were granted and not given back.
Holders(i) == {c \in Claims : want[c] = i /\ claim[c] \in Granted}

\* LeaseRecord::count is the number of grants not yet given back, whatever order
\* leases, aborts and releases arrive in.
CountsMatchClaims == \A i \in Instruments : count[i] = Cardinality(Holders(i))

\* The branch of `release` its comment calls unreachable in practice is.
ReleaseFindsARecord ==
  \A n \in DOMAIN queue :
     queue[n].op = "release" => count[want[queue[n].claim]] > 0

\* A leased instrument stays on its shard and the shard on its connection, while
\* other shards are retired, reused and pushed around it.
LeaseStays ==
  \A i \in Instruments :
     count[i] > 0 /\ count'[i] > 0
       => /\ shardOf'[i] = shardOf[i]
          /\ shards'[shardOf[i]].conn = shards[shardOf[i]].conn

LeaseNeverMoves == [][LeaseStays]_vars

\* Shards, timers and the queue are invisible: callers see the lease registry.
Registry == INSTANCE LeaseRegistry WITH live <- {i \in Instruments : count[i] > 0}

ImplementsRegistry == Registry!Spec

\* No call is left unanswered and no dropped lease unreleased.
EveryCommandIsApplied ==
  \A c \in Claims : \A stage \in {"waiting", "aborted", "dropped"} :
     claim[c] = stage ~> claim[c] # stage

\* Slot k keeps a connection that carries nothing.
Lingers(k) ==
  /\ k \in DOMAIN shards
  /\ shards[k].conn # NoConn
  /\ shards[k].symbols = {}

\* A shard emptied by a release does not keep its connection for good: it is
\* leased on again or retired, and sweeps that run too soon do not prevent it.
EmptiedShardIsRetired ==
  \A k \in 1..Cardinality(Conns) :
     (Lingers(k) /\ shards[k].timed) ~> ~ Lingers(k)

=============================================================================
