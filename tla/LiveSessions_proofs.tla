-------------------------- MODULE LiveSessions_proofs --------------------------
(***************************************************************************)
(* What LiveSessions promises, for any number of connections, topics,      *)
(* forwarders and sessions: the types, that a key has one session, that no *)
(* forwarder is out of reach, and that a blip is not shown.                *)
(*                                                                         *)
(* None of the four is inductive.  That a topic's session is shared rests  *)
(* on who holds the registry's lock while the lease is made (Locked) and   *)
(* on the weak entries naming the living sessions exactly (Entered); that  *)
(* a failure shown was no blip rests on what the channel held when the     *)
(* forwarder last read it (Shown); all rest on where in its life a         *)
(* forwarder is (Staged).                                                  *)
(***************************************************************************)
EXTENDS LiveSessions, TLAPS

TaskRecord == [at : {"idle", "resolving", "asking", "leasing", "joined", "forwarding", "leaving"},
               owner : Connections \cup {None}, topic : Topics \cup {None},
               source : Sources \cup {None}, aborted : BOOLEAN, fresh : BOOLEAN, sent : Said]
SessionRecord == [topic : Topics \cup {None}, drive : {"off", "running", "ended"},
                  failures : 0..FailuresBeforeStale]

TaskType == task \in [Tasks -> TaskRecord]
OtherTypes ==
  /\ open \subseteq Connections
  /\ topics \in [Connections -> [Topics -> Tasks \cup {None}]]
  /\ lock \in [Registries -> Tasks \cup {None}]
  /\ registry \in [Topics -> Sessions \cup {None}]
  /\ session \in [Sessions -> SessionRecord]
  /\ latest \in [Sources -> Said] /\ down \in BOOLEAN

\* What a forwarder has at each point of its life.
Staged ==
  \A t \in Tasks :
    /\ task[t].at = "idle" => task[t] = Idle
    /\ task[t].at # "idle" => task[t].owner \in Connections /\ task[t].topic \in Topics
    /\ task[t].source # None <=> task[t].at \in {"joined", "forwarding", "leaving"}
    /\ task[t].at \in {"resolving", "asking"} => task[t].topic \in Books \cup Indicators
    /\ task[t].at = "leasing" => task[t].topic \in Prices \cup Indicators
    /\ task[t].source \in Prices => task[t].topic \in Prices
    /\ task[t].sent # "none" => task[t].at \in {"forwarding", "leaving"}

\* Who holds the lock is leasing an indicator, who leases one holds it, and nobody has made its session.
Locked ==
  /\ \A r \in Registries :
       lock[r] # None => task[lock[r]].at = "leasing" /\ task[lock[r]].topic \in Indicators
  /\ \A t \in Tasks :
       task[t].at = "leasing" /\ task[t].topic \in Indicators =>
         lock["indicators"] = t /\ registry[task[t].topic] = None

\* The weak entries reach the sessions that live, each under its topic.
Entered ==
  \A s \in Sessions :
    /\ session[s].topic = None => session[s] = Retired
    /\ \A k \in Topics : registry[k] = s <=> session[s].topic = k

\* SharedSession, without the records it compares.
Held ==
  /\ \A t \in Tasks :
       task[t].source \in Sessions =>
         /\ registry[task[t].topic] = task[t].source
         /\ session[task[t].source].topic = task[t].topic
  /\ \A s \in Sessions : session[s].topic # None => \E t \in Tasks : task[t].source = s

\* OnlyOwnForwarders, likewise.
Reached ==
  \A t \in Tasks :
    task[t].at # "idle" /\ ~ task[t].aborted =>
      task[t].owner \in open /\ topics[task[t].owner][task[t].topic] = t

\* Once a forwarder has shown something its session has too, and a failure it has yet to show is no blip.
Shown ==
  \A t \in Tasks :
    task[t].topic \in Books /\ task[t].at = "forwarding" /\ task[t].sent # "none" =>
      /\ latest[task[t].source] # "none"
      /\ task[t].sent \in Readings /\ latest[task[t].source] = "failed" =>
           session[task[t].source].failures >= FailuresBeforeStale

IInv == TaskType /\ OtherTypes /\ Staged /\ Locked /\ Entered /\ Held /\ Reached /\ Shown

-----------------------------------------------------------------------------
(* What steps have in common. *)

AllBut(t) == \A u \in Tasks : u # t => task'[u] = task[u]

\* Where the forwarder is, whose it is, what it holds and what it showed stay.
Same(old, new) ==
  /\ new \in TaskRecord
  /\ new.at = old.at /\ new.owner = old.owner /\ new.topic = old.topic
  /\ new.source = old.source /\ new.sent = old.sent

\* What Told and Aborting leave alone.
Refreshed ==
  \A u \in Tasks :
    /\ Same(task[u], task'[u]) /\ task'[u].aborted = task[u].aborted
    /\ task[u].at # "forwarding" => task'[u] = task[u]

Stopped(gone) ==
  \A u \in Tasks :
    /\ Same(task[u], task'[u])
    /\ u \notin gone \/ task[u].at = "idle" => task'[u] = task[u]
    /\ u \in gone /\ task[u].at # "idle" => task'[u].aborted

\* The spare task is a task.
LEMMA IdleIsTyped == Idle \in TaskRecord
BY DEF Idle, TaskRecord, Said

\* A session nobody holds is a session.
LEMMA RetiredIsTyped == Retired \in SessionRecord
BY SessionsAssumption DEF Retired, SessionRecord

\* A step of one task leaves the others alone.
LEMMA OneTask ==
  ASSUME TaskType, NEW t \in Tasks, NEW new \in TaskRecord, task' = [task EXCEPT ![t] = new]
  PROVE  TaskType' /\ AllBut(t) /\ task'[t] = new
BY DEF TaskType, AllBut

\* Getting a handle is a step of one task, which changes where it is and what it holds.
LEMMA JoiningIsOneTask ==
  ASSUME TaskType, NEW t \in Tasks, NEW x \in Sources,
         task' = [task EXCEPT ![t].at = "joined", ![t].source = x]
  PROVE  /\ TaskType' /\ AllBut(t)
         /\ task'[t].at = "joined" /\ task'[t].source = x
         /\ task'[t].owner = task[t].owner /\ task'[t].topic = task[t].topic
         /\ task'[t].aborted = task[t].aborted /\ task'[t].sent = task[t].sent
<1> DEFINE new == [task[t] EXCEPT !.at = "joined", !.source = x]
<1>1. task' = [task EXCEPT ![t] = new]
  BY DEF TaskType
<1>2. /\ new \in TaskRecord /\ new.at = "joined" /\ new.source = x
      /\ new.owner = task[t].owner /\ new.topic = task[t].topic
      /\ new.aborted = task[t].aborted /\ new.sent = task[t].sent
  BY DEF TaskType, TaskRecord
<1> HIDE DEF new
<1> QED BY <1>1, <1>2, OneTask

\* A session is made under a topic, driven and without a failure.
LEMMA MadeIsTyped ==
  ASSUME NEW k \in Topics
  PROVE  [topic |-> k, drive |-> "running", failures |-> 0] \in SessionRecord
BY SessionsAssumption DEF SessionRecord

\* As long as every handle and every session stays what it is, handles stay on shared sessions.
LEMMA HeldFollows ==
  ASSUME Held, UNCHANGED registry,
         \A u \in Tasks : /\ task'[u].source = task[u].source
                          /\ task[u].source # None => task'[u].topic = task[u].topic,
         \A s \in Sessions : session'[s].topic = session[s].topic
  PROVE  Held'
BY SessionsAssumption DEF Held

\* A step that tells or stops forwarders moves none, so the lock's holder still leases.
LEMMA SameKeeps ==
  ASSUME OtherTypes, Staged, Locked,
         \A u \in Tasks : Same(task[u], task'[u]) /\ (task[u].at = "idle" => task'[u] = task[u])
  PROVE  /\ Staged'
         /\ UNCHANGED <<lock, registry>> => Locked'
<1>1. Staged'
  BY DEF Staged, Same
<1>2. ASSUME UNCHANGED <<lock, registry>> PROVE Locked'
  BY <1>2 DEF Locked, Same, OtherTypes
<1> QED BY <1>1, <1>2

\* A value published marks who listens, and nothing else.
LEMMA ToldRefreshes ==
  ASSUME TaskType, NEW x, task' = Told(x)
  PROVE  TaskType' /\ Refreshed
<1>1. Refreshed
  <2> SUFFICES ASSUME NEW u \in Tasks
               PROVE  /\ Same(task[u], task'[u]) /\ task'[u].aborted = task[u].aborted
                      /\ task[u].at # "forwarding" => task'[u] = task[u]
    BY DEF Refreshed
  <2>1. task[u] \in TaskRecord
    BY DEF TaskType
  <2>2. u \in Receivers(x) => task[u].at = "forwarding"
    BY DEF Receivers
  <2>3. task'[u] = IF u \in Receivers(x) THEN [task[u] EXCEPT !.fresh = TRUE] ELSE task[u]
    BY DEF Told
  <2>4. CASE u \in Receivers(x)
    BY <2>1, <2>2, <2>3, <2>4 DEF Same, TaskRecord
  <2>5. CASE u \notin Receivers(x)
    BY <2>1, <2>3, <2>5 DEF Same
  <2> QED BY <2>4, <2>5
<1>2. task' = [u \in Tasks |-> task'[u]]
  BY DEF Told
<1> QED BY <1>1, <1>2 DEF Refreshed, Same, TaskType

\* An abort marks the forwarders it is meant for, and nothing else.
LEMMA AbortingStops ==
  ASSUME TaskType, Staged, NEW gone, task' = Aborting(gone)
  PROVE  TaskType' /\ Stopped(gone)
<1>1. Stopped(gone)
  <2> SUFFICES ASSUME NEW u \in Tasks
               PROVE  /\ Same(task[u], task'[u])
                      /\ u \notin gone \/ task[u].at = "idle" => task'[u] = task[u]
                      /\ u \in gone /\ task[u].at # "idle" => task'[u].aborted
    BY DEF Stopped
  <2>1. task[u] \in TaskRecord
    BY DEF TaskType
  <2>2. task[u] = Idle => task[u].at = "idle"
    BY DEF Idle
  <2>3. task[u] = Idle <=> task[u].at = "idle"
    BY <2>2 DEF Staged
  <2>4. task'[u] = IF u \in gone /\ task[u] # Idle THEN [task[u] EXCEPT !.aborted = TRUE] ELSE task[u]
    BY DEF Aborting
  <2>5. CASE u \in gone /\ task[u] # Idle
    BY <2>1, <2>3, <2>4, <2>5 DEF Same, TaskRecord
  <2>6. CASE ~ (u \in gone /\ task[u] # Idle)
    BY <2>1, <2>3, <2>4, <2>6 DEF Same
  <2> QED BY <2>5, <2>6
<1>2. task' = [u \in Tasks |-> task'[u]]
  BY DEF Aborting
<1> QED BY <1>1, <1>2 DEF Stopped, Same, TaskType

\* Nobody holds a session that is retired, and no entry reaches it.
LEMMA RetiredIsFree ==
  ASSUME TaskType, Staged, Entered, Held, NEW s \in Sessions, session[s] = Retired
  PROVE  /\ \A u \in Tasks : task[u].source # s
         /\ \A k \in Topics : registry[k] # s
<1>1. session[s].topic = None
  BY DEF Retired
<1>2. \A k \in Topics : registry[k] # s
  BY <1>1, SessionsAssumption DEF Entered, Topics
<1>3. ASSUME NEW u \in Tasks, task[u].source = s PROVE FALSE
  <2>1. task[u].at # "idle"
    BY <1>3, SessionsAssumption DEF Staged, Idle
  <2>2. task[u].topic \in Topics /\ registry[task[u].topic] = s
    BY <1>3, <2>1 DEF Staged, Held
  <2> QED BY <1>2, <2>2
<1> QED BY <1>2, <1>3

-----------------------------------------------------------------------------
(* The steps. *)

\* A subscription takes a spare task, and is the entry of its topic.
LEMMA SubscribeKeeps ==
  ASSUME IInv, NEW c \in Connections, NEW k \in Topics, Subscribe(c, k)
  PROVE  IInv'
<1> USE SessionsAssumption DEF Topics, Sources, Said, Registries, IInv
<1>a. PICK t \in Tasks :
        /\ Spare(t)
        /\ task' = [task EXCEPT ![t] = [Idle EXCEPT !.at = IF k \in Prices THEN "leasing" ELSE "resolving",
                                                    !.owner = c, !.topic = k]]
        /\ topics' = [topics EXCEPT ![c][k] = t]
  BY DEF Subscribe
<1> DEFINE new == [Idle EXCEPT !.at = IF k \in Prices THEN "leasing" ELSE "resolving", !.owner = c, !.topic = k]
<1>b. /\ new \in TaskRecord
      /\ new.at = (IF k \in Prices THEN "leasing" ELSE "resolving")
      /\ new.owner = c /\ new.topic = k /\ new.source = None /\ ~ new.aborted /\ new.sent = "none"
  BY DEF TaskRecord, Idle
<1> HIDE DEF new
<1>c. TaskType' /\ AllBut(t) /\ task'[t] = new /\ task[t] = Idle /\ ~ Mapped(t)
  BY <1>a, <1>b, OneTask DEF Spare, new
<1>d. c \in open /\ UNCHANGED <<open, lock, registry, session, latest, down>>
  BY DEF Subscribe
<1>e. task[t].at = "idle" /\ task[t].source = None
  BY <1>c DEF Idle
<1>1. TaskType'
  BY <1>c
<1>2. OtherTypes'
  BY <1>a, <1>d DEF OtherTypes
<1>3. Staged'
  BY <1>b, <1>c DEF Staged, AllBut
<1>4. Locked'
  BY <1>b, <1>c, <1>d, <1>e DEF Locked, AllBut, OtherTypes
<1>5. Entered'
  BY <1>d DEF Entered
<1>6. Held'
  BY <1>b, <1>c, <1>d, <1>e, HeldFollows DEF AllBut
<1>7. Reached'
  <2> SUFFICES ASSUME NEW u \in Tasks, task'[u].at # "idle", ~ task'[u].aborted
               PROVE  task'[u].owner \in open' /\ topics'[task'[u].owner][task'[u].topic] = u
    BY DEF Reached
  <2>1. CASE u = t
    BY <1>a, <1>b, <1>c, <1>d, <2>1 DEF OtherTypes
  <2>2. CASE u # t
    <3>1. /\ task'[u] = task[u] /\ task[u].owner \in Connections /\ task[u].topic \in Topics
          /\ task[u].owner \in open /\ topics[task[u].owner][task[u].topic] = u
      BY <1>c, <2>2 DEF AllBut, Staged, Reached
    <3>2. topics[c][k] = None
      BY DEF Subscribe
    <3> QED BY <1>a, <1>d, <3>1, <3>2 DEF OtherTypes
  <2> QED BY <2>1, <2>2
<1>8. Shown'
  BY <1>b, <1>c, <1>d DEF Shown, AllBut
<1> QED BY <1>1, <1>2, <1>3, <1>4, <1>5, <1>6, <1>7, <1>8

\* Letting a topic go stops the forwarder that was its entry.
LEMMA UnsubscribeKeeps ==
  ASSUME IInv, NEW c \in Connections, NEW k \in Topics, Unsubscribe(c, k)
  PROVE  IInv'
<1> USE SessionsAssumption DEF Topics, Sources, Said, Registries, IInv
<1>a. TaskType' /\ Stopped({topics[c][k]})
  BY AbortingStops DEF Unsubscribe
<1>b. \A u \in Tasks : Same(task[u], task'[u]) /\ (task[u].at = "idle" => task'[u] = task[u])
  BY <1>a DEF Stopped
<1>c. UNCHANGED <<lock, registry, session, latest, down>>
  BY DEF Unsubscribe
<1>1. TaskType'
  BY <1>a
<1>2. OtherTypes'
  BY <1>c DEF Unsubscribe, OtherTypes
<1>3. Staged'
  BY <1>b, SameKeeps
<1>4. Locked'
  BY <1>b, <1>c, SameKeeps
<1>5. Entered'
  BY <1>c DEF Entered
<1>6. Held'
  BY <1>b, <1>c, HeldFollows DEF Same
<1>7. Reached'
  <2> SUFFICES ASSUME NEW u \in Tasks, task'[u].at # "idle", ~ task'[u].aborted
               PROVE  task'[u].owner \in open' /\ topics'[task'[u].owner][task'[u].topic] = u
    BY DEF Reached
  <2>1. task[u].at # "idle"
    BY <1>b DEF Same
  <2>2. u \notin {topics[c][k]} /\ task'[u] = task[u]
    BY <1>a, <2>1 DEF Stopped
  <2>3. /\ task[u].owner \in Connections /\ task[u].topic \in Topics
        /\ task[u].owner \in open /\ topics[task[u].owner][task[u].topic] = u
    BY <2>1, <2>2 DEF Reached, Staged
  <2> QED BY <2>2, <2>3 DEF Unsubscribe, OtherTypes
<1>8. Shown'
  BY <1>b, <1>c DEF Shown, Same
<1> QED BY <1>1, <1>2, <1>3, <1>4, <1>5, <1>6, <1>7, <1>8

\* A connection that ends stops every forwarder it has.
LEMMA CloseKeeps ==
  ASSUME IInv, NEW c \in Connections, Close(c)
  PROVE  IInv'
<1> USE SessionsAssumption DEF Topics, Sources, Said, Registries, IInv
<1>a. TaskType' /\ Stopped({topics[c][k] : k \in Topics})
  BY AbortingStops DEF Close
<1>b. \A u \in Tasks : Same(task[u], task'[u]) /\ (task[u].at = "idle" => task'[u] = task[u])
  BY <1>a DEF Stopped
<1>c. UNCHANGED <<lock, registry, session, latest, down>>
  BY DEF Close
<1>1. TaskType'
  BY <1>a
<1>2. OtherTypes'
  BY <1>c DEF Close, OtherTypes
<1>3. Staged'
  BY <1>b, SameKeeps
<1>4. Locked'
  BY <1>b, <1>c, SameKeeps
<1>5. Entered'
  BY <1>c DEF Entered
<1>6. Held'
  BY <1>b, <1>c, HeldFollows DEF Same
<1>7. Reached'
  <2> SUFFICES ASSUME NEW u \in Tasks, task'[u].at # "idle", ~ task'[u].aborted
               PROVE  task'[u].owner \in open' /\ topics'[task'[u].owner][task'[u].topic] = u
    BY DEF Reached
  <2>1. task[u].at # "idle"
    BY <1>b DEF Same
  <2>2. u \notin {topics[c][k] : k \in Topics} /\ task'[u] = task[u]
    BY <1>a, <2>1 DEF Stopped
  <2>3. /\ task[u].owner \in Connections /\ task[u].topic \in Topics
        /\ task[u].owner \in open /\ topics[task[u].owner][task[u].topic] = u
    BY <2>1, <2>2 DEF Reached, Staged
  <2> QED BY <2>2, <2>3 DEF Close, OtherTypes
<1>8. Shown'
  BY <1>b, <1>c DEF Shown, Same
<1> QED BY <1>1, <1>2, <1>3, <1>4, <1>5, <1>6, <1>7, <1>8

\* A lookup ends in asking for a session or in nothing.
LEMMA ResolveKeeps ==
  ASSUME IInv, NEW t \in Tasks, Resolve(t)
  PROVE  IInv'
<1> USE SessionsAssumption DEF Topics, Sources, Said, Registries, IInv
<1>a. /\ task[t].at = "resolving" /\ task[t].source = None /\ task[t].sent = "none" /\ task[t] \in TaskRecord
      /\ UNCHANGED <<open, topics, lock, registry, session, latest, down>>
  BY DEF Resolve, Staged, TaskType
<1>b. PICK new : /\ task' = [task EXCEPT ![t] = new]
                 /\ new = Idle \/ new = [task[t] EXCEPT !.at = "asking"]
  BY DEF Resolve
<1>c. new \in TaskRecord
  BY <1>a, <1>b, IdleIsTyped DEF TaskRecord
<1>d. \/ new = Idle
      \/ /\ new.at = "asking" /\ new.owner = task[t].owner /\ new.topic = task[t].topic
         /\ new.source = None /\ new.aborted = task[t].aborted /\ new.sent = "none"
  BY <1>a, <1>b DEF TaskRecord
<1>e. TaskType' /\ AllBut(t) /\ task'[t] = new
  BY <1>b, <1>c, OneTask
<1> USE <1>a, <1>d, <1>e DEF AllBut, Idle
<1>1. TaskType'
  OBVIOUS
<1>2. OtherTypes'
  BY DEF OtherTypes
<1>3. Staged'
  BY DEF TaskType, Staged
<1>4. Locked'
  BY DEF TaskType, OtherTypes, Locked, Staged
<1>5. Entered'
  BY DEF OtherTypes, Entered, Locked, Staged, Retired, SessionRecord
<1>6. Held'
  BY HeldFollows
<1>7. Reached'
  BY DEF TaskType, OtherTypes, Reached, Staged
<1>8. Shown'
  BY DEF TaskType, OtherTypes, Shown, Staged, Held, Retired
<1> QED BY <1>1, <1>2, <1>3, <1>4, <1>5, <1>6, <1>7, <1>8

\* Who joins holds what the entry reaches.
LEMMA JoinKeeps ==
  ASSUME IInv, NEW t \in Tasks, Join(t)
  PROVE  IInv'
<1> USE SessionsAssumption DEF Topics, Sources, Said, Registries, IInv
<1>j. task[t].at = "asking" /\ registry[task[t].topic] \in Sessions
  BY DEF Join, Staged, OtherTypes
<1>k. /\ TaskType' /\ AllBut(t)
      /\ task'[t].at = "joined" /\ task'[t].source = registry[task[t].topic]
      /\ task'[t].owner = task[t].owner /\ task'[t].topic = task[t].topic
      /\ task'[t].aborted = task[t].aborted /\ task'[t].sent = task[t].sent
  BY <1>j, JoiningIsOneTask DEF Join
<1>l. UNCHANGED <<open, topics, lock, registry, session, latest, down>>
  BY DEF Join
<1> USE <1>j, <1>k, <1>l
<1> USE DEF AllBut
<1>1. TaskType'
  OBVIOUS
<1>2. OtherTypes'
  BY DEF OtherTypes
<1>3. Staged'
  BY DEF TaskType, Staged
<1>4. Locked'
  BY DEF TaskType, OtherTypes, Locked, Staged
<1>5. Entered'
  BY DEF OtherTypes, Entered, Locked, Staged, Retired, SessionRecord
<1>6. Held'
  BY DEF TaskType, OtherTypes, Held, Entered, Staged, Locked, Retired, Holders
<1>7. Reached'
  BY DEF TaskType, OtherTypes, Reached, Staged
<1>8. Shown'
  BY DEF TaskType, OtherTypes, Shown, Staged, Held, Retired
<1> QED BY <1>1, <1>2, <1>3, <1>4, <1>5, <1>6, <1>7, <1>8

\* The lock is taken while nobody has it, for a topic without a session.
LEMMA StartKeeps ==
  ASSUME IInv, NEW t \in Tasks, Start(t)
  PROVE  IInv'
<1> USE SessionsAssumption DEF Topics, Sources, Said, Registries, IInv
<1> USE DEF Start, RegistryOf
<1>1. TaskType'
  BY DEF TaskType, TaskRecord
<1>2. OtherTypes'
  BY DEF OtherTypes
<1>3. Staged'
  BY DEF TaskType, Staged
<1>4. Locked'
  BY DEF TaskType, OtherTypes, Locked, Staged
<1>5. Entered'
  BY DEF OtherTypes, Entered, Locked, Staged, Retired, SessionRecord
<1>6. Held'
  BY DEF TaskType, OtherTypes, Held, Entered, Staged, Locked, Retired, Holders
<1>7. Reached'
  BY DEF TaskType, OtherTypes, Reached, Staged
<1>8. Shown'
  BY DEF TaskType, OtherTypes, Shown, Staged, Held, Retired
<1> QED BY <1>1, <1>2, <1>3, <1>4, <1>5, <1>6, <1>7, <1>8

\* A price is leased by its forwarder itself.
LEMMA LeasePriceKeeps ==
  ASSUME IInv, NEW t \in Tasks, LeasePrice(t)
  PROVE  IInv'
<1> USE SessionsAssumption DEF Topics, Sources, Said, Registries, IInv
<1>j. task[t].at = "leasing" /\ task[t].topic \in Prices
  BY DEF LeasePrice
<1>k. /\ TaskType' /\ AllBut(t)
      /\ task'[t].at = "joined" /\ task'[t].source = task[t].topic
      /\ task'[t].owner = task[t].owner /\ task'[t].topic = task[t].topic
      /\ task'[t].aborted = task[t].aborted /\ task'[t].sent = task[t].sent
  BY <1>j, JoiningIsOneTask DEF LeasePrice
<1>l. UNCHANGED <<open, topics, lock, registry, session, latest, down>>
  BY DEF LeasePrice
<1> USE <1>j, <1>k, <1>l
<1> USE DEF AllBut
<1>1. TaskType'
  OBVIOUS
<1>2. OtherTypes'
  BY DEF OtherTypes
<1>3. Staged'
  BY DEF TaskType, Staged
<1>4. Locked'
  BY DEF TaskType, OtherTypes, Locked, Staged
<1>5. Entered'
  BY DEF OtherTypes, Entered, Locked, Staged, Retired, SessionRecord
<1>6. Held'
  BY DEF TaskType, OtherTypes, Held, Entered, Staged, Locked, Retired, Holders
<1>7. Reached'
  BY DEF TaskType, OtherTypes, Reached, Staged
<1>8. Shown'
  BY DEF TaskType, OtherTypes, Shown, Staged, Held, Retired
<1> QED BY <1>1, <1>2, <1>3, <1>4, <1>5, <1>6, <1>7, <1>8

\* A book's session is made under the lock, and reached by its entry.
LEMMA OpenBookKeeps ==
  ASSUME IInv, NEW t \in Tasks, OpenBook(t)
  PROVE  IInv'
<1> USE SessionsAssumption DEF Topics, Sources, Said, Registries, IInv
<1>a. PICK s \in Sessions : Created(t, s)
  BY DEF OpenBook
<1>b. /\ \A u \in Tasks : task[u].source # s
      /\ \A k \in Topics : registry[k] # s
  BY <1>a, RetiredIsFree DEF Created
<1>j. task[t].at = "asking" /\ task[t].topic \in Books
  BY DEF OpenBook
<1>k. /\ TaskType' /\ AllBut(t)
      /\ task'[t].at = "joined" /\ task'[t].source = s
      /\ task'[t].owner = task[t].owner /\ task'[t].topic = task[t].topic
      /\ task'[t].aborted = task[t].aborted /\ task'[t].sent = task[t].sent
  BY <1>a, <1>j, JoiningIsOneTask DEF Created
<1>m. /\ session' = [session EXCEPT ![s] = [topic |-> task[t].topic, drive |-> "running", failures |-> 0]]
      /\ session'[s] \in SessionRecord /\ session'[s].topic = task[t].topic
  BY <1>a, <1>j, MadeIsTyped DEF Created, OtherTypes
<1> USE <1>a, <1>b, <1>j, <1>k, <1>m
<1> USE DEF OpenBook, RegistryOf, Created, AllBut
<1>1. TaskType'
  OBVIOUS
<1>2. OtherTypes'
  <2>1. session' \in [Sessions -> SessionRecord]
    BY <1>m DEF OtherTypes
  <2> QED BY <2>1 DEF OtherTypes
<1>3. Staged'
  BY DEF TaskType, Staged
<1>4. Locked'
  BY DEF TaskType, OtherTypes, Locked, Staged
<1>5. Entered'
  BY DEF OtherTypes, Entered, Locked, Staged, Retired, SessionRecord
<1>6. Held'
  <2>a. registry[task[t].topic] = None
    BY <1>j DEF OpenBook
  <2>1. /\ registry' = [registry EXCEPT ![task[t].topic] = s] /\ registry[task[t].topic] = None
        /\ task[t].topic \in Topics /\ \A x \in Sessions : x # s => session'[x] = session[x]
    BY <1>a, <1>j, <1>m, <2>a DEF Created, OtherTypes
  <2>2. ASSUME NEW u \in Tasks, u # t, task[u].source \in Sessions
        PROVE  /\ registry'[task[u].topic] = task[u].source
               /\ session'[task[u].source].topic = task[u].topic
    <3>1. task[u].source # s /\ registry[task[u].topic] = task[u].source
          /\ session[task[u].source].topic = task[u].topic /\ task[u].topic \in Topics
      BY <1>b, <2>2 DEF Held, Staged
    <3> QED BY <2>1, <2>2, <3>1 DEF OtherTypes
  <2>3. /\ registry'[task'[t].topic] = s /\ session'[s].topic = task'[t].topic
    BY <1>k, <1>m, <2>1 DEF OtherTypes
  <2>4. ASSUME NEW x \in Sessions, x # s, session'[x].topic # None
        PROVE  \E u \in Tasks : task'[u].source = x
    <3>1. PICK u \in Tasks : task[u].source = x
      BY <2>1, <2>4 DEF Held
    <3>2. u # t
      BY <1>j, <2>4, <3>1 DEF Staged
    <3> QED BY <1>k, <3>1, <3>2 DEF AllBut
  <2>5. \A x \in Sessions : session'[x].topic # None => \E u \in Tasks : task'[u].source = x
    BY <1>k, <2>4
  <2>6. \A u \in Tasks : task'[u].source \in Sessions =>
          /\ registry'[task'[u].topic] = task'[u].source
          /\ session'[task'[u].source].topic = task'[u].topic
    <3> TAKE u \in Tasks
    <3>1. CASE u = t
      BY <1>k, <2>3, <3>1
    <3>2. CASE u # t
      <4>1. task'[u] = task[u]
        BY <1>k, <3>2 DEF AllBut
      <4> QED BY <2>2, <3>2, <4>1
    <3> QED BY <3>1, <3>2
  <2> QED BY <2>5, <2>6 DEF Held
<1>7. Reached'
  BY DEF TaskType, OtherTypes, Reached, Staged
<1>8. Shown'
  BY DEF TaskType, OtherTypes, Shown, Staged, Held, Retired
<1> QED BY <1>1, <1>2, <1>3, <1>4, <1>5, <1>6, <1>7, <1>8

\* An indicator's session is made by the one who holds the lock.
LEMMA LeaseKeeps ==
  ASSUME IInv, NEW t \in Tasks, Lease(t)
  PROVE  IInv'
<1> USE SessionsAssumption DEF Topics, Sources, Said, Registries, IInv
<1>a. PICK s \in Sessions : Created(t, s)
  BY DEF Lease
<1>b. /\ \A u \in Tasks : task[u].source # s
      /\ \A k \in Topics : registry[k] # s
  BY <1>a, RetiredIsFree DEF Created
<1>j. task[t].at = "leasing" /\ task[t].topic \in Indicators
  BY DEF Lease
<1>k. /\ TaskType' /\ AllBut(t)
      /\ task'[t].at = "joined" /\ task'[t].source = s
      /\ task'[t].owner = task[t].owner /\ task'[t].topic = task[t].topic
      /\ task'[t].aborted = task[t].aborted /\ task'[t].sent = task[t].sent
  BY <1>a, <1>j, JoiningIsOneTask DEF Created
<1>m. /\ session' = [session EXCEPT ![s] = [topic |-> task[t].topic, drive |-> "running", failures |-> 0]]
      /\ session'[s] \in SessionRecord /\ session'[s].topic = task[t].topic
  BY <1>a, <1>j, MadeIsTyped DEF Created, OtherTypes
<1> USE <1>a, <1>b, <1>j, <1>k, <1>m
<1> USE DEF Lease, Released, Created, AllBut
<1>1. TaskType'
  OBVIOUS
<1>2. OtherTypes'
  <2>1. session' \in [Sessions -> SessionRecord]
    BY <1>m DEF OtherTypes
  <2> QED BY <2>1 DEF OtherTypes
<1>3. Staged'
  BY DEF TaskType, Staged
<1>4. Locked'
  BY DEF TaskType, OtherTypes, Locked, Staged
<1>5. Entered'
  BY DEF OtherTypes, Entered, Locked, Staged, Retired, SessionRecord
<1>6. Held'
  <2>a. registry[task[t].topic] = None
    BY <1>j DEF Locked
  <2>1. /\ registry' = [registry EXCEPT ![task[t].topic] = s] /\ registry[task[t].topic] = None
        /\ task[t].topic \in Topics /\ \A x \in Sessions : x # s => session'[x] = session[x]
    BY <1>a, <1>j, <1>m, <2>a DEF Created, OtherTypes
  <2>2. ASSUME NEW u \in Tasks, u # t, task[u].source \in Sessions
        PROVE  /\ registry'[task[u].topic] = task[u].source
               /\ session'[task[u].source].topic = task[u].topic
    <3>1. task[u].source # s /\ registry[task[u].topic] = task[u].source
          /\ session[task[u].source].topic = task[u].topic /\ task[u].topic \in Topics
      BY <1>b, <2>2 DEF Held, Staged
    <3> QED BY <2>1, <2>2, <3>1 DEF OtherTypes
  <2>3. /\ registry'[task'[t].topic] = s /\ session'[s].topic = task'[t].topic
    BY <1>k, <1>m, <2>1 DEF OtherTypes
  <2>4. ASSUME NEW x \in Sessions, x # s, session'[x].topic # None
        PROVE  \E u \in Tasks : task'[u].source = x
    <3>1. PICK u \in Tasks : task[u].source = x
      BY <2>1, <2>4 DEF Held
    <3>2. u # t
      BY <1>j, <2>4, <3>1 DEF Staged
    <3> QED BY <1>k, <3>1, <3>2 DEF AllBut
  <2>5. \A x \in Sessions : session'[x].topic # None => \E u \in Tasks : task'[u].source = x
    BY <1>k, <2>4
  <2>6. \A u \in Tasks : task'[u].source \in Sessions =>
          /\ registry'[task'[u].topic] = task'[u].source
          /\ session'[task'[u].source].topic = task'[u].topic
    <3> TAKE u \in Tasks
    <3>1. CASE u = t
      BY <1>k, <2>3, <3>1
    <3>2. CASE u # t
      <4>1. task'[u] = task[u]
        BY <1>k, <3>2 DEF AllBut
      <4> QED BY <2>2, <3>2, <4>1
    <3> QED BY <3>1, <3>2
  <2> QED BY <2>5, <2>6 DEF Held
<1>7. Reached'
  BY DEF TaskType, OtherTypes, Reached, Staged
<1>8. Shown'
  BY DEF TaskType, OtherTypes, Shown, Staged, Held, Retired
<1> QED BY <1>1, <1>2, <1>3, <1>4, <1>5, <1>6, <1>7, <1>8

\* A refusal gives the lock back.
LEMMA RefuseKeeps ==
  ASSUME IInv, NEW t \in Tasks, Refuse(t)
  PROVE  IInv'
<1> USE SessionsAssumption DEF Topics, Sources, Said, Registries, IInv
<1>a. TaskType' /\ AllBut(t) /\ task'[t] = Idle
  BY OneTask, IdleIsTyped DEF Refuse
<1> USE <1>a
<1> USE DEF Refuse, Released, AllBut, Idle
<1>1. TaskType'
  OBVIOUS
<1>2. OtherTypes'
  BY DEF OtherTypes
<1>3. Staged'
  BY DEF TaskType, Staged
<1>4. Locked'
  BY DEF TaskType, OtherTypes, Locked, Staged
<1>5. Entered'
  BY DEF OtherTypes, Entered, Locked, Staged, Retired, SessionRecord
<1>6. Held'
  BY DEF TaskType, OtherTypes, Held, Entered, Staged, Locked, Retired, Holders
<1>7. Reached'
  BY DEF TaskType, OtherTypes, Reached, Staged
<1>8. Shown'
  BY DEF TaskType, OtherTypes, Shown, Staged, Held, Retired
<1> QED BY <1>1, <1>2, <1>3, <1>4, <1>5, <1>6, <1>7, <1>8

\* Who starts listening has shown nothing yet.
LEMMA ListenKeeps ==
  ASSUME IInv, NEW t \in Tasks, Listen(t)
  PROVE  IInv'
<1> USE SessionsAssumption DEF Topics, Sources, Said, Registries, IInv
<1> DEFINE new == [task[t] EXCEPT !.at = "forwarding", !.fresh = TRUE]
<1>a. /\ task[t].at = "joined" /\ task[t].sent = "none" /\ task[t] \in TaskRecord
      /\ UNCHANGED <<open, topics, lock, registry, session, latest, down>>
  BY DEF Listen, Staged, TaskType
<1>b. task' = [task EXCEPT ![t] = new]
  BY DEF Listen, TaskType
<1>c. /\ new \in TaskRecord
      /\ new.at = "forwarding" /\ new.owner = task[t].owner /\ new.topic = task[t].topic
      /\ new.source = task[t].source /\ new.aborted = task[t].aborted /\ new.sent = "none"
  BY <1>a DEF TaskRecord
<1> HIDE DEF new
<1>d. TaskType' /\ AllBut(t) /\ task'[t] = new
  BY <1>b, <1>c, OneTask
<1> USE <1>a, <1>c, <1>d DEF AllBut
<1>1. TaskType'
  OBVIOUS
<1>2. OtherTypes'
  BY DEF OtherTypes
<1>3. Staged'
  BY DEF TaskType, Staged
<1>4. Locked'
  BY DEF TaskType, OtherTypes, Locked, Staged
<1>5. Entered'
  BY DEF OtherTypes, Entered, Locked, Staged, Retired, SessionRecord
<1>6. Held'
  BY HeldFollows
<1>7. Reached'
  BY DEF TaskType, OtherTypes, Reached, Staged
<1>8. Shown'
  BY DEF TaskType, OtherTypes, Shown, Staged, Held, Retired
<1> QED BY <1>1, <1>2, <1>3, <1>4, <1>5, <1>6, <1>7, <1>8

\* A forwarder shows what the channel holds.
LEMMA ForwardKeeps ==
  ASSUME IInv, NEW t \in Tasks, Forward(t)
  PROVE  IInv'
<1> USE SessionsAssumption DEF Topics, Sources, Said, Registries, IInv
<1>a. /\ task[t].at = "forwarding" /\ task[t] \in TaskRecord /\ task[t].source # None
      /\ UNCHANGED <<open, topics, lock, registry, session, latest, down>>
  BY DEF Forward, Staged, TaskType
<1>b. task[t].source \in Sources
  BY <1>a DEF TaskRecord
<1>c. latest[task[t].source] \in Said
  BY <1>b DEF OtherTypes
<1>d. PICK place \in {"forwarding", "leaving"}, sent \in {task[t].sent, latest[task[t].source]} :
        /\ task' = [task EXCEPT ![t] = [@ EXCEPT !.fresh = FALSE, !.at = place, !.sent = sent]]
        /\ sent = task[t].sent \/ latest[task[t].source] # "none"
  <2> DEFINE said == latest[task[t].source]
             place == IF said # "none" /\ task[t].owner \notin open THEN "leaving" ELSE task[t].at
             sent == IF said = "none" \/ task[t].topic \notin Books THEN task[t].sent ELSE said
  <2>1. task' = [task EXCEPT ![t] = [@ EXCEPT !.fresh = FALSE, !.at = place, !.sent = sent]]
    BY DEF Forward, TaskType, TaskRecord
  <2> QED BY <1>a, <2>1
<1> DEFINE new == [task[t] EXCEPT !.fresh = FALSE, !.at = place, !.sent = sent]
<1>e. /\ new \in TaskRecord
      /\ new.at = place /\ new.owner = task[t].owner /\ new.topic = task[t].topic
      /\ new.source = task[t].source /\ new.aborted = task[t].aborted /\ new.sent = sent
  BY <1>a, <1>c DEF TaskRecord
<1>f. task' = [task EXCEPT ![t] = new]
  BY <1>d
<1> HIDE DEF new
<1>g. TaskType' /\ AllBut(t) /\ task'[t] = new
  BY <1>e, <1>f, OneTask
<1> USE <1>a, <1>d, <1>e, <1>g DEF AllBut
<1>1. TaskType'
  OBVIOUS
<1>2. OtherTypes'
  BY DEF OtherTypes
<1>3. Staged'
  BY DEF TaskType, Staged
<1>4. Locked'
  BY DEF TaskType, OtherTypes, Locked, Staged
<1>5. Entered'
  BY DEF OtherTypes, Entered, Locked, Staged, Retired, SessionRecord
<1>6. Held'
  BY HeldFollows
<1>7. Reached'
  BY DEF TaskType, OtherTypes, Reached, Staged
<1>8. Shown'
  BY DEF TaskType, OtherTypes, Shown, Staged, Held, Retired
<1> QED BY <1>1, <1>2, <1>3, <1>4, <1>5, <1>6, <1>7, <1>8

\* A forwarder that was stopped gives back the lock or its receiver.
LEMMA VanishKeeps ==
  ASSUME IInv, NEW t \in Tasks, Vanish(t)
  PROVE  IInv'
<1> USE SessionsAssumption DEF Topics, Sources, Said, Registries, IInv
<1>a. /\ task[t].aborted /\ lock' = Released(t) /\ task[t] \in TaskRecord
      /\ UNCHANGED <<open, topics, registry, session, latest, down>>
  BY DEF Vanish, TaskType
<1> DEFINE gone == [task[t] EXCEPT !.at = "leaving", !.fresh = FALSE, !.sent = "none"]
<1>b. \E new : /\ task' = [task EXCEPT ![t] = new]
               /\ \/ task[t].at \in {"resolving", "asking", "leasing"} /\ new = Idle
                  \/ task[t].at = "forwarding" /\ new = gone
  BY DEF Vanish, TaskType
<1>c. /\ gone \in TaskRecord
      /\ gone.at = "leaving" /\ gone.owner = task[t].owner /\ gone.topic = task[t].topic
      /\ gone.source = task[t].source /\ gone.aborted = task[t].aborted /\ gone.sent = "none"
  BY <1>a DEF TaskRecord
<1> HIDE DEF gone
<1>d. PICK new : /\ task' = [task EXCEPT ![t] = new]
                 /\ \/ task[t].at \in {"resolving", "asking", "leasing"} /\ new = Idle
                    \/ task[t].at = "forwarding" /\ new = gone
  BY <1>b
<1>e. TaskType' /\ AllBut(t) /\ task'[t] = new
  BY <1>c, <1>d, OneTask, IdleIsTyped
<1>f. task[t].at \in {"resolving", "asking", "leasing"} =>
        /\ task'[t] = Idle /\ task'[t].at = "idle" /\ task'[t].source = None /\ task'[t].sent = "none"
        /\ task[t].source = None
  <2>1. /\ Idle.at = "idle" /\ Idle.source = None /\ Idle.sent = "none"
    BY DEF Idle
  <2>2. task[t].at \in {"resolving", "asking", "leasing"} => task[t].source = None
    BY DEF Staged
  <2> QED BY <1>d, <1>e, <2>1, <2>2
<1>g. task[t].at = "forwarding" =>
        /\ task'[t].at = "leaving" /\ task'[t].owner = task[t].owner /\ task'[t].topic = task[t].topic
        /\ task'[t].source = task[t].source /\ task'[t].aborted /\ task'[t].sent = "none"
  BY <1>a, <1>c, <1>d, <1>e
<1>h. task[t].at \in {"resolving", "asking", "leasing", "forwarding"}
  BY <1>d
<1> USE <1>a, <1>e, <1>f, <1>g, <1>h DEF AllBut, Released
<1>1. TaskType'
  OBVIOUS
<1>2. OtherTypes'
  BY DEF OtherTypes
<1>3. Staged'
  BY DEF TaskType, Staged
<1>4. Locked'
  BY DEF TaskType, OtherTypes, Locked, Staged
<1>5. Entered'
  BY DEF OtherTypes, Entered, Locked, Staged, Retired, SessionRecord
<1>6. Held'
  BY HeldFollows
<1>7. Reached'
  BY DEF TaskType, OtherTypes, Reached, Staged
<1>8. Shown'
  BY DEF TaskType, OtherTypes, Shown, Staged, Held, Retired
<1> QED BY <1>1, <1>2, <1>3, <1>4, <1>5, <1>6, <1>7, <1>8

\* The last handle takes the session and its entry with it.
LEMMA LeaveKeeps ==
  ASSUME IInv, NEW t \in Tasks, Leave(t)
  PROVE  IInv'
<1> USE SessionsAssumption DEF Topics, Sources, Said, Registries, IInv
<1>a. TaskType' /\ AllBut(t) /\ task'[t] = Idle
  BY OneTask, IdleIsTyped DEF Leave
<1> USE <1>a DEF Idle
<1> USE DEF Leave, AllBut
<1>1. TaskType'
  OBVIOUS
<1>2. OtherTypes'
  BY RetiredIsTyped DEF OtherTypes
<1>3. Staged'
  BY DEF TaskType, Staged
<1>4. Locked'
  BY DEF TaskType, OtherTypes, Locked, Staged
<1>5. Entered'
  BY DEF OtherTypes, Entered, Locked, Staged, Retired, SessionRecord
<1>6. Held'
  BY DEF TaskType, OtherTypes, Held, Entered, Staged, Locked, Retired, Holders
<1>7. Reached'
  BY DEF TaskType, OtherTypes, Reached, Staged
<1>8. Shown'
  <2> SUFFICES ASSUME NEW u \in Tasks, task'[u].topic \in Books, task'[u].at = "forwarding", task'[u].sent # "none"
               PROVE  /\ latest'[task'[u].source] # "none"
                      /\ task'[u].sent \in Readings /\ latest'[task'[u].source] = "failed" =>
                           session'[task'[u].source].failures >= FailuresBeforeStale
    BY DEF Shown
  <2>1. u # t /\ task'[u] = task[u]
    BY DEF AllBut
  <2>2. task[u].source \in Sources
    BY <2>1 DEF Staged, TaskType, TaskRecord
  <2>3. latest'[task[u].source] = latest[task[u].source] /\
        (task[u].source \in Sessions => session'[task[u].source] = session[task[u].source])
    BY <2>1, <2>2 DEF Holders, OtherTypes
  <2>4. task[u].source \in Sessions
    BY <2>1, <2>2 DEF Staged
  <2> QED BY <2>1, <2>3, <2>4 DEF Shown
<1> QED BY <1>1, <1>2, <1>3, <1>4, <1>5, <1>6, <1>7, <1>8

\* A tick is no session's.
LEMMA TickKeeps ==
  ASSUME IInv, NEW k \in Prices, Tick(k)
  PROVE  IInv'
<1> USE SessionsAssumption DEF Topics, Sources, Said, Registries, IInv
<1>a. TaskType' /\ Refreshed
  BY ToldRefreshes DEF Tick
<1>b. UNCHANGED <<open, topics, lock, registry, down>>
  BY DEF Tick
<1>c. \A u \in Tasks : Same(task[u], task'[u]) /\ (task[u].at = "idle" => task'[u] = task[u])
  BY <1>a DEF Refreshed
<1>d. UNCHANGED session
  BY DEF Tick
<1>1. TaskType'
  BY <1>a
<1>2. OtherTypes'
  BY <1>b, <1>d DEF Tick, OtherTypes
<1>3. Staged'
  BY <1>c, SameKeeps
<1>4. Locked'
  BY <1>b, <1>c, SameKeeps
<1>5. Entered'
  BY <1>b, <1>d DEF Entered
<1>6. Held'
  BY <1>b, <1>c, <1>d, HeldFollows DEF Same
<1>7. Reached'
  BY <1>a, <1>b DEF Reached, Refreshed, Same
<1>8. Shown'
  BY <1>c, <1>d DEF Tick, Shown, Same, Staged, OtherTypes
<1> QED BY <1>1, <1>2, <1>3, <1>4, <1>5, <1>6, <1>7, <1>8

\* An engine's word is no book's.
LEMMA DriveKeeps ==
  ASSUME IInv, NEW s \in Sessions, Drive(s)
  PROVE  IInv'
<1> USE SessionsAssumption DEF Topics, Sources, Said, Registries, IInv
<1>a. TaskType' /\ Refreshed
  BY ToldRefreshes DEF Drive
<1>b. UNCHANGED <<open, topics, lock, registry, down>>
  BY DEF Drive
<1>c. \A u \in Tasks : Same(task[u], task'[u]) /\ (task[u].at = "idle" => task'[u] = task[u])
  BY <1>a DEF Refreshed
<1>d. /\ session'[s].topic = session[s].topic /\ session[s].topic # None
      /\ session'[s] \in SessionRecord
      /\ \A x \in Sessions : x # s => session'[x] = session[x]
      /\ session' = [x \in Sessions |-> session'[x]]
  BY DEF Drive, OtherTypes, SessionRecord
<1>e. /\ \A x \in Sources : x # s => latest'[x] = latest[x]
      /\ latest' \in [Sources -> Said]
  BY DEF Drive, OtherTypes
<1>1. TaskType'
  BY <1>a
<1>2. OtherTypes'
  BY <1>b, <1>d, <1>e DEF OtherTypes
<1>3. Staged'
  BY <1>c, SameKeeps
<1>4. Locked'
  BY <1>b, <1>c, SameKeeps
<1>5. Entered'
  BY <1>b, <1>d DEF Entered
<1>6. Held'
  BY <1>b, <1>c, <1>d, HeldFollows DEF Same
<1>7. Reached'
  BY <1>a, <1>b DEF Reached, Refreshed, Same
<1>8. Shown'
  <2> SUFFICES ASSUME NEW u \in Tasks, task'[u].topic \in Books, task'[u].at = "forwarding", task'[u].sent # "none"
               PROVE  /\ latest'[task'[u].source] # "none"
                      /\ task'[u].sent \in Readings /\ latest'[task'[u].source] = "failed" =>
                           session'[task'[u].source].failures >= FailuresBeforeStale
    BY DEF Shown
  <2>1. /\ task[u].topic \in Books /\ task[u].at = "forwarding" /\ task[u].sent = task'[u].sent
        /\ task[u].source = task'[u].source /\ task[u].sent # "none"
    BY <1>c DEF Same
  <2>2. task[u].source \in Sessions
    BY <2>1 DEF Staged, TaskType, TaskRecord
  <2>3. CASE task[u].source # s
    BY <1>d, <1>e, <2>1, <2>2, <2>3 DEF Shown
  <2>4. CASE task[u].source = s
    BY <2>1, <2>2, <2>4 DEF Drive, Held
  <2> QED BY <2>3, <2>4
<1> QED BY <1>1, <1>2, <1>3, <1>4, <1>5, <1>6, <1>7, <1>8

\* An answer starts the count again, and replaces a failure for whoever has shown something.
LEMMA AnswerKeeps ==
  ASSUME IInv, NEW s \in Sessions, Answer(s)
  PROVE  IInv'
<1> USE SessionsAssumption DEF Topics, Sources, Said, Registries, IInv
<1>a. TaskType' /\ Refreshed
  BY ToldRefreshes DEF Answer
<1>b. UNCHANGED <<open, topics, lock, registry, down>>
  BY DEF Answer
<1>c. \A u \in Tasks : Same(task[u], task'[u]) /\ (task[u].at = "idle" => task'[u] = task[u])
  BY <1>a DEF Refreshed
<1>s. session' = [session EXCEPT ![s].failures = 0] /\ session[s] \in SessionRecord /\ session[s].topic \in Books
  BY DEF Answer, Polled, OtherTypes
<1>d. /\ session'[s].topic = session[s].topic /\ session[s].topic # None
      /\ session'[s] \in SessionRecord
      /\ \A x \in Sessions : x # s => session'[x] = session[x]
      /\ session' = [x \in Sessions |-> session'[x]]
  <2>1. [session[s] EXCEPT !.failures = 0] \in SessionRecord /\ [session[s] EXCEPT !.failures = 0].topic = session[s].topic
    BY <1>s DEF SessionRecord
  <2>2. session' = [session EXCEPT ![s] = [session[s] EXCEPT !.failures = 0]]
    BY <1>s
  <2> QED BY <1>s, <2>1, <2>2 DEF OtherTypes
<1>e. /\ \A x \in Sources : x # s => latest'[x] = latest[x]
      /\ latest' \in [Sources -> Said]
  BY DEF Answer, OtherTypes
<1>1. TaskType'
  BY <1>a
<1>2. OtherTypes'
  BY <1>b, <1>d, <1>e DEF OtherTypes
<1>3. Staged'
  BY <1>c, SameKeeps
<1>4. Locked'
  BY <1>b, <1>c, SameKeeps
<1>5. Entered'
  BY <1>b, <1>d DEF Entered
<1>6. Held'
  BY <1>b, <1>c, <1>d, HeldFollows DEF Same
<1>7. Reached'
  BY <1>a, <1>b DEF Reached, Refreshed, Same
<1>8. Shown'
  <2> SUFFICES ASSUME NEW u \in Tasks, task'[u].topic \in Books, task'[u].at = "forwarding", task'[u].sent # "none"
               PROVE  /\ latest'[task'[u].source] # "none"
                      /\ task'[u].sent \in Readings /\ latest'[task'[u].source] = "failed" =>
                           session'[task'[u].source].failures >= FailuresBeforeStale
    BY DEF Shown
  <2>1. /\ task[u].topic \in Books /\ task[u].at = "forwarding" /\ task[u].sent = task'[u].sent
        /\ task[u].source = task'[u].source /\ task[u].sent # "none"
    BY <1>c DEF Same
  <2>2. task[u].source \in Sessions
    BY <2>1 DEF Staged, TaskType, TaskRecord
  <2>3. CASE task[u].source # s
    BY <1>d, <1>e, <2>1, <2>2, <2>3 DEF Shown
  <2>4. CASE task[u].source = s
    <3>1. u \in Receivers(s)
      BY <2>1, <2>4 DEF Receivers, Holders
    <3>2. latest'[s] \in Readings
      BY <3>1 DEF Answer, OtherTypes
    <3> QED BY <2>1, <2>4, <3>2
  <2> QED BY <2>3, <2>4
<1> QED BY <1>1, <1>2, <1>3, <1>4, <1>5, <1>6, <1>7, <1>8

\* The poll that fails counts, and is told to those who have shown something when the count is full.
LEMMA MissKeeps ==
  ASSUME IInv, NEW s \in Sessions, Miss(s)
  PROVE  IInv'
<1> USE SessionsAssumption DEF Topics, Sources, Said, Registries, IInv
<1>a. TaskType' /\ Refreshed
  <2>1. CASE task' = task
    BY <2>1 DEF TaskType, Refreshed, Same
  <2> QED BY <2>1, ToldRefreshes DEF Miss
<1>b. UNCHANGED <<open, topics, lock, registry, down>>
  BY DEF Miss
<1>c. \A u \in Tasks : Same(task[u], task'[u]) /\ (task[u].at = "idle" => task'[u] = task[u])
  BY <1>a DEF Refreshed
<1> DEFINE n == session[s].failures
<1>n. /\ n \in 0..FailuresBeforeStale /\ OneMore(n) \in 0..FailuresBeforeStale /\ OneMore(n) >= n
      /\ n + 1 >= FailuresBeforeStale => OneMore(n) >= FailuresBeforeStale
  BY DEF OneMore, OtherTypes, SessionRecord
<1>s. session' = [session EXCEPT ![s].failures = OneMore(n)]
  BY DEF Miss
<1>t. session[s] \in SessionRecord /\ session[s].topic \in Books
  BY DEF Miss, Polled, OtherTypes
<1>d. /\ session'[s].topic = session[s].topic /\ session[s].topic # None
      /\ session'[s] \in SessionRecord
      /\ \A x \in Sessions : x # s => session'[x] = session[x]
      /\ session' = [x \in Sessions |-> session'[x]]
  <2>1. [session[s] EXCEPT !.failures = OneMore(n)] \in SessionRecord /\ [session[s] EXCEPT !.failures = OneMore(n)].topic = session[s].topic
    BY <1>n, <1>t DEF SessionRecord
  <2>2. session' = [session EXCEPT ![s] = [session[s] EXCEPT !.failures = OneMore(n)]]
    BY <1>s
  <2> QED BY <1>t, <2>1, <2>2 DEF OtherTypes
<1>e. /\ \A x \in Sources : x # s => latest'[x] = latest[x]
      /\ latest' \in [Sources -> Said]
  BY DEF Miss, OtherTypes
<1>1. TaskType'
  BY <1>a
<1>2. OtherTypes'
  BY <1>b, <1>d, <1>e DEF OtherTypes
<1>3. Staged'
  BY <1>c, SameKeeps
<1>4. Locked'
  BY <1>b, <1>c, SameKeeps
<1>5. Entered'
  BY <1>b, <1>d DEF Entered
<1>6. Held'
  BY <1>b, <1>c, <1>d, HeldFollows DEF Same
<1>7. Reached'
  BY <1>a, <1>b DEF Reached, Refreshed, Same
<1>8. Shown'
  <2> SUFFICES ASSUME NEW u \in Tasks, task'[u].topic \in Books, task'[u].at = "forwarding", task'[u].sent # "none"
               PROVE  /\ latest'[task'[u].source] # "none"
                      /\ task'[u].sent \in Readings /\ latest'[task'[u].source] = "failed" =>
                           session'[task'[u].source].failures >= FailuresBeforeStale
    BY DEF Shown
  <2>1. /\ task[u].topic \in Books /\ task[u].at = "forwarding" /\ task[u].sent = task'[u].sent
        /\ task[u].source = task'[u].source /\ task[u].sent # "none"
    BY <1>c DEF Same
  <2>2. task[u].source \in Sessions
    BY <2>1 DEF Staged, TaskType, TaskRecord
  <2>3. CASE task[u].source # s
    BY <1>d, <1>e, <2>1, <2>2, <2>3 DEF Shown
  <2>4. CASE task[u].source = s
    <3>1. session'[s].failures = OneMore(n)
      BY <1>s DEF OtherTypes, SessionRecord
    <3>2. n \in Nat /\ OneMore(n) \in Nat /\ (n >= FailuresBeforeStale => OneMore(n) >= FailuresBeforeStale)
      BY <1>n
    <3>3. latest[s] # "none"
      BY <2>1, <2>4 DEF Shown
    <3>4. \/ n + 1 >= FailuresBeforeStale /\ latest'[s] = "failed"
          \/ latest'[s] = latest[s]
      BY <3>3 DEF Miss, OtherTypes
    <3>5. task[u].sent \in Readings /\ latest[s] = "failed" => n >= FailuresBeforeStale
      BY <2>1, <2>4 DEF Shown
    <3> HIDE DEF n
    <3> QED BY <1>n, <2>1, <2>4, <3>1, <3>2, <3>3, <3>4, <3>5
  <2> QED BY <2>3, <2>4
<1> QED BY <1>1, <1>2, <1>3, <1>4, <1>5, <1>6, <1>7, <1>8

-----------------------------------------------------------------------------
(* The specification. *)

\* Before anything is subscribed nothing is held, locked or shown.
LEMMA IInvInit == Init => IInv
<1> SUFFICES ASSUME Init PROVE IInv
  OBVIOUS
<1> USE SessionsAssumption DEF Init, Topics, Sources, Said, Registries
<1>1. TaskType
  BY IdleIsTyped DEF TaskType
<1>2. OtherTypes
  BY RetiredIsTyped DEF OtherTypes
<1>3. \A t \in Tasks : task[t] = Idle /\ task[t].at = "idle" /\ task[t].source = None /\ task[t].sent = "none"
  BY DEF Idle
<1>4. Staged /\ Locked
  BY <1>3 DEF Staged, Locked
<1>5. \A s \in Sessions : session[s] = Retired /\ session[s].topic = None
  BY DEF Retired
<1>6. Entered
  BY <1>5 DEF Entered
<1>7. Held /\ Reached /\ Shown
  BY <1>3, <1>5 DEF Held, Reached, Shown
<1> QED BY <1>1, <1>2, <1>4, <1>6, <1>7 DEF IInv

\* Every step keeps the invariant.
LEMMA IInvStep == IInv /\ [Next]_vars => IInv'
<1> SUFFICES ASSUME IInv, [Next]_vars PROVE IInv'
  OBVIOUS
<1>1. ASSUME NEW c \in Connections, Close(c) PROVE IInv'
  BY <1>1, CloseKeeps
<1>2. ASSUME NEW c \in Connections, NEW k \in Topics, Subscribe(c, k) \/ Unsubscribe(c, k) PROVE IInv'
  BY <1>2, SubscribeKeeps, UnsubscribeKeeps
<1>3. ASSUME NEW t \in Tasks, Ask(t) PROVE IInv'
  BY <1>3, JoinKeeps, OpenBookKeeps, StartKeeps DEF Ask
<1>4. ASSUME NEW t \in Tasks, Work(t) PROVE IInv'
  BY <1>4, ResolveKeeps, LeaseKeeps, LeasePriceKeeps, RefuseKeeps, ListenKeeps, ForwardKeeps, LeaveKeeps DEF Work
<1>5. ASSUME NEW t \in Tasks, Vanish(t) PROVE IInv'
  BY <1>5, VanishKeeps
<1>6. ASSUME NEW k \in Prices, Tick(k) PROVE IInv'
  BY <1>6, TickKeeps
<1>7. ASSUME NEW s \in Sessions, Drive(s) \/ Answer(s) \/ Miss(s) PROVE IInv'
  BY <1>7, DriveKeeps, AnswerKeeps, MissKeeps
<1>8. CASE UNCHANGED <<open, topics, task, lock, registry, session, latest>> /\ down' \in BOOLEAN
  BY <1>8 DEF IInv, TaskType, OtherTypes, Staged, Locked, Entered, Held, Reached, Shown
<1>9. CASE GoDown \/ UNCHANGED vars
  BY <1>8, <1>9 DEF GoDown, vars, IInv, OtherTypes
<1> QED BY <1>1, <1>2, <1>3, <1>4, <1>5, <1>6, <1>7, <1>9 DEF Next

\* In every behaviour.
LEMMA IInvHolds == Spec => []IInv
<1> QED BY IInvInit, IInvStep, PTL DEF Spec

\* The strengthening says what the run checks.
LEMMA IInvImplies == IInv => TypeOK /\ SharedSession /\ OnlyOwnForwarders
<1> SUFFICES ASSUME IInv PROVE TypeOK /\ SharedSession /\ OnlyOwnForwarders
  OBVIOUS
<1> USE SessionsAssumption DEF IInv
<1>1. TypeOK
  BY DEF TypeOK, TaskType, TaskRecord, OtherTypes, SessionRecord, Locked
<1>2. \A s \in Sessions : session[s] # Retired => session[s].topic # None
  BY DEF Entered
<1>3. SharedSession
  BY <1>2 DEF SharedSession, Held, Holders
<1>4. \A t \in Tasks : task[t] # Idle => task[t].at # "idle"
  BY DEF Staged
<1>5. OnlyOwnForwarders
  BY <1>4 DEF OnlyOwnForwarders, Reached
<1> QED BY <1>1, <1>3, <1>5

\* The types, and that a lock is held by nobody who is not leasing.
THEOREM TypesHold == Spec => []TypeOK
BY IInvHolds, IInvImplies, PTL

\* Everyone with a handle for a key has it on one session, the one the weak entry reaches, and no
\* session is left behind by its last handle, however subscribes, refusals and aborts interleave.
THEOREM SessionsAreShared == Spec => []SharedSession
BY IInvHolds, IInvImplies, PTL

\* A forwarder nobody told to stop is the entry of an open connection for its topic.
THEOREM ForwardersAreOwned == Spec => []OnlyOwnForwarders
BY IInvHolds, IInvImplies, PTL

-----------------------------------------------------------------------------
(* What is shown. *)

\* Nothing but the loop's turn shows a failure.
LEMMA OnlyForwardShows ==
  ASSUME IInv, Next, NEW u \in Tasks
  PROVE  task'[u].sent \in {task[u].sent, "none"} \/ Forward(u)
<1> USE DEF IInv
<1>1. ASSUME NEW t \in Tasks, NEW new \in TaskRecord, new.sent \in {task[t].sent, "none"},
             task' = [task EXCEPT ![t] = new]
      PROVE  task'[u].sent \in {task[u].sent, "none"}
  BY <1>1 DEF TaskType
<1>2. Idle.sent = "none" /\ Idle \in TaskRecord
  BY IdleIsTyped DEF Idle
<1>3. ASSUME NEW c \in Connections, Close(c) PROVE task'[u].sent = task[u].sent
  BY <1>3, AbortingStops DEF Close, Stopped, Same
<1>4. ASSUME NEW c \in Connections, NEW k \in Topics, Unsubscribe(c, k) PROVE task'[u].sent = task[u].sent
  BY <1>4, AbortingStops DEF Unsubscribe, Stopped, Same
<1>5. ASSUME NEW c \in Connections, NEW k \in Topics, Subscribe(c, k)
      PROVE  task'[u].sent \in {task[u].sent, "none"}
  BY <1>5 DEF Subscribe, Idle, TaskType
<1>6. ASSUME NEW t \in Tasks, Resolve(t) \/ Refuse(t) \/ Leave(t) PROVE task'[u].sent \in {task[u].sent, "none"}
  BY <1>2, <1>6 DEF Resolve, Refuse, Leave, TaskType, TaskRecord
<1>7. ASSUME NEW t \in Tasks, Join(t) \/ OpenBook(t) \/ Start(t) \/ Lease(t) \/ LeasePrice(t)
      PROVE  task'[u].sent = task[u].sent
  BY <1>7 DEF Join, OpenBook, Start, Lease, LeasePrice, Created, TaskType, TaskRecord
<1>8. ASSUME NEW t \in Tasks, Listen(t) PROVE task'[u].sent = task[u].sent
  BY <1>8 DEF Listen, TaskType, TaskRecord
<1>9. ASSUME NEW t \in Tasks, Forward(t) PROVE task'[u].sent = task[u].sent \/ Forward(u)
  <2>1. CASE u = t
    BY <1>9, <2>1
  <2>2. CASE u # t
    BY <1>9, <2>2 DEF Forward, TaskType
  <2> QED BY <2>1, <2>2
<1>10. ASSUME NEW t \in Tasks, Vanish(t) PROVE task'[u].sent \in {task[u].sent, "none"}
  BY <1>2, <1>10 DEF Vanish, TaskType, TaskRecord
<1>11. ASSUME NEW k \in Prices, Tick(k) PROVE task'[u].sent = task[u].sent
  BY <1>11, ToldRefreshes DEF Tick, Refreshed, Same
<1>12. ASSUME NEW s \in Sessions, Drive(s) \/ Answer(s) \/ Miss(s) PROVE task'[u].sent = task[u].sent
  BY <1>12, ToldRefreshes DEF Drive, Answer, Miss, Refreshed, Same
<1>13. CASE GoDown
  BY <1>13 DEF GoDown
<1> QED BY <1>3, <1>4, <1>5, <1>6, <1>7, <1>8, <1>9, <1>10, <1>11, <1>12, <1>13 DEF Next, Ask, Work

\* A failure is shown in place of a ladder when enough polls in a row failed, and not before.
LEMMA BlipStep ==
  ASSUME IInv, [Next]_vars, NEW t \in Tasks,
         task[t].topic \in Books, task[t].sent \in Readings, task'[t].sent = "failed"
  PROVE  session[task[t].source].failures >= FailuresBeforeStale
<1>1. task[t].sent # "none" /\ task[t].sent # "failed"
  BY SessionsAssumption
<1>2. Forward(t)
  BY <1>1, OnlyForwardShows DEF vars
<1>3. task[t].at = "forwarding" /\ latest[task[t].source] = "failed"
  BY <1>1, <1>2 DEF Forward, IInv, TaskType, TaskRecord
<1> QED BY <1>1, <1>3 DEF IInv, Shown

\* A ladder on screen gives way to the failure only when so many polls in a row failed.
THEOREM BlipsAreHidden == Spec => BlipsStayHidden
<1> DEFINE Shows == \A t \in Tasks :
                      task[t].topic \in Books /\ task[t].sent \in Readings /\ task'[t].sent = "failed"
                        => session[task[t].source].failures >= FailuresBeforeStale
<1>1. IInv /\ [Next]_vars => Shows
  BY BlipStep
<1>2. IInv /\ [Next]_vars => [Shows]_vars
  BY <1>1
<1> HIDE DEF Shows
<1>3. Spec => [][Shows]_vars
  BY IInvHolds, <1>2, PTL DEF Spec
<1> QED BY <1>3 DEF BlipsStayHidden, Shows
==============================================================================
