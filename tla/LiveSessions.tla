----------------------------- MODULE LiveSessions -----------------------------
(***************************************************************************)
(* What a WebSocket connection holds (api/ws.rs) and the sessions several  *)
(* connections share (subscription/book_session.rs, indicator_session.rs). *)
(*                                                                         *)
(* Every topic of a connection is one forwarder task.  A price topic       *)
(* leases its instrument itself; a book or indicator topic takes a handle  *)
(* on a session from a registry, which makes one when none is alive.       *)
(* Nothing is ever closed: a task is aborted, its receiver goes, then its  *)
(* handle, and the last handle takes the session with it.                  *)
(*                                                                         *)
(* The loader, the catalogue and the lease pool answer or fail; sockets    *)
(* close when they like.  A frame is what it says, its way to the browser  *)
(* is left out.                                                            *)
(***************************************************************************)
EXTENDS Naturals, FiniteSets

CONSTANTS Connections, Prices, Books, Indicators,
          Wants,             \* Wants[c]: the topics connection c may subscribe
          Tasks,             \* as many forwarders at a time
          Sessions,          \* as many sessions at a time
          Readings,          \* what a tick, an engine or a venue may say
          FailuresBeforeStale,
          None

Topics == Prices \cup Books \cup Indicators

ASSUME SessionsAssumption ==
  /\ Wants \in [Connections -> SUBSET Topics]
  /\ Prices \cap Books = {} /\ Prices \cap Indicators = {} /\ Books \cap Indicators = {}
  /\ Sessions \cap Topics = {} /\ None \notin Tasks \cup Sessions \cup Topics \cup Connections
  /\ {"none", "failed"} \cap Readings = {}
  /\ FailuresBeforeStale \in Nat \ {0}

VARIABLES
  open,      \* connections whose loop runs
  topics,    \* topics[c][k]: the forwarder behind an entry of the connection's map
  task,      \* task[t]
  lock,      \* lock[r]: who holds the mutex of a registry across an await
  registry,  \* registry[k]: the session a weak entry still reaches
  session,   \* session[s]: its topic, its driver, the polls that failed in a row
  latest,    \* latest[x]: what the watch channel of a price or of a session holds
  down       \* the venue answers no snapshot any more

vars == <<open, topics, task, lock, registry, session, latest, down>>

Sources == Prices \cup Sessions
Said == Readings \cup {"none", "failed"}   \* "none" is Pending, or no value yet
Registries == {"books", "indicators"}
RegistryOf(k) == IF k \in Books THEN "books" ELSE "indicators"

Idle == [at |-> "idle", owner |-> None, topic |-> None, source |-> None,
         aborted |-> FALSE, fresh |-> FALSE, sent |-> "none"]
Retired == [topic |-> None, drive |-> "off", failures |-> 0]

\* A handle or a lease is held until the task is gone, a receiver only while it forwards.
Holders(x) == {t \in Tasks : task[t].source = x}
Receivers(x) == {t \in Holders(x) : task[t].at = "forwarding"}

\* Everyone who listens to x has something to read.
Told(x) == [t \in Tasks |-> IF t \in Receivers(x) THEN [task[t] EXCEPT !.fresh = TRUE] ELSE task[t]]

-----------------------------------------------------------------------------
(* The connection's loop. *)

Mapped(t) == \E c \in Connections, k \in Topics : topics[c][k] = t
Spare(t) == task[t] = Idle /\ ~ Mapped(t)

\* subscribe, subscribe_book, subscribe_indicator; a topic in the map is only acknowledged.
Subscribe(c, k) ==
  /\ c \in open /\ k \in Wants[c] /\ topics[c][k] = None
  /\ \E t \in Tasks :
       /\ Spare(t)
       /\ task' = [task EXCEPT ![t] = [Idle EXCEPT !.at = IF k \in Prices THEN "leasing" ELSE "resolving",
                                                   !.owner = c, !.topic = k]]
       /\ topics' = [topics EXCEPT ![c][k] = t]
  /\ UNCHANGED <<open, lock, registry, session, latest, down>>

\* An abort is a request: the task stops at its next await.
Aborting(gone) == [t \in Tasks |->
  IF t \in gone /\ task[t] # Idle THEN [task[t] EXCEPT !.aborted = TRUE] ELSE task[t]]

\* Mutant: the entry goes, the forwarder stays.
UnsubscribeOnly(c, k) ==
  /\ c \in open /\ topics[c][k] # None
  /\ topics' = [topics EXCEPT ![c][k] = None]
  /\ UNCHANGED <<open, task, lock, registry, session, latest, down>>

Unsubscribe(c, k) ==
  /\ c \in open /\ topics[c][k] # None
  /\ task' = Aborting({topics[c][k]})
  /\ topics' = [topics EXCEPT ![c][k] = None]
  /\ UNCHANGED <<open, lock, registry, session, latest, down>>

\* The socket ends, however it ends.
Close(c) ==
  /\ c \in open
  /\ open' = open \ {c}
  /\ task' = Aborting({topics[c][k] : k \in Topics})
  /\ topics' = [topics EXCEPT ![c] = [k \in Topics |-> None]]
  /\ UNCHANGED <<lock, registry, session, latest, down>>

-----------------------------------------------------------------------------
(* A forwarder, up to its handle. *)

\* The instrument, its bars and its indicator are looked up; what fails is told for a book only.
Resolve(t) ==
  /\ task[t].at = "resolving"
  /\ \E place \in {"asking", "idle"} :
       task' = [task EXCEPT ![t] = IF place = "asking" THEN [@ EXCEPT !.at = place] ELSE Idle]
  /\ UNCHANGED <<open, topics, lock, registry, session, latest, down>>

\* Weak::upgrade under the registry's lock: the caller shares what is alive.
Join(t) ==
  LET k == task[t].topic
  IN  /\ task[t].at = "asking" /\ lock[RegistryOf(k)] = None
      /\ registry[k] # None
      /\ task' = [task EXCEPT ![t].at = "joined", ![t].source = registry[k]]
      /\ UNCHANGED <<open, topics, lock, registry, session, latest, down>>

\* A session, its driver and its entry come into being with their first handle.
Created(t, s) ==
  /\ session[s] = Retired
  /\ session' = [session EXCEPT ![s] = [topic |-> task[t].topic, drive |-> "running", failures |-> 0]]
  /\ registry' = [registry EXCEPT ![task[t].topic] = s]
  /\ task' = [task EXCEPT ![t].at = "joined", ![t].source = s]

OpenBook(t) ==
  LET k == task[t].topic
  IN  /\ task[t].at = "asking" /\ k \in Books /\ lock[RegistryOf(k)] = None
      /\ registry[k] = None
      /\ \E s \in Sessions : Created(t, s)
      /\ UNCHANGED <<open, topics, lock, latest, down>>

\* Mutant: the lock is let go before the instrument is leased.
StartUnlocked(t) ==
  LET k == task[t].topic
  IN  /\ task[t].at = "asking" /\ k \in Indicators /\ lock[RegistryOf(k)] = None
      /\ registry[k] = None
      /\ task' = [task EXCEPT ![t].at = "leasing"]
      /\ UNCHANGED <<open, topics, lock, registry, session, latest, down>>

\* No session is alive: the lock is held until the instrument is leased.
Start(t) ==
  LET k == task[t].topic
  IN  /\ task[t].at = "asking" /\ k \in Indicators /\ lock[RegistryOf(k)] = None
      /\ registry[k] = None
      /\ lock' = [lock EXCEPT ![RegistryOf(k)] = t]
      /\ task' = [task EXCEPT ![t].at = "leasing"]
      /\ UNCHANGED <<open, topics, registry, session, latest, down>>

Released(t) == [r \in Registries |-> IF lock[r] = t THEN None ELSE lock[r]]

Lease(t) ==
  /\ task[t].at = "leasing" /\ task[t].topic \in Indicators
  /\ \E s \in Sessions : Created(t, s)
  /\ lock' = Released(t)
  /\ UNCHANGED <<open, topics, latest, down>>

LeasePrice(t) ==
  /\ task[t].at = "leasing" /\ task[t].topic \in Prices
  /\ task' = [task EXCEPT ![t].at = "joined", ![t].source = task[t].topic]
  /\ UNCHANGED <<open, topics, lock, registry, session, latest, down>>

\* Mutant: who is refused goes without giving the lock back.
RefuseLocked(t) ==
  /\ task[t].at = "leasing"
  /\ task' = [task EXCEPT ![t] = Idle]
  /\ UNCHANGED <<open, topics, lock, registry, session, latest, down>>

\* The pool refuses; nothing is inserted, and the connection's entry stays.
Refuse(t) ==
  /\ task[t].at = "leasing"
  /\ task' = [task EXCEPT ![t] = Idle]
  /\ lock' = Released(t)
  /\ UNCHANGED <<open, topics, registry, session, latest, down>>

-----------------------------------------------------------------------------
(* A forwarder at work. *)

\* Mutant: what the channel holds already is not read.
ListenForNews(t) ==
  /\ task[t].at = "joined"
  /\ task' = [task EXCEPT ![t].at = "forwarding"]
  /\ UNCHANGED <<open, topics, lock, registry, session, latest, down>>

\* A receiver is minted, and what is there already is read before any change is awaited.
Listen(t) ==
  /\ task[t].at = "joined"
  /\ task' = [task EXCEPT ![t].at = "forwarding", ![t].fresh = TRUE]
  /\ UNCHANGED <<open, topics, lock, registry, session, latest, down>>

\* The loop's turn: a frame, unless there is nothing to say; a connection that is gone ends it.
Forward(t) ==
  LET said == latest[task[t].source]
  IN  /\ task[t].at = "forwarding" /\ task[t].fresh
      /\ task' = [task EXCEPT ![t].fresh = FALSE,
           ![t].at = IF said # "none" /\ task[t].owner \notin open THEN "leaving" ELSE @,
           ![t].sent = IF said = "none" \/ task[t].topic \notin Books THEN @ ELSE said]
      /\ UNCHANGED <<open, topics, lock, registry, session, latest, down>>

\* An aborted task is dropped where it awaits; its receiver goes before its handle.
Vanish(t) ==
  /\ task[t].aborted
  /\ \/ task[t].at \in {"resolving", "asking", "leasing"} /\ task' = [task EXCEPT ![t] = Idle]
     \/ task[t].at = "forwarding"
        /\ task' = [task EXCEPT ![t].at = "leaving", ![t].fresh = FALSE, ![t].sent = "none"]
  /\ lock' = Released(t)
  /\ UNCHANGED <<open, topics, registry, session, latest, down>>

\* Its handle goes; the last one aborts the driver, drops the lease and kills the weak entry.
Leave(t) ==
  LET s == task[t].source
      last == s \in Sessions /\ Holders(s) = {t}
  IN  /\ task[t].at = "leaving"
      /\ task' = [task EXCEPT ![t] = Idle]
      /\ IF last
         THEN /\ session' = [session EXCEPT ![s] = Retired]
              /\ registry' = [k \in Topics |-> IF registry[k] = s THEN None ELSE registry[k]]
              /\ latest' = [latest EXCEPT ![s] = "none"]
         ELSE UNCHANGED <<session, registry, latest>>
      /\ UNCHANGED <<open, topics, lock, down>>

-----------------------------------------------------------------------------
(* What is forwarded. *)

\* The pool publishes a tick, whoever listens.
Tick(k) ==
  /\ \E r \in Readings : latest' = [latest EXCEPT ![k] = r]
  /\ task' = Told(k)
  /\ UNCHANGED <<open, topics, lock, registry, session, down>>

\* The engine says something: it is sent, or the driver takes silence for the end.
Drive(s) ==
  /\ session[s].topic \in Indicators /\ session[s].drive = "running"
  /\ IF Receivers(s) # {}
     THEN \E r \in Readings : latest' = [latest EXCEPT ![s] = r] /\ UNCHANGED session
     ELSE session' = [session EXCEPT ![s].drive = "ended"] /\ UNCHANGED latest
  /\ task' = Told(s)
  /\ UNCHANGED <<open, topics, lock, registry, down>>

Polled(s) == session[s].topic \in Books /\ session[s].drive = "running"

\* A snapshot nobody listens for is not stored.
Answer(s) ==
  /\ Polled(s) /\ ~ down
  /\ session' = [session EXCEPT ![s].failures = 0]
  /\ IF Receivers(s) # {} THEN \E r \in Readings : latest' = [latest EXCEPT ![s] = r] ELSE UNCHANGED latest
  /\ task' = Told(s)
  /\ UNCHANGED <<open, topics, lock, registry, down>>

\* failures is as large as any comparison tells.
OneMore(n) == IF n < FailuresBeforeStale THEN n + 1 ELSE n

\* Mutant: one failure less is enough.
MissTooSoon(s) ==
  LET stale == latest[s] = "none" \/ session[s].failures + 2 >= FailuresBeforeStale
  IN  /\ Polled(s)
      /\ session' = [session EXCEPT ![s].failures = OneMore(@)]
      /\ latest' = IF stale THEN [latest EXCEPT ![s] = "failed"] ELSE latest
      /\ task' = IF stale /\ latest[s] # "failed" THEN Told(s) ELSE task
      /\ UNCHANGED <<open, topics, lock, registry, down>>

\* A poll fails; the session says so at once if it never answered, else after so many in a row.
Miss(s) ==
  LET stale == latest[s] = "none" \/ session[s].failures + 1 >= FailuresBeforeStale
  IN  /\ Polled(s)
      /\ session' = [session EXCEPT ![s].failures = OneMore(@)]
      /\ latest' = IF stale THEN [latest EXCEPT ![s] = "failed"] ELSE latest
      /\ task' = IF stale /\ latest[s] # "failed" THEN Told(s) ELSE task
      /\ UNCHANGED <<open, topics, lock, registry, down>>

GoDown == ~ down /\ down' = TRUE /\ UNCHANGED <<open, topics, task, lock, registry, session, latest>>

-----------------------------------------------------------------------------
Init ==
  /\ open = Connections
  /\ topics = [c \in Connections |-> [k \in Topics |-> None]]
  /\ task = [t \in Tasks |-> Idle]
  /\ lock = [r \in Registries |-> None]
  /\ registry = [k \in Topics |-> None]
  /\ session = [s \in Sessions |-> Retired]
  /\ latest = [x \in Sources |-> "none"]
  /\ down = FALSE

\* What brings a task to its handle, and what a task does once it has one.
Ask(t) == Join(t) \/ OpenBook(t) \/ Start(t)
Work(t) == Resolve(t) \/ Lease(t) \/ LeasePrice(t) \/ Refuse(t) \/ Listen(t) \/ Forward(t) \/ Leave(t)

Next ==
  \/ \E c \in Connections : Close(c) \/ \E k \in Topics : Subscribe(c, k) \/ Unsubscribe(c, k)
  \/ \E t \in Tasks : Ask(t) \/ Work(t) \/ Vanish(t)
  \/ \E k \in Prices : Tick(k)
  \/ \E s \in Sessions : Drive(s) \/ Answer(s) \/ Miss(s)
  \/ GoDown

(***************************************************************************)
(* Tasks are scheduled and an abort is noticed; the mutex serves callers   *)
(* in the order they came, so nobody is passed for ever; a book is polled  *)
(* on its interval.                                                        *)
(***************************************************************************)
Fairness ==
  /\ \A t \in Tasks : SF_vars(Ask(t)) /\ WF_vars(Work(t)) /\ WF_vars(Vanish(t))
  /\ \A s \in Sessions : WF_vars(Answer(s) \/ Miss(s))

Spec == Init /\ [][Next]_vars /\ Fairness

-----------------------------------------------------------------------------
(* Properties. *)

(***************************************************************************)
(* The types; a registry's lock is held by nobody who is not leasing.      *)
(***************************************************************************)
TypeOK ==
  /\ open \subseteq Connections
  /\ topics \in [Connections -> [Topics -> Tasks \cup {None}]]
  /\ task \in [Tasks -> [at : {"idle", "resolving", "asking", "leasing", "joined", "forwarding", "leaving"},
                         owner : Connections \cup {None}, topic : Topics \cup {None},
                         source : Sources \cup {None}, aborted : BOOLEAN, fresh : BOOLEAN, sent : Said]]
  /\ \A r \in Registries : lock[r] # None => task[lock[r]].at = "leasing"
  /\ registry \in [Topics -> Sessions \cup {None}]
  /\ session \in [Sessions -> [topic : Topics \cup {None}, drive : {"off", "running", "ended"},
                               failures : 0..FailuresBeforeStale]]
  /\ latest \in [Sources -> Said] /\ down \in BOOLEAN

(***************************************************************************)
(* However subscribes, refusals and aborts interleave, everyone who holds  *)
(* a handle for one key holds it on the same session, and the weak entry   *)
(* reaches that session: the venue is asked once for all of them, and not  *)
(* at all for nobody.                                                      *)
(***************************************************************************)
SharedSession ==
  /\ \A t \in Tasks :
       task[t].source \in Sessions =>
         /\ registry[task[t].topic] = task[t].source
         /\ session[task[t].source].topic = task[t].topic
  /\ \A s \in Sessions : session[s] # Retired => Holders(s) # {}

(***************************************************************************)
(* No forwarder is out of its connection's reach: one that has not been    *)
(* told to stop is the entry of an open connection for its topic, so       *)
(* there is never a second one for a topic nor one nobody can abort.       *)
(***************************************************************************)
OnlyOwnForwarders ==
  \A t \in Tasks :
    task[t] # Idle /\ ~ task[t].aborted =>
      task[t].owner \in open /\ topics[task[t].owner][task[t].topic] = t

(***************************************************************************)
(* A ladder on screen is not taken away for a blip: a forwarder that has   *)
(* shown one shows the failure only when so many polls in a row failed,    *)
(* whoever else joined or left the session meanwhile.                      *)
(***************************************************************************)
BlipsStayHidden ==
  [][\A t \in Tasks :
       task[t].topic \in Books /\ task[t].sent \in Readings /\ task'[t].sent = "failed"
         => session[task[t].source].failures >= FailuresBeforeStale]_vars

(***************************************************************************)
(* Nobody waits for ever: not behind a registry's lock, the lease made     *)
(* under it or an abort in the middle of it; not to be rid of a forwarder  *)
(* whose connection closed or let it go; and, once a venue has gone silent *)
(* for good, not to be told so, whenever the panel joined: never a stale   *)
(* ladder, never loading for ever.                                         *)
(***************************************************************************)
Waits(t) ==
  \/ task[t].at \in {"resolving", "asking", "leasing", "joined"}
  \/ task[t].aborted
  \/ down /\ task[t].topic \in Books /\ task[t].at = "forwarding" /\ task[t].sent # "failed"

NobodyWaitsForEver == \A t \in Tasks : Waits(t) ~> ~ Waits(t)

(***************************************************************************)
(* The code violates this: the driver of an indicator session is said to   *)
(* run for as long as anything holds a handle, but one reading that finds  *)
(* no receiver ends it, and a handle outlives its receiver and precedes it.*)
(***************************************************************************)
HeldSessionsAreDriven == \A s \in Sessions : Holders(s) # {} => session[s].drive = "running"
=============================================================================
