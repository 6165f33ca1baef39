------------------------------ MODULE LimitGroup ------------------------------
(***************************************************************************)
(* The budget every client of one venue shares (venue/limit_group.rs) and  *)
(* the calls that spend it (VenueClient::send).                            *)
(*                                                                         *)
(* A call passes the circuit, every window, the semaphore and the circuit  *)
(* again, sends, and keeps its permit over all its attempts.  Windows and  *)
(* circuit sit behind a mutex each; the concurrency ceiling is two atomics *)
(* and a semaphore, and every access to one of them is a step of its own.  *)
(*                                                                         *)
(* Time is a step that may come at any moment: a window elapses, a tripped *)
(* circuit cools down, a backoff ends.                                     *)
(***************************************************************************)
EXTENDS Integers, Sequences, FiniteSets

CONSTANTS Calls,
          Windows,
          Cost,        \* Cost[c]: the weight of call c
          Budget,      \* Budget[v]: what window v admits
          Observed,    \* counts a venue's header may report
          MaxPermits,  \* max_concurrent
          Streak,      \* SUCCESS_STREAK_TO_RESTORE
          Trips,       \* CONSECUTIVE_429_TO_TRIP
          MaxAttempts

ASSUME LimitAssumption ==
  /\ Cost \in [Calls -> Nat] /\ Budget \in [Windows -> Nat] /\ Observed \subseteq Nat
  /\ MaxPermits \in Nat \ {0} /\ Streak \in Nat \ {0} /\ Trips \in Nat \ {0}
  /\ MaxAttempts \in Nat \ {0}

VARIABLES
  call,      \* call[c]: where call c is, its attempt, and two capacities it has read
  used,      \* used[v]: WindowState::used
  elapsed,   \* windows whose time is up and that nobody has reset yet
  admitted,  \* history: the weight let through since the window began or the venue gave its count
  free,      \* permits in the semaphore
  line,      \* who waits for one, first come first served
  capacity,  \* current_capacity
  streak,    \* success_streak
  circuit    \* the 429s in a row; TrippedAt when open, Cooled once the cooldown is over

vars == <<call, used, elapsed, admitted, free, line,
          capacity, streak, circuit>>
windows == <<used, elapsed, admitted>>
gate == <<capacity, streak>>

\* A GroupPermit is held from the moment the semaphore assigns it.
HoldingStages == {"admitted", "sending", "sleeping",
                  "praised", "restarted", "measured", "adding", "raising",
                  "slowing", "halving", "shrinking", "forgetting", "lowering", "counting"}
Stages == HoldingStages \cup {"new", "windows", "permit", "queued", "done"}

Holders == {c \in Calls : call[c].at \in HoldingStages}

Smaller(a, b) == IF a < b THEN a ELSE b

\* A call at rest: nothing it has read outlives it.
At(place) == [at |-> place, tries |-> 1, target |-> 0, current |-> 0]

Moved(c, place) == [call EXCEPT ![c].at = place]

Step(c, from, to) == call[c].at = from /\ call' = Moved(c, to)

-----------------------------------------------------------------------------
(* acquire *)

TrippedAt == Trips
Cooled == Trips + 1
Open == circuit = TrippedAt

\* ensure_closed: a circuit that has cooled down is closed by whoever looks.
Closed == IF circuit = Cooled THEN 0 ELSE circuit

Arrive(c) ==
  /\ call[c].at = "new"
  /\ call' = Moved(c, IF Open THEN "done" ELSE "windows")
  /\ circuit' = Closed
  /\ UNCHANGED <<windows, free, line, gate>>

UsedNow(v) == IF v \in elapsed THEN 0 ELSE used[v]
AdmittedNow(v) == IF v \in elapsed THEN 0 ELSE admitted[v]

\* Something heavier than the window is let through rather than kept waiting for ever.
Ready(c, v) == Cost[c] > Budget[v] \/ UsedNow(v) + Cost[c] <= Budget[v]

\* Mutant: each window with room is charged, whatever the others say.
ReserveSome(c) ==
  /\ call[c].at = "windows"
  /\ elapsed' = {}
  /\ used' = [v \in Windows |->
       IF Ready(c, v) THEN Smaller(UsedNow(v) + Cost[c], Budget[v]) ELSE UsedNow(v)]
  /\ IF \A v \in Windows : Ready(c, v)
     THEN /\ call' = Moved(c, "permit")
          /\ admitted' = [v \in Windows |-> AdmittedNow(v) + Cost[c]]
     ELSE /\ admitted' = [v \in Windows |-> AdmittedNow(v)]
          /\ UNCHANGED call
  /\ UNCHANGED <<free, line, gate, circuit>>

\* try_reserve_all: elapsed windows start over; then all are charged or none is.
Reserve(c) ==
  /\ call[c].at = "windows"
  /\ elapsed' = {}
  /\ IF \A v \in Windows : Ready(c, v)
     THEN /\ call' = Moved(c, "permit")
          /\ used' = [v \in Windows |-> Smaller(UsedNow(v) + Cost[c], Budget[v])]
          /\ admitted' = [v \in Windows |-> AdmittedNow(v) + Cost[c]]
     ELSE /\ used' = [v \in Windows |-> UsedNow(v)]
          /\ admitted' = [v \in Windows |-> AdmittedNow(v)]
          /\ UNCHANGED call
  /\ UNCHANGED <<free, line, gate, circuit>>

Elapse(v) ==
  /\ v \notin elapsed
  /\ elapsed' = elapsed \cup {v}
  /\ UNCHANGED <<call, used, admitted, free, line, gate, circuit>>

\* Semaphore::acquire_owned
Acquire(c) ==
  /\ \/ free > 0 /\ Step(c, "permit", "admitted") /\ free' = free - 1 /\ UNCHANGED line
     \/ free = 0 /\ Step(c, "permit", "queued") /\ line' = Append(line, c) /\ UNCHANGED free
  /\ UNCHANGED <<windows, gate, circuit>>

(***************************************************************************)
(* A permit more goes to whoever waits longest, and else into the pool;    *)
(* `moved` is where the step itself leaves the calls.                      *)
(***************************************************************************)
PermitFreed(moved) ==
  IF line = <<>>
  THEN call' = moved /\ free' = free + 1 /\ UNCHANGED line
  ELSE call' = [moved EXCEPT ![Head(line)].at = "admitted"] /\ line' = Tail(line) /\ UNCHANGED free

\* The call returns, which drops its permit.
Return(c) == PermitFreed([call EXCEPT ![c] = At("done")])

\* The wait may have been long, so the circuit is looked at again.
Recheck(c) ==
  /\ call[c].at = "admitted"
  /\ \/ Open /\ Return(c)
     \/ ~ Open /\ call' = Moved(c, "sending") /\ UNCHANGED <<free, line>>
  /\ circuit' = Closed
  /\ UNCHANGED <<windows, gate>>

-----------------------------------------------------------------------------
(* send: what the venue answers, and what the call does about it *)

LastAttempt(c) == call[c].tries = MaxAttempts

\* A success; its header may carry the venue's own count for one window.
Succeed(c) ==
  /\ Step(c, "sending", "praised")
  /\ circuit' = IF circuit >= TrippedAt THEN circuit ELSE 0
  /\ \/ UNCHANGED windows
     \/ \E v \in Windows, n \in Observed :
          /\ used' = [used EXCEPT ![v] = n]
          /\ admitted' = [admitted EXCEPT ![v] = n]
          /\ UNCHANGED elapsed
  /\ UNCHANGED <<free, line, gate>>

\* A 418.
Banned(c) ==
  /\ call[c].at = "sending" /\ Return(c)
  /\ circuit' = TrippedAt
  /\ UNCHANGED <<windows, gate>>

\* A 429: record_429 runs under the permit, the ceiling first.
TooMany(c) ==
  /\ Step(c, "sending", "slowing")
  /\ UNCHANGED <<windows, free, line, gate, circuit>>

\* An answer that may be retried backs off; any other, and a dial's, ends the call.
Fail(c) ==
  /\ call[c].at = "sending"
  /\ \/ ~ LastAttempt(c) /\ call' = Moved(c, "sleeping") /\ UNCHANGED <<free, line>>
     \/ Return(c)
  /\ UNCHANGED <<windows, gate, circuit>>

\* Mutant: the attempts are not counted.
RetryUncounted(c) ==
  /\ Step(c, "sleeping", "sending")
  /\ UNCHANGED <<windows, free, line, gate, circuit>>

\* The next attempt looks at neither the windows nor the circuit.
Retry(c) ==
  /\ call[c].at = "sleeping"
  /\ call' = [call EXCEPT ![c].at = "sending", ![c].tries = @ + 1]
  /\ UNCHANGED <<windows, free, line, gate, circuit>>

-----------------------------------------------------------------------------
(* ConcurrencyGate::record_success *)

Bump(c) ==
  /\ streak' = streak + 1
  /\ \/ streak' < Streak /\ call[c].at = "praised" /\ Return(c)
     \/ streak' >= Streak /\ Step(c, "praised", "restarted") /\ UNCHANGED <<free, line>>
  /\ UNCHANGED <<windows, capacity, circuit>>

Restart(c) ==
  /\ Step(c, "restarted", "measured")
  /\ streak' = 0
  /\ UNCHANGED <<windows, free, line, capacity, circuit>>

Measure(c) ==
  /\ call[c].at = "measured"
  /\ \/ /\ capacity < MaxPermits
        /\ call' = [call EXCEPT ![c].at = "adding", ![c].current = capacity]
        /\ UNCHANGED <<free, line>>
     \/ capacity >= MaxPermits /\ Return(c)
  /\ UNCHANGED <<windows, gate, circuit>>

AddPermit(c) ==
  /\ call[c].at = "adding"
  /\ PermitFreed(Moved(c, "raising"))
  /\ UNCHANGED <<windows, gate, circuit>>

Raise(c) ==
  /\ call[c].at = "raising" /\ Return(c)
  /\ capacity' = call[c].current + 1
  /\ UNCHANGED <<windows, streak, circuit>>

-----------------------------------------------------------------------------
(* ConcurrencyGate::halve and shrink_to, then Circuit::record_429 *)

Slow(c) ==
  /\ Step(c, "slowing", "halving")
  /\ streak' = 0
  /\ UNCHANGED <<windows, free, line, capacity, circuit>>

\* Mutant: half of one is none.
HalveToNone(c) ==
  /\ call[c].at = "halving"
  /\ call' = [call EXCEPT ![c].at = "shrinking",
                          ![c].target = capacity \div 2]
  /\ UNCHANGED <<windows, free, line, gate, circuit>>

Halve(c) ==
  /\ call[c].at = "halving"
  /\ call' = [call EXCEPT ![c].at = "shrinking",
                          ![c].target = IF capacity \div 2 < 1 THEN 1 ELSE capacity \div 2]
  /\ UNCHANGED <<windows, free, line, gate, circuit>>

Shrink(c) ==
  /\ call[c].at = "shrinking"
  /\ call' = [call EXCEPT ![c].at = IF call[c].target >= capacity THEN "counting" ELSE "forgetting",
                          ![c].current = capacity]
  /\ UNCHANGED <<windows, free, line, gate, circuit>>

\* Mutant: permits that are held are forgotten as well, this call's included.
ForgetHeld(c) ==
  /\ call[c].at = "forgetting"
  /\ call' = [call EXCEPT ![c] = At("done")]
  /\ free' = free - Smaller(call[c].current - call[c].target, free)
  /\ capacity' = call[c].current - Smaller(call[c].current - call[c].target, free)
  /\ UNCHANGED <<windows, line, streak, circuit>>

\* forget_permits takes only what is free, and tells how much that was.
Forget(c) ==
  /\ call[c].at = "forgetting"
  /\ LET forgotten == Smaller(call[c].current - call[c].target, free)
     IN  /\ free' = free - forgotten
         /\ call' = [call EXCEPT ![c].at = "lowering", ![c].current = @ - forgotten]
  /\ UNCHANGED <<windows, line, gate, circuit>>

Lower(c) ==
  /\ Step(c, "lowering", "counting")
  /\ capacity' = call[c].current
  /\ UNCHANGED <<windows, free, line, streak, circuit>>

\* The 429 that trips the circuit, or finds it tripped, ends its call.
Count(c) ==
  LET tripped == circuit >= TrippedAt \/ circuit + 1 >= Trips
  IN  /\ call[c].at = "counting"
      /\ circuit' = IF circuit >= TrippedAt THEN circuit ELSE circuit + 1
      /\ \/ (tripped \/ LastAttempt(c)) /\ Return(c)
         \/ /\ ~ tripped /\ ~ LastAttempt(c)
            /\ call' = [call EXCEPT ![c] = [At("sleeping") EXCEPT !.tries = call[c].tries]]
            /\ UNCHANGED <<free, line>>
      /\ UNCHANGED <<windows, gate>>

CoolDown ==
  /\ Open
  /\ circuit' = Cooled
  /\ UNCHANGED <<call, windows, free, line, gate>>

\* The caller goes away while the call awaits something; what it holds is dropped.
Abandon(c) ==
  /\ \/ /\ call[c].at \in {"windows", "permit"}
        /\ call' = [call EXCEPT ![c] = At("done")]
        /\ UNCHANGED <<free, line>>
     \/ /\ call[c].at = "queued"
        /\ call' = [call EXCEPT ![c] = At("done")]
        /\ \E n \in DOMAIN line :
             /\ line[n] = c
             /\ line' = SubSeq(line, 1, n - 1) \o SubSeq(line, n + 1, Len(line))
        /\ UNCHANGED free
     \/ call[c].at \in {"admitted", "sending", "sleeping"} /\ Return(c)
  /\ UNCHANGED <<windows, gate, circuit>>

-----------------------------------------------------------------------------
Init ==
  /\ call = [c \in Calls |-> At("new")]
  /\ used = [v \in Windows |-> 0] /\ elapsed = {}
  /\ admitted = [v \in Windows |-> 0]
  /\ free = MaxPermits /\ line = <<>>
  /\ capacity = MaxPermits /\ streak = 0
  /\ circuit = 0

Answered(c) == Succeed(c) \/ Banned(c) \/ TooMany(c) \/ Fail(c)

Onward(c) ==
  \/ Arrive(c) \/ Reserve(c) \/ Acquire(c) \/ Recheck(c) \/ Answered(c) \/ Retry(c)
  \/ Bump(c) \/ Restart(c) \/ Measure(c) \/ AddPermit(c) \/ Raise(c)
  \/ Slow(c) \/ Halve(c) \/ Shrink(c) \/ Forget(c) \/ Lower(c) \/ Count(c)

Next ==
  \/ \E c \in Calls : Onward(c) \/ Abandon(c)
  \/ \E v \in Windows : Elapse(v)
  \/ CoolDown

\* Tasks are scheduled, requests are answered or time out, and time goes on.
Fairness ==
  /\ \A c \in Calls : WF_vars(Onward(c))
  /\ \A v \in Windows : WF_vars(Elapse(v))

Spec == Init /\ [][Next]_vars /\ Fairness

-----------------------------------------------------------------------------
(* Properties. *)

(***************************************************************************)
(* The types; the recorded ceiling stays between one and what was          *)
(* configured, whoever stores a sum of an older reading.                   *)
(***************************************************************************)
TypeOK ==
  /\ call \in [Calls -> [at : Stages, tries : 1..MaxAttempts,
                          target : 0..MaxPermits, current : 0..MaxPermits]]
  /\ used \in [Windows -> Nat] /\ admitted \in [Windows -> Nat] /\ elapsed \subseteq Windows
  /\ free \in Nat /\ line \in Seq(Calls)
  /\ capacity \in 1..MaxPermits /\ streak \in Nat
  /\ circuit \in 0..Cooled

(***************************************************************************)
(* However readings of the ceiling go stale between halvings and           *)
(* recoveries, the semaphore never loses its last permit: there is a free  *)
(* one or a call that will give one back.  It holds because a call halves  *)
(* the ceiling while it holds a permit itself.                             *)
(***************************************************************************)
PermitsNeverRunOut == free > 0 \/ Holders # {}

(***************************************************************************)
(* A window has been charged for exactly the calls that went past all of   *)
(* them: one still waiting has spent nothing, and as long as no single     *)
(* call is heavier than the window, no more is let through than it admits. *)
(***************************************************************************)
WindowsAreExact ==
  \A v \in Windows :
    /\ used[v] = admitted[v] \/ (used[v] = Budget[v] /\ admitted[v] > Budget[v])
    /\ (\A c \in Calls : Cost[c] <= Budget[v]) /\ (\A n \in Observed : n <= Budget[v])
         => admitted[v] <= Budget[v]

(***************************************************************************)
(* Every call ends: none is left at a window that has room again, in the   *)
(* line of a semaphore whose permits are gone, or between its attempts.    *)
(***************************************************************************)
EveryCallEnds == \A c \in Calls : <>(call[c].at = "done")

=============================================================================
