--------------------------- MODULE LimitGroup_proofs ---------------------------
(***************************************************************************)
(* Proofs about the limit group, for any calls, windows, costs, ceilings   *)
(* and thresholds.                                                         *)
(*                                                                         *)
(* The types are not inductive by themselves: a ceiling is stored from an  *)
(* older reading, so what each stage remembers about its readings is part  *)
(* of the invariant (Readings).                                            *)
(***************************************************************************)
EXTENDS LimitGroup, SequenceTheorems, TLAPS

CallRecord == [at : Stages, tries : 1..MaxAttempts, target : 0..MaxPermits, current : 0..MaxPermits]

\* What a call knows about the numbers it has read, at each place.
ReadingOf(r) ==
  /\ r.at = "shrinking" => r.target >= 1
  /\ r.at = "forgetting" => r.target >= 1 /\ r.target < r.current
  /\ r.at = "lowering" => r.current >= 1
  /\ r.at \in {"adding", "raising"} => r.current < MaxPermits
  /\ r.at = "sleeping" => r.tries < MaxAttempts

Sound(r) == r \in CallRecord /\ ReadingOf(r)

Readings == \A c \in Calls : ReadingOf(call[c])

Inv == TypeOK /\ Readings

\* A function on the calls whose every value is sound.
SoundCalls(f) == f = [c \in Calls |-> f[c]] /\ \A c \in Calls : Sound(f[c])

LEMMA CallsSound == Inv => SoundCalls(call)
BY DEF Inv, TypeOK, Readings, SoundCalls, Sound, CallRecord

LEMMA SoundTypes ==
  ASSUME NEW f, SoundCalls(f)
  PROVE  f \in [Calls -> CallRecord] /\ \A c \in Calls : ReadingOf(f[c])
BY DEF SoundCalls, Sound

\* A call at rest is sound wherever it rests.
LEMMA RestSound ==
  ASSUME NEW place \in {"new", "done"}
  PROVE  Sound(At(place))
BY LimitAssumption DEF At, Sound, CallRecord, ReadingOf, Stages, HoldingStages, LimitAssumption

\* Places a call may move to whatever it has read.
LEMMA MovedSound ==
  ASSUME Inv, NEW c \in Calls,
         NEW place \in {"windows", "permit", "queued", "admitted", "sending", "done", "praised",
                        "restarted", "measured", "slowing", "halving", "counting"}
  PROVE  SoundCalls(Moved(c, place))
<1>1. SoundCalls(call)
  BY CallsSound
<1>2. [call[c] EXCEPT !.at = place] \in CallRecord
  BY <1>1 DEF SoundCalls, Sound, CallRecord, Stages, HoldingStages
<1>3. Sound([call[c] EXCEPT !.at = place])
  BY <1>1, <1>2 DEF SoundCalls, Sound, CallRecord, ReadingOf
<1> QED
  BY <1>1, <1>3 DEF SoundCalls, Moved

\* A freed permit goes to the pool or to a call in the line: neither loses it.
LEMMA FreedSound ==
  ASSUME Inv, NEW moved, SoundCalls(moved), PermitFreed(moved)
  PROVE  /\ SoundCalls(call')
         /\ free' \in Nat /\ line' \in Seq(Calls)
         /\ free' > 0 \/ Holders' # {}
<1>1. CASE line = <<>>
  BY <1>1 DEF PermitFreed, Inv, TypeOK
<1>2. CASE line # <<>>
  <2>1. Head(line) \in Calls /\ Tail(line) \in Seq(Calls)
    BY <1>2, HeadTailProperties DEF Inv, TypeOK
  <2>2. call' = [moved EXCEPT ![Head(line)].at = "admitted"] /\ line' = Tail(line) /\ free' = free
    BY <1>2 DEF PermitFreed
  <2>3. Sound([moved[Head(line)] EXCEPT !.at = "admitted"])
    <3>1. [moved[Head(line)] EXCEPT !.at = "admitted"] \in CallRecord
      BY <2>1 DEF SoundCalls, Sound, CallRecord, Stages, HoldingStages
    <3> QED
      BY <3>1, <2>1 DEF SoundCalls, Sound, CallRecord, ReadingOf
  <2>4. SoundCalls(call')
    BY <2>1, <2>2, <2>3 DEF SoundCalls
  <2>5. call'[Head(line)].at = "admitted"
    BY <2>1, <2>2 DEF SoundCalls, Sound, CallRecord
  <2>6. Head(line) \in Holders'
    BY <2>1, <2>5 DEF Holders, HoldingStages
  <2> QED
    BY <2>1, <2>2, <2>4, <2>6 DEF Inv, TypeOK
<1> QED
  BY <1>1, <1>2

LEMMA ReturnSound ==
  ASSUME Inv, NEW c \in Calls, Return(c)
  PROVE  /\ SoundCalls(call')
         /\ free' \in Nat /\ line' \in Seq(Calls)
         /\ free' > 0 \/ Holders' # {}
<1>1. SoundCalls([call EXCEPT ![c] = At("done")])
  BY CallsSound, RestSound DEF SoundCalls
<1> QED
  BY <1>1, FreedSound DEF Return

\* The rest of a step that leaves calls, permits and line in order.
LEMMA Recombine ==
  ASSUME SoundCalls(call'), free' \in Nat, line' \in Seq(Calls),
         used' \in [Windows -> Nat], admitted' \in [Windows -> Nat], elapsed' \subseteq Windows,
         capacity' \in 1..MaxPermits, streak' \in Nat, circuit' \in 0..Cooled
  PROVE  Inv'
<1>1. call' \in [Calls -> CallRecord] /\ \A c \in Calls : ReadingOf(call'[c])
  BY SoundTypes
<1> QED
  BY <1>1 DEF Inv, TypeOK, Readings, CallRecord

-----------------------------------------------------------------------------
(* One lemma per kind of step; each shows that the invariant is kept and that *)
(* a permit remains.                                                          *)

PermitLeft == free > 0 \/ Holders # {}

\* A call that moves between places where it holds its permit.
LEMMA HolderMoves ==
  ASSUME Inv, NEW c \in Calls, call' = Moved(c, call'[c].at), call'[c].at \in HoldingStages
  PROVE  Holders' # {}
BY DEF Holders

\* A call that holds none keeps nobody from holding theirs.
LEMMA OtherMoves ==
  ASSUME Inv, NEW c \in Calls, NEW r, call' = [call EXCEPT ![c] = r], call[c].at \notin HoldingStages
  PROVE  Holders # {} => Holders' # {}
BY DEF Holders, Inv, TypeOK

LEMMA ArriveKeeps ==
  ASSUME Inv, NEW c \in Calls, Arrive(c)
  PROVE  Inv' /\ (PermitLeft => PermitLeft')
<1>1. call' = Moved(c, IF Open THEN "done" ELSE "windows")
  BY DEF Arrive
<1>2. SoundCalls(call')
  BY <1>1, MovedSound
<1>3. circuit' \in 0..Cooled
  BY LimitAssumption DEF Arrive, Closed, Inv, TypeOK, Cooled, LimitAssumption
<1>4. Inv'
  BY <1>2, <1>3, Recombine DEF Arrive, Inv, TypeOK, windows, gate
<1>5. Holders # {} => Holders' # {}
  BY <1>1, OtherMoves DEF Arrive, Moved, HoldingStages
<1> QED
  BY <1>4, <1>5 DEF PermitLeft, Arrive

LEMMA ReserveKeeps ==
  ASSUME Inv, NEW c \in Calls, Reserve(c)
  PROVE  Inv' /\ (PermitLeft => PermitLeft')
<1>1. call' = call \/ call' = Moved(c, "permit")
  BY DEF Reserve
<1>2. SoundCalls(call')
  BY <1>1, CallsSound, MovedSound
<1>3. /\ used' \in [Windows -> Nat] /\ admitted' \in [Windows -> Nat] /\ elapsed' \subseteq Windows
  <2>1. \A v \in Windows : UsedNow(v) \in Nat /\ AdmittedNow(v) \in Nat
    BY DEF UsedNow, AdmittedNow, Inv, TypeOK
  <2>2. Cost[c] \in Nat /\ \A v \in Windows : Budget[v] \in Nat
    BY LimitAssumption DEF LimitAssumption
  <2>3. CASE \A v \in Windows : Ready(c, v)
    <3>1. /\ used' = [v \in Windows |-> Smaller(UsedNow(v) + Cost[c], Budget[v])]
          /\ admitted' = [v \in Windows |-> AdmittedNow(v) + Cost[c]]
          /\ elapsed' = {}
      BY <2>3 DEF Reserve
    <3>2. \A v \in Windows : Smaller(UsedNow(v) + Cost[c], Budget[v]) \in Nat
      BY <2>1, <2>2 DEF Smaller
    <3> QED
      BY <3>1, <3>2, <2>1, <2>2
  <2>4. CASE ~ \A v \in Windows : Ready(c, v)
    BY <2>1, <2>4 DEF Reserve
  <2> QED
    BY <2>3, <2>4
<1>4. Inv'
  BY <1>2, <1>3, Recombine DEF Reserve, Inv, TypeOK, gate
<1>5. Holders # {} => Holders' # {}
  <2>1. CASE call' = call
    BY <2>1 DEF Holders
  <2>2. CASE call' = Moved(c, "permit")
    BY <2>2, OtherMoves DEF Reserve, Moved, HoldingStages
  <2> QED
    BY <1>1, <2>1, <2>2
<1> QED
  BY <1>4, <1>5 DEF PermitLeft, Reserve

LEMMA AcquireKeeps ==
  ASSUME Inv, NEW c \in Calls, Acquire(c)
  PROVE  Inv' /\ (PermitLeft => PermitLeft')
<1>1. CASE free > 0 /\ Step(c, "permit", "admitted") /\ free' = free - 1 /\ UNCHANGED line
  <2>1. call' = Moved(c, "admitted")
    BY <1>1 DEF Step
  <2>2. Inv'
    BY <1>1, <2>1, MovedSound, Recombine DEF Acquire, Inv, TypeOK, windows, gate
  <2>3. call'[c].at = "admitted"
    BY <2>1 DEF Moved, Inv, TypeOK
  <2> QED
    BY <2>2, <2>3 DEF PermitLeft, Holders, HoldingStages
<1>2. CASE free = 0 /\ Step(c, "permit", "queued") /\ line' = Append(line, c) /\ UNCHANGED free
  <2>1. call' = Moved(c, "queued") /\ call[c].at = "permit"
    BY <1>2 DEF Step
  <2>2. line' \in Seq(Calls)
    BY <1>2, AppendProperties DEF Inv, TypeOK
  <2>3. Inv'
    BY <1>2, <2>1, <2>2, MovedSound, Recombine DEF Acquire, Inv, TypeOK, windows, gate
  <2>4. Holders # {} => Holders' # {}
    BY <2>1, OtherMoves DEF Moved, HoldingStages
  <2> QED
    BY <1>2, <2>3, <2>4 DEF PermitLeft
<1> QED
  BY <1>1, <1>2 DEF Acquire

\* Every step in which a call returns and the ceiling is left alone.
LEMMA ReturnKeeps ==
  ASSUME Inv, NEW c \in Calls, Return(c), UNCHANGED windows, UNCHANGED capacity,
         streak' \in Nat, circuit' \in 0..Cooled
  PROVE  Inv' /\ PermitLeft'
<1>1. /\ SoundCalls(call') /\ free' \in Nat /\ line' \in Seq(Calls)
      /\ free' > 0 \/ Holders' # {}
  BY ReturnSound
<1>2. Inv'
  BY <1>1, Recombine DEF Inv, TypeOK, windows
<1> QED
  BY <1>1, <1>2 DEF PermitLeft

\* Every step in which a call moves on with its permit and the semaphore is left alone.
LEMMA MoveKeeps ==
  ASSUME Inv, NEW c \in Calls, SoundCalls(call'), call'[c].at \in HoldingStages,
         free' \in Nat, UNCHANGED line,
         used' \in [Windows -> Nat], admitted' \in [Windows -> Nat], UNCHANGED elapsed,
         capacity' \in 1..MaxPermits, streak' \in Nat, circuit' \in 0..Cooled
  PROVE  Inv' /\ PermitLeft'
<1>1. Inv'
  BY Recombine DEF Inv, TypeOK
<1>2. c \in Holders'
  BY DEF Holders
<1> QED
  BY <1>1, <1>2 DEF PermitLeft

\* Where a move leaves the call.
LEMMA MovedAt ==
  ASSUME Inv, NEW c \in Calls, NEW place
  PROVE  Moved(c, place)[c].at = place
BY DEF Moved, Inv, TypeOK

\* A move with the permit, to a place that asks nothing of what was read.
LEMMA StepKeeps ==
  ASSUME Inv, NEW c \in Calls,
         NEW place \in {"sending", "praised", "restarted", "measured", "slowing", "halving", "counting"},
         call' = Moved(c, place), UNCHANGED <<free, line, capacity>>,
         used' \in [Windows -> Nat], admitted' \in [Windows -> Nat], UNCHANGED elapsed,
         streak' \in Nat, circuit' \in 0..Cooled
  PROVE  Inv' /\ PermitLeft'
<1>1. SoundCalls(call')
  BY MovedSound
<1>2. call'[c].at \in HoldingStages
  BY MovedAt DEF HoldingStages
<1> QED
  BY <1>1, <1>2, MoveKeeps DEF Inv, TypeOK

\* A move with the permit to a record given in full.
LEMMA RecordKeeps ==
  ASSUME Inv, NEW c \in Calls, NEW r, Sound(r), r.at \in HoldingStages,
         call' = [call EXCEPT ![c] = r], free' \in Nat, UNCHANGED <<line, windows, gate>>,
         circuit' \in 0..Cooled
  PROVE  Inv' /\ PermitLeft'
<1>1. SoundCalls(call')
  BY CallsSound DEF SoundCalls
<1>2. call'[c].at \in HoldingStages
  BY CallsSound DEF SoundCalls
<1> QED
  BY <1>1, <1>2, MoveKeeps DEF Inv, TypeOK, windows, gate

LEMMA RecheckKeeps ==
  ASSUME Inv, NEW c \in Calls, Recheck(c)
  PROVE  Inv' /\ PermitLeft'
<1>1. circuit' \in 0..Cooled
  BY LimitAssumption DEF Recheck, Closed, Inv, TypeOK, Cooled, LimitAssumption
<1>2. CASE Return(c)
  BY <1>1, <1>2, ReturnKeeps DEF Recheck, gate, Inv, TypeOK
<1>3. CASE call' = Moved(c, "sending") /\ UNCHANGED <<free, line>>
  BY <1>1, <1>3, StepKeeps DEF Recheck, gate, windows, Inv, TypeOK
<1> QED
  BY <1>2, <1>3 DEF Recheck

LEMMA SucceedKeeps ==
  ASSUME Inv, NEW c \in Calls, Succeed(c)
  PROVE  Inv' /\ PermitLeft'
<1>1. circuit' \in 0..Cooled
  BY LimitAssumption DEF Succeed, Inv, TypeOK, Cooled, LimitAssumption
<1>2. /\ used' \in [Windows -> Nat] /\ admitted' \in [Windows -> Nat] /\ UNCHANGED elapsed
  BY LimitAssumption DEF Succeed, windows, Inv, TypeOK, LimitAssumption
<1> QED
  BY <1>1, <1>2, StepKeeps DEF Succeed, Step, gate, Inv, TypeOK

LEMMA BannedKeeps ==
  ASSUME Inv, NEW c \in Calls, Banned(c)
  PROVE  Inv' /\ PermitLeft'
<1>1. circuit' \in 0..Cooled
  BY LimitAssumption DEF Banned, TrippedAt, Cooled, LimitAssumption
<1> QED
  BY <1>1, ReturnKeeps DEF Banned, gate, Inv, TypeOK

LEMMA TooManyKeeps ==
  ASSUME Inv, NEW c \in Calls, TooMany(c)
  PROVE  Inv' /\ PermitLeft'
BY StepKeeps DEF TooMany, Step, gate, windows, Inv, TypeOK

LEMMA FailKeeps ==
  ASSUME Inv, NEW c \in Calls, Fail(c)
  PROVE  Inv' /\ PermitLeft'
<1>1. CASE Return(c)
  BY <1>1, ReturnKeeps DEF Fail, gate, Inv, TypeOK
<1>2. CASE ~ LastAttempt(c) /\ call' = Moved(c, "sleeping") /\ UNCHANGED <<free, line>>
  <2>1. Sound(call[c])
    BY CallsSound DEF SoundCalls
  <2>2. Sound([call[c] EXCEPT !.at = "sleeping"])
    <3>1. [call[c] EXCEPT !.at = "sleeping"] \in CallRecord
      BY <2>1 DEF Sound, CallRecord, Stages, HoldingStages
    <3>2. call[c].tries \in 1..MaxAttempts /\ call[c].tries # MaxAttempts
      BY <1>2, <2>1 DEF LastAttempt, Sound, CallRecord
    <3> QED
      BY <2>1, <3>1, <3>2, LimitAssumption DEF Sound, ReadingOf, CallRecord, LimitAssumption
  <2>3. [call[c] EXCEPT !.at = "sleeping"].at \in HoldingStages
    BY <2>1 DEF HoldingStages, Sound, CallRecord
  <2>4. call' = [call EXCEPT ![c] = [call[c] EXCEPT !.at = "sleeping"]]
    BY <1>2 DEF Moved
  <2> QED
    BY <1>2, <2>2, <2>3, <2>4, RecordKeeps DEF Fail, Inv, TypeOK
<1> QED
  BY <1>1, <1>2 DEF Fail

LEMMA RetryKeeps ==
  ASSUME Inv, NEW c \in Calls, Retry(c)
  PROVE  Inv' /\ PermitLeft'
<1> DEFINE r == [call[c] EXCEPT !.at = "sending", !.tries = @ + 1]
<1>1. Sound(call[c]) /\ call[c].at = "sleeping"
  BY CallsSound DEF SoundCalls, Retry
<1>2. call[c].tries + 1 \in 1..MaxAttempts
  BY <1>1, LimitAssumption DEF Sound, ReadingOf, CallRecord, LimitAssumption
<1>3. Sound(r) /\ r.at \in HoldingStages
  BY <1>1, <1>2 DEF Sound, CallRecord, ReadingOf, Stages, HoldingStages
<1>4. call' = [call EXCEPT ![c] = r]
  BY DEF Retry
<1> QED
  BY <1>3, <1>4, RecordKeeps DEF Retry, Inv, TypeOK

LEMMA BumpKeeps ==
  ASSUME Inv, NEW c \in Calls, Bump(c)
  PROVE  Inv' /\ PermitLeft'
<1>1. streak' \in Nat
  BY DEF Bump, Inv, TypeOK
<1>2. CASE Return(c)
  BY <1>1, <1>2, ReturnKeeps DEF Bump, Inv, TypeOK
<1>3. CASE Step(c, "praised", "restarted") /\ UNCHANGED <<free, line>>
  BY <1>1, <1>3, StepKeeps DEF Bump, Step, windows, Inv, TypeOK
<1> QED
  BY <1>2, <1>3 DEF Bump

LEMMA RestartKeeps ==
  ASSUME Inv, NEW c \in Calls, Restart(c)
  PROVE  Inv' /\ PermitLeft'
BY StepKeeps DEF Restart, Step, windows, Inv, TypeOK

LEMMA MeasureKeeps ==
  ASSUME Inv, NEW c \in Calls, Measure(c)
  PROVE  Inv' /\ PermitLeft'
<1> DEFINE r == [call[c] EXCEPT !.at = "adding", !.current = capacity]
<1>1. CASE Return(c)
  BY <1>1, ReturnKeeps DEF Measure, gate, Inv, TypeOK
<1>2. CASE capacity < MaxPermits /\ call' = [call EXCEPT ![c].at = "adding", ![c].current = capacity]
           /\ UNCHANGED <<free, line>>
  <2>1. Sound(call[c]) /\ capacity \in 0..MaxPermits
    BY CallsSound, LimitAssumption DEF SoundCalls, Inv, TypeOK, LimitAssumption
  <2>2. Sound(r) /\ r.at \in HoldingStages
    BY <1>2, <2>1 DEF Sound, CallRecord, ReadingOf, Stages, HoldingStages
  <2>3. call' = [call EXCEPT ![c] = r]
    BY <1>2
  <2> QED
    BY <1>2, <2>2, <2>3, RecordKeeps DEF Measure, Inv, TypeOK
<1> QED
  BY <1>1, <1>2 DEF Measure

LEMMA AddPermitKeeps ==
  ASSUME Inv, NEW c \in Calls, AddPermit(c)
  PROVE  Inv' /\ PermitLeft'
<1>1. Sound(call[c]) /\ call[c].at = "adding"
  BY CallsSound DEF SoundCalls, AddPermit
<1>2. Sound([call[c] EXCEPT !.at = "raising"])
  <2>1. [call[c] EXCEPT !.at = "raising"] \in CallRecord
    BY <1>1 DEF Sound, CallRecord, Stages, HoldingStages
  <2> QED
    BY <1>1, <2>1 DEF Sound, CallRecord, ReadingOf
<1>3. SoundCalls(Moved(c, "raising"))
  BY <1>2, CallsSound DEF SoundCalls, Moved
<1>4. /\ SoundCalls(call') /\ free' \in Nat /\ line' \in Seq(Calls)
      /\ free' > 0 \/ Holders' # {}
  BY <1>3, FreedSound DEF AddPermit
<1>5. Inv'
  BY <1>4, Recombine DEF AddPermit, windows, gate, Inv, TypeOK
<1> QED
  BY <1>4, <1>5 DEF PermitLeft

LEMMA RaiseKeeps ==
  ASSUME Inv, NEW c \in Calls, Raise(c)
  PROVE  Inv' /\ PermitLeft'
<1>1. Sound(call[c]) /\ call[c].at = "raising"
  BY CallsSound DEF SoundCalls, Raise
<1>2. capacity' \in 1..MaxPermits
  BY <1>1, LimitAssumption DEF Raise, Sound, CallRecord, ReadingOf, LimitAssumption
<1>3. /\ SoundCalls(call') /\ free' \in Nat /\ line' \in Seq(Calls)
      /\ free' > 0 \/ Holders' # {}
  BY ReturnSound DEF Raise
<1>4. Inv'
  BY <1>2, <1>3, Recombine DEF Raise, windows, Inv, TypeOK
<1> QED
  BY <1>3, <1>4 DEF PermitLeft

LEMMA SlowKeeps ==
  ASSUME Inv, NEW c \in Calls, Slow(c)
  PROVE  Inv' /\ PermitLeft'
BY StepKeeps DEF Slow, Step, windows, Inv, TypeOK

LEMMA HalveKeeps ==
  ASSUME Inv, NEW c \in Calls, Halve(c)
  PROVE  Inv' /\ PermitLeft'
<1> DEFINE half == IF capacity \div 2 < 1 THEN 1 ELSE capacity \div 2
           r == [call[c] EXCEPT !.at = "shrinking", !.target = half]
<1>1. Sound(call[c]) /\ half \in 1..MaxPermits
  BY CallsSound, LimitAssumption DEF SoundCalls, Inv, TypeOK, LimitAssumption
<1> HIDE DEF half
<1>2. Sound(r) /\ r.at \in HoldingStages
  <2>1. half \in 0..MaxPermits /\ call[c] \in CallRecord /\ "shrinking" \in Stages
    BY <1>1, LimitAssumption DEF Sound, Stages, HoldingStages, LimitAssumption
  <2>2. r \in CallRecord /\ r.at = "shrinking" /\ r.target = half
    <3>1. r \in CallRecord
      BY <2>1 DEF CallRecord
    <3>2. r.at = "shrinking"
      BY <2>1 DEF CallRecord
    <3>3. r.target = half
      BY <2>1 DEF CallRecord
    <3> QED
      BY <3>1, <3>2, <3>3
  <2> QED
    BY <1>1, <2>2, LimitAssumption DEF Sound, ReadingOf, HoldingStages, LimitAssumption
<1>3. call' = [call EXCEPT ![c] = r]
  BY DEF Halve, half
<1> QED
  BY <1>2, <1>3, RecordKeeps DEF Halve, Inv, TypeOK

LEMMA ShrinkKeeps ==
  ASSUME Inv, NEW c \in Calls, Shrink(c)
  PROVE  Inv' /\ PermitLeft'
<1> DEFINE place == IF call[c].target >= capacity THEN "counting" ELSE "forgetting"
           r == [call[c] EXCEPT !.at = place, !.current = capacity]
<1>1. Sound(call[c]) /\ call[c].at = "shrinking" /\ capacity \in 0..MaxPermits
  BY CallsSound, LimitAssumption DEF SoundCalls, Shrink, Inv, TypeOK, LimitAssumption
<1>2. Sound(r) /\ r.at \in HoldingStages
  <2>1. place \in Stages /\ place \in {"counting", "forgetting"}
        /\ (place = "forgetting" => ~ call[c].target >= capacity)
    BY DEF Stages, HoldingStages
  <2> HIDE DEF place
  <2>2. r \in CallRecord /\ r.at = place /\ r.current = capacity /\ r.target = call[c].target
    <3>1. call[c] \in CallRecord
      BY <1>1 DEF Sound
    <3>2. r \in CallRecord
      BY <1>1, <2>1, <3>1 DEF CallRecord
    <3>3. r.at = place
      BY <3>1 DEF CallRecord
    <3>4. r.current = capacity
      BY <3>1 DEF CallRecord
    <3>5. r.target = call[c].target
      BY <3>1 DEF CallRecord
    <3> QED
      BY <3>2, <3>3, <3>4, <3>5
  <2>3. r.at = "forgetting" => r.target >= 1 /\ r.target < r.current
    BY <1>1, <2>1, <2>2, LimitAssumption DEF Sound, ReadingOf, CallRecord, LimitAssumption
  <2> QED
    BY <2>1, <2>2, <2>3 DEF Sound, ReadingOf, HoldingStages
<1>3. call' = [call EXCEPT ![c] = r]
  BY DEF Shrink
<1> QED
  BY <1>2, <1>3, RecordKeeps DEF Shrink, Inv, TypeOK

\* Only free permits are forgotten, and the call that forgets them keeps its own.
LEMMA ForgetKeeps ==
  ASSUME Inv, NEW c \in Calls, Forget(c)
  PROVE  Inv' /\ PermitLeft'
<1> DEFINE forgotten == Smaller(call[c].current - call[c].target, free)
           r == [call[c] EXCEPT !.at = "lowering", !.current = @ - forgotten]
<1>1. Sound(call[c]) /\ call[c].at = "forgetting" /\ free \in Nat
  BY CallsSound DEF SoundCalls, Forget, Inv, TypeOK
<1>2. /\ forgotten \in Nat /\ forgotten <= free
      /\ call[c].current - forgotten \in 1..MaxPermits
  BY <1>1, LimitAssumption DEF Smaller, Sound, CallRecord, ReadingOf, LimitAssumption
<1>3. call' = [call EXCEPT ![c] = r] /\ free' = free - forgotten
  BY DEF Forget
<1> HIDE DEF forgotten
<1>4. Sound(r) /\ r.at \in HoldingStages
  <2> DEFINE n == call[c].current - forgotten
  <2>1. n \in 0..MaxPermits /\ n >= 1 /\ "lowering" \in Stages /\ call[c] \in CallRecord
    BY <1>1, <1>2, LimitAssumption DEF Sound, Stages, HoldingStages, LimitAssumption
  <2>2. call[c].current - forgotten = n
    OBVIOUS
  <2> HIDE DEF n
  <2>3. r \in CallRecord
    BY <2>1, <2>2 DEF CallRecord
  <2>4. r.at = "lowering"
    BY <2>1 DEF CallRecord
  <2>5. r.current = n
    BY <2>1, <2>2 DEF CallRecord
  <2> QED
    BY <2>1, <2>3, <2>4, <2>5 DEF Sound, ReadingOf, HoldingStages
<1>5. free' \in Nat
  BY <1>1, <1>2, <1>3
<1> QED
  BY <1>3, <1>4, <1>5, RecordKeeps DEF Forget, Inv, TypeOK

LEMMA LowerKeeps ==
  ASSUME Inv, NEW c \in Calls, Lower(c)
  PROVE  Inv' /\ PermitLeft'
<1>1. Sound(call[c]) /\ call[c].at = "lowering" /\ call' = Moved(c, "counting")
  BY CallsSound DEF SoundCalls, Lower, Step
<1>2. capacity' \in 1..MaxPermits
  BY <1>1, LimitAssumption DEF Lower, Sound, CallRecord, ReadingOf, LimitAssumption
<1>3. SoundCalls(call') /\ call'[c].at \in HoldingStages
  BY <1>1, MovedSound, MovedAt DEF HoldingStages
<1> QED
  BY <1>2, <1>3, MoveKeeps DEF Lower, windows, Inv, TypeOK

LEMMA CountKeeps ==
  ASSUME Inv, NEW c \in Calls, Count(c)
  PROVE  Inv' /\ PermitLeft'
<1> DEFINE r == [At("sleeping") EXCEPT !.tries = call[c].tries]
<1>1. circuit' \in 0..Cooled
  BY LimitAssumption DEF Count, TrippedAt, Cooled, Inv, TypeOK, LimitAssumption
<1>2. CASE Return(c)
  BY <1>1, <1>2, ReturnKeeps DEF Count, gate, Inv, TypeOK
<1>3. CASE ~ LastAttempt(c) /\ call' = [call EXCEPT ![c] = r] /\ UNCHANGED <<free, line>>
  <2>1. Sound(call[c])
    BY CallsSound DEF SoundCalls
  <2>2. call[c].tries \in 1..MaxAttempts /\ call[c].tries < MaxAttempts
    BY <1>3, <2>1, LimitAssumption DEF LastAttempt, Sound, CallRecord, LimitAssumption
  <2>3. r = [at |-> "sleeping", tries |-> call[c].tries, target |-> 0, current |-> 0]
    BY DEF At
  <2>4. Sound(r) /\ r.at \in HoldingStages
    BY <2>2, <2>3, LimitAssumption
    DEF Sound, CallRecord, ReadingOf, Stages, HoldingStages, LimitAssumption
  <2> QED
    BY <1>1, <1>3, <2>4, RecordKeeps DEF Count, Inv, TypeOK
<1> QED
  BY <1>2, <1>3 DEF Count

LEMMA AbandonKeeps ==
  ASSUME Inv, NEW c \in Calls, Abandon(c)
  PROVE  Inv' /\ (PermitLeft => PermitLeft')
<1>1. CASE Return(c)
  BY <1>1, ReturnKeeps DEF Abandon, gate, Inv, TypeOK
<1>2. CASE /\ call[c].at \in {"windows", "permit", "queued"}
           /\ call' = [call EXCEPT ![c] = At("done")]
           /\ \/ line' = line
              \/ \E n \in DOMAIN line : line' = SubSeq(line, 1, n - 1) \o SubSeq(line, n + 1, Len(line))
           /\ UNCHANGED free
  <2>1. SoundCalls(call')
    BY <1>2, CallsSound, RestSound DEF SoundCalls
  <2>2. line' \in Seq(Calls)
    <3>1. line \in Seq(Calls)
      BY DEF Inv, TypeOK
    <3>2. ASSUME NEW n \in DOMAIN line
          PROVE  SubSeq(line, 1, n - 1) \o SubSeq(line, n + 1, Len(line)) \in Seq(Calls)
      <4>1. n \in 1..Len(line)
        BY <3>1, <3>2
      <4>2. /\ SubSeq(line, 1, n - 1) \in Seq(Calls)
            /\ SubSeq(line, n + 1, Len(line)) \in Seq(Calls)
        BY <3>1, <4>1
      <4> QED
        BY <4>2
    <3> QED
      BY <1>2, <3>1, <3>2
  <2>3. Inv'
    BY <1>2, <2>1, <2>2, Recombine DEF Abandon, windows, gate, Inv, TypeOK
  <2>4. Holders # {} => Holders' # {}
    BY <1>2, OtherMoves DEF HoldingStages
  <2> QED
    BY <1>2, <2>3, <2>4 DEF PermitLeft
<1> QED
  BY <1>1, <1>2 DEF Abandon

LEMMA ElapseKeeps ==
  ASSUME Inv, NEW v \in Windows, Elapse(v)
  PROVE  Inv' /\ (PermitLeft => PermitLeft')
BY DEF Elapse, gate, Inv, TypeOK, Readings, PermitLeft, Holders

LEMMA CoolDownKeeps ==
  ASSUME Inv, CoolDown
  PROVE  Inv' /\ (PermitLeft => PermitLeft')
BY LimitAssumption
DEF CoolDown, windows, gate, Inv, TypeOK, Readings, PermitLeft, Holders, Cooled, LimitAssumption

LEMMA StutterKeeps ==
  ASSUME Inv, UNCHANGED vars
  PROVE  Inv' /\ (PermitLeft => PermitLeft')
BY DEF vars, Inv, TypeOK, Readings, PermitLeft, Holders

-----------------------------------------------------------------------------
(* The theorems. *)

LEMMA InitHolds == Init => Inv /\ PermitLeft
<1> SUFFICES ASSUME Init PROVE Inv /\ PermitLeft
  OBVIOUS
<1>1. call = [c \in Calls |-> At("new")] /\ \A c \in Calls : Sound(call[c])
  BY RestSound DEF Init
<1>2. call \in [Calls -> CallRecord] /\ Readings
  BY <1>1 DEF Sound, Readings
<1> QED
  BY <1>2, LimitAssumption DEF Init, Inv, TypeOK, CallRecord, PermitLeft, Cooled, LimitAssumption

LEMMA StepHolds == Inv /\ PermitLeft /\ [Next]_vars => Inv' /\ PermitLeft'
<1> SUFFICES ASSUME Inv, PermitLeft, [Next]_vars PROVE Inv' /\ PermitLeft'
  OBVIOUS
<1>1. CASE \E c \in Calls : Onward(c)
  <2> PICK c \in Calls : Onward(c)
    BY <1>1
  <2>1. CASE Arrive(c) \/ Reserve(c) \/ Acquire(c) \/ Recheck(c) \/ Retry(c)
    BY <2>1, ArriveKeeps, ReserveKeeps, AcquireKeeps, RecheckKeeps, RetryKeeps
  <2>2. CASE Answered(c)
    BY <2>2, SucceedKeeps, BannedKeeps, TooManyKeeps, FailKeeps DEF Answered
  <2>3. CASE Bump(c) \/ Restart(c) \/ Measure(c) \/ AddPermit(c) \/ Raise(c)
    BY <2>3, BumpKeeps, RestartKeeps, MeasureKeeps, AddPermitKeeps, RaiseKeeps
  <2>4. CASE Slow(c) \/ Halve(c) \/ Shrink(c) \/ Forget(c) \/ Lower(c) \/ Count(c)
    BY <2>4, SlowKeeps, HalveKeeps, ShrinkKeeps, ForgetKeeps, LowerKeeps, CountKeeps
  <2> QED
    BY <2>1, <2>2, <2>3, <2>4 DEF Onward
<1>2. CASE \E c \in Calls : Abandon(c)
  BY <1>2, AbandonKeeps
<1>3. CASE \E v \in Windows : Elapse(v)
  BY <1>3, ElapseKeeps
<1>4. CASE CoolDown
  BY <1>4, CoolDownKeeps
<1>5. CASE UNCHANGED vars
  BY <1>5, StutterKeeps
<1> QED
  BY <1>1, <1>2, <1>3, <1>4, <1>5 DEF Next

\* The invariant behind the theorems holds in every state, whatever the fairness.
LEMMA Invariant == Spec => [](Inv /\ PermitLeft)
BY InitHolds, StepHolds, PTL DEF Spec

(***************************************************************************)
(* The recorded ceiling never leaves 1..max_concurrent, whichever stale    *)
(* reading is stored last, and no call is retried beyond its attempts.     *)
(***************************************************************************)
THEOREM TypesHold == Spec => []TypeOK
<1>1. Inv /\ PermitLeft => TypeOK
  BY DEF Inv
<1> QED
  BY <1>1, Invariant, PTL

(***************************************************************************)
(* No interleaving of halvings, recoveries, cancellations and returns      *)
(* takes the last permit out of the semaphore.                             *)
(***************************************************************************)
THEOREM PermitsHold == Spec => []PermitsNeverRunOut
<1>1. Inv /\ PermitLeft => PermitsNeverRunOut
  BY DEF PermitLeft, PermitsNeverRunOut
<1> QED
  BY <1>1, Invariant, PTL

-----------------------------------------------------------------------------
(* The windows. *)

\* What WindowsAreExact says of one window: what it was charged and what it let
\* through, where `light` says no call and no reported count exceeds its budget.
Exact(u, a, budget, light) ==
  /\ u = a \/ (u = budget /\ a > budget)
  /\ light => a <= budget

Light(v) == (\A c \in Calls : Cost[c] <= Budget[v]) /\ (\A n \in Observed : n <= Budget[v])

LEMMA WindowsAsExact == WindowsAreExact <=> \A v \in Windows : Exact(used[v], admitted[v], Budget[v], Light(v))
BY DEF WindowsAreExact, Exact, Light

\* One charge, of what fits or of what is heavier than the whole window.
LEMMA ChargeExact ==
  ASSUME NEW u \in Nat, NEW a \in Nat, NEW budget \in Nat, NEW cost \in Nat, NEW light \in BOOLEAN,
         Exact(u, a, budget, light), light => cost <= budget,
         cost > budget \/ u + cost <= budget
  PROVE  Exact(Smaller(u + cost, budget), a + cost, budget, light)
BY DEF Exact, Smaller

\* An elapsed window starts over, and is then as exact as the others.
LEMMA NowExact ==
  ASSUME Inv, WindowsAreExact, NEW v \in Windows
  PROVE  /\ UsedNow(v) \in Nat /\ AdmittedNow(v) \in Nat
         /\ Exact(UsedNow(v), AdmittedNow(v), Budget[v], Light(v))
<1>1. Budget[v] \in Nat /\ used[v] \in Nat /\ admitted[v] \in Nat
  BY LimitAssumption DEF Inv, TypeOK, LimitAssumption
<1>2. Exact(used[v], admitted[v], Budget[v], Light(v)) /\ Exact(0, 0, Budget[v], Light(v))
  BY <1>1, WindowsAsExact DEF Exact
<1> QED
  BY <1>1, <1>2 DEF UsedNow, AdmittedNow

LEMMA ReserveExact ==
  ASSUME Inv, WindowsAreExact, NEW c \in Calls, Reserve(c)
  PROVE  WindowsAreExact'
<1>1. SUFFICES ASSUME NEW v \in Windows
               PROVE  Exact(used'[v], admitted'[v], Budget[v], Light(v))
  BY DEF WindowsAreExact, Exact, Light
<1>2. /\ UsedNow(v) \in Nat /\ AdmittedNow(v) \in Nat
      /\ Exact(UsedNow(v), AdmittedNow(v), Budget[v], Light(v))
  BY NowExact
<1>3. CASE \A w \in Windows : Ready(c, w)
  <2>1. Cost[c] > Budget[v] \/ UsedNow(v) + Cost[c] <= Budget[v]
    BY <1>3 DEF Ready
  <2>2. Budget[v] \in Nat /\ Cost[c] \in Nat /\ Light(v) \in BOOLEAN /\ (Light(v) => Cost[c] <= Budget[v])
    BY LimitAssumption DEF LimitAssumption, Light
  <2>3. Exact(Smaller(UsedNow(v) + Cost[c], Budget[v]), AdmittedNow(v) + Cost[c], Budget[v], Light(v))
    BY <1>2, <2>1, <2>2, ChargeExact
  <2>4. /\ used'[v] = Smaller(UsedNow(v) + Cost[c], Budget[v])
        /\ admitted'[v] = AdmittedNow(v) + Cost[c]
    BY <1>3 DEF Reserve
  <2> QED
    BY <2>3, <2>4
<1>4. CASE ~ \A w \in Windows : Ready(c, w)
  BY <1>2, <1>4 DEF Reserve
<1> QED
  BY <1>3, <1>4

LEMMA SucceedExact ==
  ASSUME Inv, WindowsAreExact, NEW c \in Calls, Succeed(c)
  PROVE  WindowsAreExact'
<1>1. CASE UNCHANGED windows
  BY <1>1 DEF windows, WindowsAreExact
<1>2. CASE \E v \in Windows, n \in Observed :
             used' = [used EXCEPT ![v] = n] /\ admitted' = [admitted EXCEPT ![v] = n]
  <2> PICK v \in Windows, n \in Observed :
             used' = [used EXCEPT ![v] = n] /\ admitted' = [admitted EXCEPT ![v] = n]
    BY <1>2
  <2> SUFFICES ASSUME NEW w \in Windows
               PROVE  Exact(used'[w], admitted'[w], Budget[w], Light(w))
    BY DEF WindowsAreExact, Exact, Light
  <2>1. CASE w = v
    BY <2>1 DEF Exact, Light, Inv, TypeOK
  <2>2. CASE w # v
    BY <2>2, WindowsAsExact DEF Inv, TypeOK
  <2> QED
    BY <2>1, <2>2
<1> QED
  BY <1>1, <1>2 DEF Succeed

\* Nothing else charges a window or takes a charge back.
LEMMA OthersLeaveWindows ==
  ASSUME [Next]_vars, ~ \E c \in Calls : Reserve(c) \/ Succeed(c)
  PROVE  used' = used /\ admitted' = admitted
<1>1. CASE UNCHANGED vars \/ CoolDown \/ \E v \in Windows : Elapse(v)
  BY <1>1 DEF vars, CoolDown, windows, Elapse
<1>2. CASE \E c \in Calls : Abandon(c)
  BY <1>2 DEF Abandon, windows
<1>3. CASE \E c \in Calls : Onward(c)
  <2> PICK c \in Calls : Onward(c)
    BY <1>3
  <2>1. CASE Arrive(c) \/ Acquire(c) \/ Recheck(c) \/ Retry(c) \/ Banned(c) \/ TooMany(c) \/ Fail(c)
    BY <2>1 DEF Arrive, Acquire, Recheck, Retry, Banned, TooMany, Fail, windows
  <2>2. CASE Bump(c) \/ Restart(c) \/ Measure(c) \/ AddPermit(c) \/ Raise(c)
    BY <2>2 DEF Bump, Restart, Measure, AddPermit, Raise, windows
  <2>3. CASE Slow(c) \/ Halve(c) \/ Shrink(c) \/ Forget(c) \/ Lower(c) \/ Count(c)
    BY <2>3 DEF Slow, Halve, Shrink, Forget, Lower, Count, windows
  <2> QED
    BY <2>1, <2>2, <2>3 DEF Onward, Answered
<1> QED
  BY <1>1, <1>2, <1>3 DEF Next

(***************************************************************************)
(* try_reserve_all charges every window or none, so a window has been      *)
(* charged for exactly the calls let past all of them, and no window       *)
(* admits more than its budget while no single call outweighs it.          *)
(***************************************************************************)
THEOREM WindowsHold == Spec => []WindowsAreExact
<1>1. Init => WindowsAreExact
  BY LimitAssumption DEF Init, WindowsAreExact, LimitAssumption
<1>2. Inv /\ PermitLeft /\ WindowsAreExact /\ [Next]_vars => WindowsAreExact'
  <2> SUFFICES ASSUME Inv, WindowsAreExact, [Next]_vars PROVE WindowsAreExact'
    OBVIOUS
  <2>1. CASE \E c \in Calls : Reserve(c) \/ Succeed(c)
    BY <2>1, ReserveExact, SucceedExact
  <2>2. CASE ~ \E c \in Calls : Reserve(c) \/ Succeed(c)
    BY <2>2, OthersLeaveWindows DEF WindowsAreExact
  <2> QED
    BY <2>1, <2>2
<1> QED
  BY <1>1, <1>2, Invariant, PTL DEF Spec
================================================================================
