--------------------------- MODULE SeriesStore_proofs ---------------------------
(***************************************************************************)
(* SeriesStore for every set of ranges and every set of writers.           *)
(***************************************************************************)
EXTENDS SeriesStore, TLAPS

(***************************************************************************)
(* Why an unlink is safe however stale the listing behind it is.  What a   *)
(* write replaces is strictly inside its own range, and as long as the     *)
(* write runs some file contains that range: its own, or one that has      *)
(* replaced it since.  Replacements only ever get wider, so the file that  *)
(* vouches for a write is never the one that is being unlinked for it.     *)
(***************************************************************************)
RangeIsDeclared ==
  \A w \in Writers : writer[w].stage \in {"listed", "placed"} => writer[w].range \in Ranges

StrictlyInside ==
  \A w \in Writers : \A d \in writer[w].superseded :
    d \subseteq writer[w].range /\ d # writer[w].range

PlacedIsContained ==
  ~deleted =>
    \A w \in Writers : writer[w].stage = "placed" =>
      \E f \in files : writer[w].range \subseteq f

IInv == TypeOK /\ RangeIsDeclared /\ StrictlyInside /\ PlacedIsContained

-----------------------------------------------------------------------------
\* The invariant holds before any write.
LEMMA IInvInit == Init => IInv
<1> SUFFICES ASSUME Init PROVE IInv
  OBVIOUS
<1>1. \A w \in Writers : writer[w] = Idle
  BY DEF Init
<1>2. TypeOK
  BY DEF Init, TypeOK, Idle, Stages
<1>3. StrictlyInside
  BY <1>1 DEF StrictlyInside, Idle
<1>4. PlacedIsContained
  BY <1>1 DEF PlacedIsContained, Idle
<1> QED
  BY <1>1, <1>2, <1>3, <1>4 DEF IInv, RangeIsDeclared, Idle

\* Every step keeps the store's state well formed.
LEMMA TypeStep ==
  TypeOK /\ RangeIsDeclared /\ [Next]_vars => TypeOK' /\ RangeIsDeclared'
<1> SUFFICES ASSUME TypeOK, RangeIsDeclared, [Next]_vars
             PROVE TypeOK' /\ RangeIsDeclared'
  OBVIOUS
<1> USE DEF TypeOK, RangeIsDeclared, Stages, Idle, Done
<1>1. ASSUME NEW w \in Writers, NEW r \in Ranges, BeginWrite(w, r)
      PROVE TypeOK' /\ RangeIsDeclared'
  BY <1>1 DEF BeginWrite, Superseded
<1>2. ASSUME NEW w \in Writers, NEW r \in Ranges, RefuseWrite(w, r)
      PROVE TypeOK' /\ RangeIsDeclared'
  BY <1>2 DEF RefuseWrite
<1>3. ASSUME NEW w \in Writers, PlaceFile(w)
      PROVE TypeOK' /\ RangeIsDeclared'
  BY <1>3 DEF PlaceFile
<1>4. ASSUME NEW w \in Writers, Unlink(w)
      PROVE TypeOK' /\ RangeIsDeclared'
  BY <1>4 DEF Unlink
<1>5. ASSUME NEW w \in Writers, FinishWrite(w)
      PROVE TypeOK' /\ RangeIsDeclared'
  BY <1>5 DEF FinishWrite
<1>6. ASSUME NEW w \in Writers, FailWrite(w)
      PROVE TypeOK' /\ RangeIsDeclared'
  BY <1>6 DEF FailWrite
<1>7. ASSUME NEW w \in Writers, CollectWrite(w)
      PROVE TypeOK' /\ RangeIsDeclared'
  BY <1>7 DEF CollectWrite
<1>8. CASE Crash
  BY <1>8 DEF Crash
<1>9. CASE DeleteSeries
  BY <1>9 DEF DeleteSeries
<1>10. CASE UNCHANGED vars
  BY <1>10 DEF vars
<1> QED
  BY <1>1, <1>2, <1>3, <1>4, <1>5, <1>6, <1>7, <1>8, <1>9, <1>10 DEF Next

-----------------------------------------------------------------------------
(***************************************************************************)
(* The file that vouches for a write survives every unlink: if it is the   *)
(* one being unlinked, the file that vouches for the unlinking write       *)
(* contains it and is another file.                                        *)
(***************************************************************************)
LEMMA UnlinkIsVouchedFor ==
  ASSUME IInv, ~deleted, NEW w \in Writers, writer[w].stage = "placed",
         NEW d \in writer[w].superseded, NEW f \in files
  PROVE  \E g \in files \ {d} : f \subseteq g
<1>1. CASE f # d
  BY <1>1
<1>2. CASE f = d
  <2>1. PICK g \in files : writer[w].range \subseteq g
    BY DEF IInv, PlacedIsContained
  <2>2. d \subseteq writer[w].range /\ d # writer[w].range
    BY DEF IInv, StrictlyInside
  <2>3. d \subseteq g /\ g # d
    BY <2>1, <2>2
  <2> QED
    BY <1>2, <2>1, <2>3
<1> QED
  BY <1>1, <1>2

\* The invariant survives every step.
LEMMA IInvStep == IInv /\ [Next]_vars => IInv'
<1> SUFFICES ASSUME IInv, [Next]_vars PROVE IInv'
  OBVIOUS
<1>t. TypeOK /\ TypeOK' /\ RangeIsDeclared'
  BY TypeStep DEF IInv
<1> SUFFICES StrictlyInside' /\ PlacedIsContained'
  BY <1>t DEF IInv
<1> USE DEF StrictlyInside, PlacedIsContained
<1>1. ASSUME NEW w \in Writers, NEW r \in Ranges, BeginWrite(w, r)
      PROVE StrictlyInside' /\ PlacedIsContained'
  <2>1. /\ writer'[w] = [stage |-> "listed", range |-> r, superseded |-> Superseded(r)]
        /\ \A v \in Writers \ {w} : writer'[v] = writer[v]
    BY <1>1, <1>t DEF BeginWrite, TypeOK
  <2>2. StrictlyInside'
    BY <2>1 DEF IInv, Superseded
  <2>3. PlacedIsContained'
    BY <1>1, <2>1 DEF IInv, BeginWrite
  <2> QED
    BY <2>2, <2>3
<1>2. ASSUME NEW w \in Writers, UNCHANGED <<files, deleted>>,
             NEW stage \in {"written", "failed"},
             writer' = [writer EXCEPT ![w] = Done(stage)]
      PROVE StrictlyInside' /\ PlacedIsContained'
  <2>1. /\ writer'[w].stage # "placed" /\ writer'[w].superseded = {}
        /\ \A v \in Writers \ {w} : writer'[v] = writer[v]
    BY <1>2, <1>t DEF TypeOK, Done, Idle
  <2> QED
    BY <1>2, <2>1 DEF IInv
<1>3. ASSUME NEW w \in Writers, PlaceFile(w)
      PROVE StrictlyInside' /\ PlacedIsContained'
  <2>1. /\ writer'[w].range = writer[w].range /\ writer'[w].superseded = writer[w].superseded
        /\ \A v \in Writers \ {w} : writer'[v] = writer[v]
    BY <1>3, <1>t DEF PlaceFile, TypeOK
  <2>2. StrictlyInside'
    BY <2>1 DEF IInv
  <2>3. PlacedIsContained'
    BY <1>3, <2>1 DEF IInv, PlaceFile
  <2> QED
    BY <2>2, <2>3
<1>4. ASSUME NEW w \in Writers, Unlink(w)
      PROVE StrictlyInside' /\ PlacedIsContained'
  <2>1. PICK d \in writer[w].superseded :
          /\ files' = files \ {d}
          /\ writer' = [writer EXCEPT ![w].superseded = @ \ {d}]
    BY <1>4 DEF Unlink
  <2>2. /\ \A v \in Writers : /\ writer'[v].stage = writer[v].stage
                              /\ writer'[v].range = writer[v].range
                              /\ writer'[v].superseded \subseteq writer[v].superseded
    BY <2>1, <1>t DEF TypeOK
  <2>3. StrictlyInside'
    BY <2>2 DEF IInv
  <2>4. ASSUME ~deleted', NEW v \in Writers, writer'[v].stage = "placed"
        PROVE \E g \in files' : writer'[v].range \subseteq g
    <3>1. ~deleted /\ writer[w].stage = "placed" /\ writer[v].stage = "placed"
      BY <1>4, <2>2, <2>4 DEF Unlink
    <3>2. PICK f \in files : writer[v].range \subseteq f
      BY <3>1 DEF IInv
    <3>3. \E g \in files \ {d} : f \subseteq g
      BY <3>1, UnlinkIsVouchedFor
    <3> QED
      BY <2>1, <2>2, <3>2, <3>3
  <2> QED
    BY <2>3, <2>4
<1>5. ASSUME NEW w \in Writers, CollectWrite(w)
      PROVE StrictlyInside' /\ PlacedIsContained'
  <2>1. /\ writer'[w].stage # "placed" /\ writer'[w].superseded = {}
        /\ \A v \in Writers \ {w} : writer'[v] = writer[v]
    BY <1>5, <1>t DEF CollectWrite, TypeOK, Idle
  <2> QED
    BY <1>5, <2>1 DEF IInv, CollectWrite
<1>6. CASE Crash
  <2>1. \A w \in Writers : writer'[w] = Idle
    BY <1>6 DEF Crash
  <2> QED
    BY <2>1 DEF Idle
<1>7. CASE DeleteSeries
  BY <1>7 DEF DeleteSeries, IInv
<1>8. CASE UNCHANGED vars
  BY <1>8 DEF vars, IInv
<1>9. ASSUME NEW w \in Writers,
             (\E r \in Ranges : RefuseWrite(w, r)) \/ FinishWrite(w) \/ FailWrite(w)
      PROVE StrictlyInside' /\ PlacedIsContained'
  BY <1>2, <1>9 DEF RefuseWrite, FinishWrite, FailWrite
<1> QED
  BY <1>1, <1>3, <1>4, <1>5, <1>6, <1>7, <1>8, <1>9 DEF Next

\* No step but a deletion takes a stored slot away: what an unlink takes, a file that is left contains.
LEMMA CoveredStays ==
  ASSUME IInv, [Next]_vars, ~deleted'
  PROVE  Covered \subseteq Covered'
<1>1. ASSUME NEW w \in Writers, Unlink(w) PROVE Covered \subseteq Covered'
  <2>1. PICK d \in writer[w].superseded : files' = files \ {d}
    BY <1>1 DEF Unlink
  <2>2. ~deleted /\ writer[w].stage = "placed"
    BY <1>1 DEF Unlink
  <2>3. \A f \in files : \E g \in files' : f \subseteq g
    BY <2>1, <2>2, UnlinkIsVouchedFor
  <2> QED BY <2>3 DEF Covered
<1>2. \/ \E w \in Writers : Unlink(w)
      \/ files \subseteq files'
  BY DEF Next, vars, BeginWrite, RefuseWrite, PlaceFile, FinishWrite, FailWrite,
         CollectWrite, Crash, DeleteSeries
<1>3. files \subseteq files' => Covered \subseteq Covered'
  BY DEF Covered
<1> QED BY <1>1, <1>2, <1>3

-----------------------------------------------------------------------------
\* Everything a write or a failure leaves behind is well formed (Store::write).
THEOREM TypeCorrect == Spec => []TypeOK
<1>1. IInv => TypeOK
  BY DEF IInv
<1> QED
  BY IInvInit, IInvStep, <1>1, PTL DEF Spec

(***************************************************************************)
(* For any ranges and any number of concurrent calls of Store::write: no   *)
(* slot that is stored is lost by a write, by a failed write or by a       *)
(* crash, until the series is deleted.                                     *)
(***************************************************************************)
THEOREM WritesKeepCoverage == Spec => CoverageKept
<1>1. IInv /\ [Next]_vars => [~deleted' => Covered \subseteq Covered']_vars
  BY CoveredStays
<1> QED
  BY IInvInit, IInvStep, <1>1, PTL DEF Spec, CoverageKept
=============================================================================
