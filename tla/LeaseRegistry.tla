----------------------------- MODULE LeaseRegistry -----------------------------
(***************************************************************************)
(* What a SubscriptionPool promises its callers, with no shards, counters, *)
(* timers or command queue: an instrument is live exactly while somebody   *)
(* has a claim on it that was granted and not yet given back.              *)
(*                                                                         *)
(* A claim is one call of SubscriptionPool::lease followed through its     *)
(* whole life: the future the caller awaits, the Lease it may get, and the *)
(* release that dropping the Lease sends.                                  *)
(***************************************************************************)
CONSTANTS Instruments,   \* what can be leased
          Claims,        \* the lease calls that can be outstanding at once
          Abortable,     \* the claims whose calling task may be aborted mid-call
          NoInstrument   \* what an idle claim asks for

VARIABLES claim,  \* claim[c]: how far the life of claim c has got
          want,   \* want[c]: the instrument c asks for
          live    \* the instruments the venue is asked to stream

vars == <<claim, want, live>>

(***************************************************************************)
(*   idle      no call outstanding (or the last one is over)               *)
(*   waiting   the caller awaits the answer                                *)
(*   aborted   the caller's future was dropped before the answer           *)
(*   answered  granted; the answer sits in the oneshot, not yet read       *)
(*   held      the caller owns a Lease                                     *)
(*   dropped   the Lease was dropped, its release not yet applied          *)
(*   orphaned  granted, and nobody owns a Lease that could give it back    *)
(***************************************************************************)
Stages == {"idle", "waiting", "aborted", "answered", "held", "dropped", "orphaned"}

\* The stages in which a claim keeps its instrument live.
Granted == {"answered", "held", "dropped", "orphaned"}

Init ==
  /\ claim = [c \in Claims |-> "idle"]
  /\ want = [c \in Claims |-> NoInstrument]
  /\ live = {}

Finish(c) ==
  /\ claim' = [claim EXCEPT ![c] = "idle"]
  /\ want' = [want EXCEPT ![c] = NoInstrument]

Request(c, i) ==
  /\ claim[c] = "idle"
  /\ claim' = [claim EXCEPT ![c] = "waiting"]
  /\ want' = [want EXCEPT ![c] = i]
  /\ UNCHANGED live

Abort(c) ==
  /\ c \in Abortable
  /\ \/ /\ claim[c] = "waiting"
        /\ claim' = [claim EXCEPT ![c] = "aborted"]
     \/ /\ claim[c] = "answered"
        /\ claim' = [claim EXCEPT ![c] = "orphaned"]
  /\ UNCHANGED <<want, live>>

Grant(c) ==
  /\ \/ /\ claim[c] = "waiting"
        /\ claim' = [claim EXCEPT ![c] = "answered"]
     \/ /\ claim[c] = "aborted"
        /\ claim' = [claim EXCEPT ![c] = "orphaned"]
  /\ live' = live \cup {want[c]}
  /\ UNCHANGED want

Refuse(c) ==
  /\ claim[c] \in {"waiting", "aborted"}
  /\ want[c] \notin live
  /\ Finish(c)
  /\ UNCHANGED live

Take(c) ==
  /\ claim[c] = "answered"
  /\ claim' = [claim EXCEPT ![c] = "held"]
  /\ UNCHANGED <<want, live>>

Drop(c) ==
  /\ claim[c] = "held"
  /\ claim' = [claim EXCEPT ![c] = "dropped"]
  /\ UNCHANGED <<want, live>>

\* The last claim on an instrument takes it off the venue; no other does.
Release(c) ==
  /\ claim[c] = "dropped"
  /\ Finish(c)
  /\ live' = IF \E d \in Claims \ {c} : want[d] = want[c] /\ claim[d] \in Granted
               THEN live
               ELSE live \ {want[c]}

Next ==
  \E c \in Claims :
     \/ \E i \in Instruments : Request(c, i)
     \/ Abort(c)
     \/ Grant(c)
     \/ Refuse(c)
     \/ Take(c)
     \/ Drop(c)
     \/ Release(c)

Spec == Init /\ [][Next]_vars
=============================================================================
