------------------------------ MODULE SeriesStore ------------------------------
(***************************************************************************)
(* The bar files of one series on disk (crates/store).  A file's name is   *)
(* the time range it was fetched for, so the directory listing is the only *)
(* record of what is stored: a range is the set of the bar slots inside    *)
(* it, and the series is the set of ranges that name a file.               *)
(*                                                                         *)
(* Store::write takes no lock: it lists, decides, writes the new file and  *)
(* then unlinks what the new file replaces, and other writers of the same  *)
(* series may do the same in between.                                      *)
(***************************************************************************)
EXTENDS FiniteSets

CONSTANTS Ranges,   \* the ranges a write may declare, each a set of slots
          Writers   \* the calls of Store::write that can be running at once

VARIABLES files,   \* the ranges that name a file of this series
          writer,  \* writer[w]: how far the write of w has got
          deleted  \* history: the series was deleted since this process started

vars == <<files, writer, deleted>>

(***************************************************************************)
(*   idle     no write under way                                           *)
(*   listed   the listing has been read and accepted                       *)
(*   placed   the new file is in place, the replaced ones are being        *)
(*            unlinked                                                     *)
(*   written  write returned Ok                                            *)
(*   failed   write returned Err                                           *)
(***************************************************************************)
Idle == [stage |-> "idle", range |-> {}, superseded |-> {}]
Done(stage) == [Idle EXCEPT !.stage = stage]

Stages == {"idle", "listed", "placed", "written", "failed"}

TypeOK ==
  /\ files \subseteq Ranges
  /\ writer \in [Writers -> [stage : Stages,
                             range : Ranges \cup {{}},
                             superseded : SUBSET Ranges]]
  /\ deleted \in BOOLEAN

\* What the store says it holds: Store::coverage.
Covered == UNION files

Init ==
  /\ files = {}
  /\ writer = [w \in Writers |-> Idle]
  /\ deleted = FALSE

-----------------------------------------------------------------------------
\* Mutant: a file of the very range written counts as replaced by it.
SupersededToo(r) == {f \in files : f \cap r # {} /\ f \subseteq r}

(***************************************************************************)
(* The three fates of an existing file under a write of range r.  A file   *)
(* named exactly r is the file about to be written, and is in none of the  *)
(* last two sets.                                                          *)
(***************************************************************************)
Conflicts(r) == {f \in files \ {r} : f \cap r # {} /\ ~(f \subseteq r)}
Superseded(r) == {f \in files \ {r} : f \cap r # {} /\ f \subseteq r}

\* The directory is read; a partial overlap with any file in it is refused.
BeginWrite(w, r) ==
  /\ writer[w].stage = "idle"
  /\ Conflicts(r) = {}
  /\ writer' = [writer EXCEPT ![w] =
       [stage |-> "listed", range |-> r, superseded |-> Superseded(r)]]
  /\ UNCHANGED <<files, deleted>>

RefuseWrite(w, r) ==
  /\ writer[w].stage = "idle"
  /\ Conflicts(r) # {}
  /\ writer' = [writer EXCEPT ![w] = Done("failed")]
  /\ UNCHANGED <<files, deleted>>

\* The temporary file is renamed onto its final name.
PlaceFile(w) ==
  /\ writer[w].stage = "listed"
  /\ files' = files \cup {writer[w].range}
  /\ writer' = [writer EXCEPT ![w].stage = "placed"]
  /\ UNCHANGED deleted

Unlink(w) ==
  /\ writer[w].stage = "placed"
  /\ \E f \in writer[w].superseded :
       /\ files' = files \ {f}
       /\ writer' = [writer EXCEPT ![w].superseded = @ \ {f}]
  /\ UNCHANGED deleted

FinishWrite(w) ==
  /\ writer[w].stage = "placed"
  /\ writer[w].superseded = {}
  /\ writer' = [writer EXCEPT ![w] = Done("written")]
  /\ UNCHANGED <<files, deleted>>

(***************************************************************************)
(* An I/O error ends the write where it is: before the rename nothing has  *)
(* changed; when flushing the directory or an unlink fails, the new file   *)
(* stays, and so does every replaced file not yet unlinked.                *)
(***************************************************************************)
FailWrite(w) ==
  /\ writer[w].stage \in {"listed", "placed"}
  /\ writer' = [writer EXCEPT ![w] = Done("failed")]
  /\ UNCHANGED <<files, deleted>>

\* The caller has the result of its write.
CollectWrite(w) ==
  /\ writer[w].stage \in {"written", "failed"}
  /\ writer' = [writer EXCEPT ![w] = Idle]
  /\ UNCHANGED <<files, deleted>>

\* The process dies; the disk keeps what it has.
Crash ==
  /\ writer' = [w \in Writers |-> Idle]
  /\ deleted' = FALSE
  /\ UNCHANGED files

\* An administrator deletes the series (delete_series and its wider forms).
DeleteSeries ==
  /\ files' = {}
  /\ deleted' = TRUE
  /\ UNCHANGED writer

Next ==
  \/ \E w \in Writers :
       \/ \E r \in Ranges : BeginWrite(w, r) \/ RefuseWrite(w, r)
       \/ PlaceFile(w)
       \/ Unlink(w)
       \/ FinishWrite(w)
       \/ FailWrite(w)
       \/ CollectWrite(w)
  \/ Crash
  \/ DeleteSeries

Spec == Init /\ [][Next]_vars

-----------------------------------------------------------------------------
(***************************************************************************)
(* Until the series is deleted, no step takes a stored slot away.  Each    *)
(* unlink is decided from a listing that other writers, failures and       *)
(* crashes have made stale since, and the file that was to replace the     *)
(* unlinked one may itself be gone by then.  A deletion under a running    *)
(* write does break this, until the process ends: the write goes on to     *)
(* unlink files that were placed after the deletion.                       *)
(***************************************************************************)
CoverageKept == [][~deleted' => Covered \subseteq Covered']_vars

=============================================================================
