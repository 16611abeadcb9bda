------------------------------ MODULE Retention ------------------------------
(***************************************************************************)
(* The retention batch: observations older than the cutoff are copied to   *)
(* the archive table, the copies are verified, and the originals deleted,  *)
(* all in one transaction, while clients go on changing observations and   *)
(* other retention runs may be under way.                                  *)
(*                                                                         *)
(* The statements of a run are separate steps, because PostgreSQL runs     *)
(* them at READ COMMITTED: each sees what the others have committed by     *)
(* then.  What a run has inserted or deleted is in its own record until it *)
(* commits.  A row is the version of its content and whether its timestamp *)
(* is before the cutoff.                                                   *)
(***************************************************************************)
EXTENDS Naturals, FiniteSets

CONSTANTS
  Runs,        \* processes that run the batch
  MaxId,       \* bound: primary keys of observations
  MaxVersion,  \* bound: changes of one observation
  BatchSize    \* settings.retention_batch_size

Ids == 1..MaxId
NoRun == "no run"
Idle == [pc |-> "idle", batch |-> [i \in {} |-> 0], archived |-> {}, raced |-> {}]

VARIABLES
  hot,       \* id -> row, of the observations table
  archive,   \* id -> version, of the archive table
  run,       \* what each run is doing
  redis,     \* whether the runs have a client of Redis (labs/retention/run.py has none)
  lock,      \* the run whose key is in Redis
  created,   \* history: ids handed out
  removed,   \* history: ids that a client deleted
  last,      \* history: latest version of each observation
  stale      \* history: ids whose archived run overlapped a change

vars == <<hot, archive, run, redis, lock, created, removed, last, stale>>
history == <<created, removed, last, stale>>

Hot == DOMAIN hot
Archived == DOMAIN archive
Batch(r) == DOMAIN run[r].batch

\* The ids that a run has inserted or deleted without having committed.
Inserting(r) == IF run[r].pc \in {"flushed", "deleted"} THEN Batch(r) \ run[r].archived ELSE {}
Deleting(r) == IF run[r].pc = "deleted" THEN Batch(r) ELSE {}

At(r, pc) == run[r].pc = pc
Goto(r, pc) == run' = [run EXCEPT ![r].pc = pc]

\* The context manager of the lock deletes the key whoever set it.
Leave(r) ==
  /\ run' = [run EXCEPT ![r] = Idle]
  /\ lock' = IF redis THEN NoRun ELSE lock

-----------------------------------------------------------------------------
\* Without a client of Redis the lock is granted to everyone; a run that does
\* not get it reports lock_held and ends.
Start(r) ==
  /\ At(r, "idle")
  /\ ~redis \/ lock = NoRun
  /\ Goto(r, "begun")
  /\ lock' = IF redis THEN r ELSE lock
  /\ UNCHANGED <<hot, archive, redis, history>>

Eligible == {i \in Hot : hot[i].old}
Oldest(ids) == {i \in ids : Cardinality({j \in ids : j < i}) < BatchSize}

\* The rows are read without a lock; a dry run ends here.
Select(r, apply) ==
  /\ At(r, "begun")
  /\ LET batch == Oldest(Eligible)
     IN \/ /\ apply /\ batch # {}
           /\ run' = [run EXCEPT ![r].pc = "selected",
                                 ![r].batch = [i \in batch |-> hot[i].v]]
           /\ UNCHANGED lock
        \/ ~(apply /\ batch # {}) /\ Leave(r)
  /\ UNCHANGED <<hot, archive, redis, history>>

SelectArchived(r) ==
  /\ At(r, "selected")
  /\ run' = [run EXCEPT ![r].pc = "checked", ![r].archived = Batch(r) \cap Archived]
  /\ UNCHANGED <<hot, archive, redis, lock, history>>

\* INSERT waits for another run that has inserted one of the keys and fails
\* when that one has committed.
Flush(r) ==
  LET new == Batch(r) \ run[r].archived
  IN /\ At(r, "checked")
     /\ \A q \in Runs \ {r} : Inserting(q) \cap new = {}
     /\ \/ new \cap Archived = {} /\ Goto(r, "flushed") /\ UNCHANGED lock
        \/ new \cap Archived # {} /\ Leave(r)
     /\ UNCHANGED <<hot, archive, redis, history>>

\* The second read of the archive sees the run's own rows.
Verified(r) == Batch(r) \subseteq Archived \cup Inserting(r)

\* The rows that DELETE finds still older than the cutoff.
Matched(r) == {i \in Batch(r) \cap Hot : hot[i].old}

\* Mutant: the number of deleted rows is not compared with the batch.
CountMatches_Unchecked(r) == TRUE

CountMatches(r) == Cardinality(Matched(r)) = Cardinality(Batch(r))

\* DELETE waits for rows that another run is deleting; RetentionVerificationError
\* rolls everything back.
Delete(r) ==
  /\ At(r, "flushed")
  /\ \A q \in Runs \ {r} : Deleting(q) \cap Batch(r) = {}
  /\ \/ Verified(r) /\ CountMatches(r) /\ Goto(r, "deleted") /\ UNCHANGED lock
     \/ ~(Verified(r) /\ CountMatches(r)) /\ Leave(r)
  /\ UNCHANGED <<hot, archive, redis, history>>

Commit(r) ==
  /\ At(r, "deleted")
  /\ archive' = [i \in Archived \cup Batch(r) |->
                   IF i \in Archived THEN archive[i] ELSE run[r].batch[i]]
  /\ hot' = [i \in Hot \ Matched(r) |-> hot[i]]
  /\ stale' = stale \cup run[r].raced
  /\ Leave(r)
  /\ UNCHANGED <<redis, created, removed, last>>

\* The process dies: its transaction is rolled back, its key stays in Redis
\* until it expires.
Crash(r) ==
  /\ ~At(r, "idle")
  /\ run' = [run EXCEPT ![r] = Idle]
  /\ UNCHANGED <<hot, archive, redis, lock, history>>

LockExpires ==
  /\ lock # NoRun
  /\ lock' = NoRun
  /\ UNCHANGED <<hot, archive, run, redis, history>>

-----------------------------------------------------------------------------
(* The clients of the observations table.                                   *)

\* A row that a run is deleting is locked until that run ends.
Unlocked(i) == \A r \in Runs : i \notin Deleting(r)

Create(old) ==
  LET i == Cardinality(created) + 1
  IN /\ i \in Ids
     /\ hot' = [j \in Hot \cup {i} |-> IF j = i THEN [v |-> 0, old |-> old] ELSE hot[j]]
     /\ created' = created \cup {i}
     /\ UNCHANGED <<archive, run, redis, lock, removed, last, stale>>

\* update_observation may also move the timestamp past the cutoff.
Update(i, old) ==
  /\ i \in Hot /\ Unlocked(i) /\ hot[i].v < MaxVersion
  /\ hot' = [hot EXCEPT ![i] = [v |-> @.v + 1, old |-> old]]
  /\ last' = [last EXCEPT ![i] = @ + 1]
  /\ run' = [r \in Runs |-> [run[r] EXCEPT !.raced = IF i \in Batch(r) THEN @ \cup {i} ELSE @]]
  /\ UNCHANGED <<archive, redis, lock, created, removed, stale>>

Remove(i) ==
  /\ i \in Hot /\ Unlocked(i)
  /\ hot' = [j \in Hot \ {i} |-> hot[j]]
  /\ removed' = removed \cup {i}
  /\ UNCHANGED <<archive, run, redis, lock, created, last, stale>>

\* The cutoff of a later run; a run keeps the one that it began with.
Ages(i) ==
  /\ i \in Hot /\ ~hot[i].old /\ \A r \in Runs : i \notin Batch(r)
  /\ hot' = [hot EXCEPT ![i].old = TRUE]
  /\ UNCHANGED <<archive, run, redis, lock, history>>

-----------------------------------------------------------------------------
Init ==
  /\ hot = [i \in {} |-> 0] /\ archive = [i \in {} |-> 0]
  /\ run = [r \in Runs |-> Idle]
  /\ redis \in BOOLEAN /\ lock = NoRun
  /\ created = {} /\ removed = {} /\ last = [i \in Ids |-> 0] /\ stale = {}

RunStep(r) ==
  \/ Start(r) \/ SelectArchived(r) \/ Flush(r) \/ Delete(r) \/ Commit(r) \/ Crash(r)
  \/ \E apply \in BOOLEAN : Select(r, apply)

ClientStep ==
  \/ \E old \in BOOLEAN : Create(old)
  \/ \E i \in Ids, old \in BOOLEAN : Update(i, old)
  \/ \E i \in Ids : Remove(i) \/ Ages(i)

Next == (\E r \in Runs : RunStep(r)) \/ ClientStep \/ LockExpires

Spec == Init /\ [][Next]_vars

-----------------------------------------------------------------------------
TypeOK ==
  /\ Hot \subseteq created /\ Archived \subseteq created
  /\ \A r \in Runs : Batch(r) \subseteq created /\ Cardinality(Batch(r)) <= BatchSize
  /\ lock \in Runs \cup {NoRun}

\* Whatever runs overlap and whatever clients change meanwhile, an observation
\* is in the observations table, in the archive or deleted by a client, and in
\* only one of these; what the archive keeps is its latest content, unless it
\* was changed between the SELECT and the DELETE of the run that archived it
\* (archive_old_observations: verify before delete, compare the count).
RowsHaveOneHome ==
  /\ \A i \in created : Cardinality({h \in {"hot", "archive", "removed"} :
                                       \/ h = "hot" /\ i \in Hot
                                       \/ h = "archive" /\ i \in Archived
                                       \/ h = "removed" /\ i \in removed}) = 1
  /\ \A i \in Archived : archive[i] # last[i] => i \in stale
=============================================================================
