----------------------------- MODULE BackupStore -----------------------------
(***************************************************************************)
(* One slot of the backup store (pkg/backup/backup.go): the index          *)
(* meta.json, the generation files beside it, and the critical section     *)
(* under Store.mu that the server is in.  Put and Delete are several file  *)
(* operations, so a crash or a failing write can fall between any two.     *)
(*                                                                         *)
(* A backup is the stamp of the upload that made it and its size; an index *)
(* with no generation stands for a missing meta.json, which is the same to *)
(* every reader.                                                           *)
(***************************************************************************)
EXTENDS Naturals, Sequences, SequencesExt, FiniteSets

CONSTANTS MaxGenerations,   \* generations a slot keeps
          MaxSlotBytes,     \* bytes a slot keeps
          Size(_)           \* the size of an upload, by its stamp

ASSUME BackupAssumption ==
  /\ MaxGenerations \in Nat \ {0}
  /\ MaxSlotBytes \in Nat
  /\ \A n \in 1 .. MaxGenerations : Size(n) \in Nat

VARIABLES
  index,   \* Seq([gen, stamp, size]), the generations in meta.json
  blobs,   \* generation files: a function from a set of numbers to stamps
  job,     \* the critical section the server is in
  epoch,   \* how often the slot was wiped
  torn,    \* a wipe was cut short
  acked    \* the generation the store last returned to a caller

storeVars == <<index, blobs, job, epoch, torn, acked>>

NoEntry == [gen |-> 0, stamp |-> 0, size |-> 0]
Free == [op |-> "free", entry |-> NoEntry, drop |-> << >>]

StoreTypeOK ==
  LET Entry == [gen : Nat, stamp : Nat, size : Nat] IN
  /\ index \in Seq(Entry)
  /\ DOMAIN blobs \subseteq Nat \ {0}
  /\ \A g \in DOMAIN blobs : blobs[g] \in Nat \ {0}
  /\ job.op \in {"free", "index", "prune", "wipe"}
  /\ job.entry \in Entry
  /\ job.drop \in Seq(Nat)
  /\ epoch \in Nat
  /\ torn \in BOOLEAN
  /\ acked \in Entry

StoreInit ==
  /\ index = << >>
  /\ blobs = << >>
  /\ job = Free
  /\ epoch = 0
  /\ torn = FALSE
  /\ acked = NoEntry

-----------------------------------------------------------------------------
Latest == IF index = << >> THEN NoEntry ELSE Last(index)

Bytes(gens) == FoldSeq(LAMBDA e, n : n + e.size, 0, gens)

Without(f, g) == [x \in DOMAIN f \ {g} |-> f[x]]
With(f, g, v) == [x \in DOMAIN f \cup {g} |-> IF x = g THEN v ELSE f[x]]

\* prune: how many of the oldest generations go.
Pruned(gens) ==
  LET Fits(n) == /\ Len(gens) - n <= MaxGenerations
                 /\ \/ Bytes(SubSeq(gens, n + 1, Len(gens))) <= MaxSlotBytes
                    \/ Len(gens) - n <= 1
  IN CHOOSE n \in 0 .. Len(gens) : Fits(n) /\ \A k \in 0 .. n - 1 : ~Fits(k)

\* Mutant: one generation too many loses its file.
DroppedAndOne(gens, n) == [i \in 1 .. n + 1 |-> gens[i].gen]

\* Mutant: only the oldest of the pruned generations loses its file.
DroppedFirst(gens, n) == [i \in 1 .. (IF n = 0 THEN 0 ELSE 1) |-> gens[i].gen]

\* The generations whose files go.
Dropped(gens, n) == [i \in 1 .. n |-> gens[i].gen]

\* Mutant: the newest generation is written again.
SameGen == Latest.gen

\* Mutant: numbers count the generations that are kept.
CountedGen == Len(index) + 1

\* The number of the next generation.
NextGen == Latest.gen + 1

\* Mutant: only a base from the future is refused.
StaleIfAhead(base) == base > Latest.gen

\* The base check: the slot moved on since the caller looked.
Stale(base) == base # Latest.gen

-----------------------------------------------------------------------------
\* Put, up to the generation's file: lock, number, write and rename.
PutBlob(stamp) ==
  /\ job.op = "free"
  /\ blobs' = With(blobs, NextGen, stamp)
  /\ job' = [op |-> "index", drop |-> << >>,
             entry |-> [gen |-> NextGen, stamp |-> stamp,
                        size |-> Size(stamp)]]
  /\ UNCHANGED <<index, epoch, torn, acked>>

\* Put: the index with the new generation and without the pruned ones.
PutIndex ==
  /\ job.op = "index"
  /\ LET gens == Append(index, job.entry)
         n == Pruned(gens)
     IN /\ index' = SubSeq(gens, n + 1, Len(gens))
        /\ job' = [job EXCEPT !.op = "prune", !.drop = Dropped(gens, n)]
  /\ UNCHANGED <<blobs, epoch, torn, acked>>

\* Put: remove the file of a generation that the index no longer names.
Unlink ==
  /\ job.op = "prune"
  /\ job.drop # << >>
  /\ blobs' = Without(blobs, Head(job.drop))
  /\ job' = [job EXCEPT !.drop = Tail(@)]
  /\ UNCHANGED <<index, epoch, torn, acked>>

\* ... which may fail, with a warning only.
UnlinkFails ==
  /\ job.op = "prune"
  /\ job.drop # << >>
  /\ job' = [job EXCEPT !.drop = Tail(@)]
  /\ UNCHANGED <<index, blobs, epoch, torn, acked>>

\* Put returns the new index to its caller and unlocks.
PutReturns ==
  /\ job.op = "prune"
  /\ job.drop = << >>
  /\ acked' = job.entry
  /\ job' = Free
  /\ UNCHANGED <<index, blobs, epoch, torn>>

\* Delete: os.RemoveAll removes the slot's files in no particular order.
WipeBegins ==
  /\ job.op = "free"
  /\ job' = [Free EXCEPT !.op = "wipe"]
  /\ epoch' = epoch + 1
  /\ acked' = NoEntry
  /\ UNCHANGED <<index, blobs, torn>>

WipeFile ==
  /\ job.op = "wipe"
  /\ \/ index # << >> /\ index' = << >> /\ UNCHANGED blobs
     \/ \E g \in DOMAIN blobs : blobs' = Without(blobs, g) /\ UNCHANGED index
  /\ UNCHANGED <<job, epoch, torn, acked>>

WipeReturns ==
  /\ job.op = "wipe"
  /\ index = << >>
  /\ DOMAIN blobs = {}
  /\ job' = Free
  /\ UNCHANGED <<index, blobs, epoch, torn, acked>>

\* A file operation fails and the handler returns its error, or the server
\* dies: what was written stays written.
Abandon ==
  /\ job.op # "free"
  /\ torn' = (torn \/ job.op = "wipe")
  /\ job' = Free
  /\ UNCHANGED <<index, blobs, epoch, acked>>

=============================================================================
