----------------------------- MODULE BackupProps -----------------------------
(***************************************************************************)
(* What the backup of one slot by several devices promises.                *)
(***************************************************************************)
EXTENDS BackupDevices

Intact(e) == e.gen \in DOMAIN blobs /\ blobs[e.gen] = e.stamp

\* Whatever the index names can be restored: its file is there and holds the
\* bytes of that upload, at every point where another request, a crash or a
\* failing write can get in.  (A wipe removes index and files in any order, so
\* a wipe under way or cut short is excepted.)  backup.go: Put, Delete.
IndexedIsRestorable ==
  job.op # "wipe" /\ ~torn => \A i \in DOMAIN index : Intact(index[i])

\* A backup that was acknowledged is the newest one or has a newer one above
\* it, and the newest can be restored: neither pruning nor a crash loses it.
AckedSurvives ==
  acked # NoEntry /\ ~torn =>
    /\ index # << >> /\ Intact(Last(index))
    /\ acked.gen <= Last(index).gen
    /\ acked.gen = Last(index).gen => acked = Last(index)

\* When an upload with a base is stored, the newest generation is the very one
\* its device saw last, and not another one that has its number.  A wipe since
\* then starts the numbers again and is excepted.  backup.go: "That single
\* check is what keeps a second browser from silently overwriting a newer
\* backup."
BaseIsWhatWasSeen ==
  job.op = "index" /\ serving.base.gen # 0 /\ serving.base.epoch = epoch =>
    Latest.stamp = serving.base.stamp

\* The index only ever drops oldest generations and appends one with a number
\* above all that are or were there since the last wipe.
GenerationsGrow ==
  [][index' # index /\ job.op # "wipe" =>
       /\ \A i \in DOMAIN index : index[i].gen < Last(index').gen
       /\ acked.gen < Last(index').gen
       /\ Front(index') = SubSeq(index, Len(index) + 2 - Len(index'), Len(index))
    ]_vars

\* A tick that the user did not start as "Overwrite" never stores over another
\* device's backup while the conflict is shown.  client.ts: "The UI offers this
\* as an explicit choice, never as the automatic response."
ConflictWaitsForUser ==
  job.op = "index" /\ serving.cause = "timer" /\
  await[serving.dev] = serving.stamp => ~conflict[serving.dev]

\* The files of pruned generations that the Put which pruned them did not, and
\* will not, remove.
Leftover ==
  {g \in DOMAIN blobs : /\ g <= Latest.gen
                        /\ \A i \in DOMAIN index : index[i].gen # g
                        /\ \A k \in DOMAIN job.drop : job.drop[k] # g}

\* The store at rest: files that no index names are at most those of one pruning
\* for every fault, and one above the index has the number that is written next.
FewUnnamed ==
  LET unnamed == DOMAIN blobs \ {index[i].gen : i \in DOMAIN index}
  IN /\ Cardinality(unnamed) <= MaxGenerations * faults
     /\ \A g \in unnamed : g > Latest.gen => g = NextGen

\* Files that the index does not name come from faults alone: an upload, however
\* many generations it prunes, leaves none behind.  One above the index is written
\* over by the next upload.  The others, of pruned generations, stay as they are
\* for ever: no later write, only a wipe of the slot, removes or reuses them.
\* (backup.go:285-287 promises the opposite of the file that a crash leaves
\* between index and removal: one "that a later write reclaims".)
GarbageIsFromFaults ==
  [][ /\ job'.op = "free" /\ ~torn' => FewUnnamed'
      /\ job.op # "wipe" => \A g \in Leftover : g \in Leftover' /\ blobs'[g] = blobs[g]
    ]_vars

\* While backup is on and its key is there, the device's settings are backed
\* up sooner or later, whatever other devices, conflicts, failures and crashes
\* there were on the way.
ChangesAreBackedUp ==
  \A d \in Devices :
    [](enabled[d] /\ keyed[d] => <>(hash[d] = local[d] \/ ~(enabled[d] /\ keyed[d])))

=============================================================================
