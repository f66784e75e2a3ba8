----------------------------- MODULE BackupProofs -----------------------------
(***************************************************************************)
(* The backup of one slot, for any limits, sizes, devices and faults: what *)
(* a step of Put, Delete, a crash or a failing file operation leaves of    *)
(* the index and the generation files, and what a device that looked at    *)
(* the slot knows of it afterwards.                                        *)
(***************************************************************************)
EXTENDS BackupProps, SequenceTheorems, FiniteSetTheorems, WellFoundedInduction, TLAPS

\* A size is whatever Size says; no proof here needs it to be a number.
Sizes == {Size(n) : n \in Nat} \cup {0}
Entries == [gen : Nat, stamp : Nat, size : Sizes]
Jobs == [op : {"free", "index", "prune", "wipe"}, entry : Entries, drop : Seq(Nat)]

-----------------------------------------------------------------------------
(* Pruning.                                                                *)

LEMMA SameLength ==
  ASSUME NEW a \in Nat, NEW b \in Nat, 1 .. a = 1 .. b
  PROVE  a = b
<1>1. a <= b
  <2>1. CASE a = 0
    BY <2>1
  <2>2. CASE a # 0
    <3>1. a \in 1 .. b
      BY <2>2
    <3>2. QED
      BY <3>1
  <2>3. QED
    BY <2>1, <2>2
<1>2. b <= a
  <2>1. CASE b = 0
    BY <2>1
  <2>2. CASE b # 0
    <3>1. b \in 1 .. a
      BY <2>2
    <3>2. QED
      BY <3>1
  <2>3. QED
    BY <2>1, <2>2
<1>3. QED
  BY <1>1, <1>2

LEMMA LeastNumber ==
  ASSUME NEW T, T \subseteq Nat, T # {}
  PROVE  \E n \in T : \A k \in T : n <= k
<1> DEFINE R == {ss \in Nat \X Nat : ss[1] < ss[2]}
<1>0. IsWellFoundedOn(R, Nat)
  BY NatLessThanWellFounded DEF OpToRel
<1>1. \E n \in T : \A k \in T : <<k, n>> \notin R
  BY <1>0, WFMin
<1>2. \A k, n \in Nat : k < n => <<k, n>> \in R
  OBVIOUS
<1> HIDE DEF R
<1>3. PICK n \in T : \A k \in T : <<k, n>> \notin R
  BY <1>1
<1>4. ASSUME NEW k \in T PROVE n <= k
  <2>1. k \in Nat /\ n \in Nat
    OBVIOUS
  <2>2. ~(k < n)
    BY <1>2, <1>3, <2>1
  <2>3. QED
    BY <2>1, <2>2
<1>5. QED
  BY <1>4

\* prune drops a proper part, so the newest generation always stays, and no
\* more stay than the limit allows.
LEMMA PruneKeepsNewest ==
  ASSUME NEW gens, Len(gens) \in Nat \ {0}
  PROVE  /\ Pruned(gens) \in 0 .. Len(gens) - 1
         /\ Len(gens) - Pruned(gens) <= MaxGenerations
<1> DEFINE Fits(n) == /\ Len(gens) - n <= MaxGenerations
                      /\ \/ Bytes(SubSeq(gens, n + 1, Len(gens))) <= MaxSlotBytes
                         \/ Len(gens) - n <= 1
           T == {n \in 0 .. Len(gens) : Fits(n)}
<1>1. Fits(Len(gens) - 1)
  BY BackupAssumption
<1>2. Pruned(gens) = CHOOSE n \in 0 .. Len(gens) : Fits(n) /\ \A k \in 0 .. n - 1 : ~Fits(k)
  BY DEF Pruned
<1> HIDE DEF Fits
<1>3. T \subseteq Nat /\ Len(gens) - 1 \in T
  BY <1>1
<1>4. PICK n \in T : \A k \in T : n <= k
  <2> HIDE DEF T
  <2>1. QED
    BY <1>3, LeastNumber
<1>5. n \in 0 .. Len(gens) /\ Fits(n) /\ \A k \in 0 .. n - 1 : ~Fits(k)
  BY <1>4
<1>6. /\ Pruned(gens) \in 0 .. Len(gens) /\ Fits(Pruned(gens))
      /\ \A k \in 0 .. Pruned(gens) - 1 : ~Fits(k)
  BY <1>2, <1>5
<1>7. Pruned(gens) \in 0 .. Len(gens) - 1
  BY <1>1, <1>6
<1>8. Len(gens) - Pruned(gens) <= MaxGenerations
  BY <1>6 DEF Fits
<1>9. QED
  BY <1>7, <1>8

\* What Put does to the index with a new entry: the generations with it, how
\* many of them go, and those that stay.
All(entry) == Append(index, entry)
Cut(entry) == Pruned(All(entry))
Kept(entry) == SubSeq(All(entry), Cut(entry) + 1, Len(All(entry)))

\* The generations that stay are in order with the new one last, and the files
\* that go are those of the others.
LEMMA NewIndex ==
  ASSUME index \in Seq(Entries), NEW entry \in Entries
  PROVE  /\ Cut(entry) \in 0 .. Len(index)
         /\ Kept(entry) \in Seq(Entries)
         /\ Len(Kept(entry)) = Len(index) + 1 - Cut(entry)
         /\ \A i \in 1 .. Len(Kept(entry)) : Kept(entry)[i] = All(entry)[Cut(entry) + i]
         /\ Kept(entry) # << >> /\ Last(Kept(entry)) = entry
         /\ Dropped(All(entry), Cut(entry)) \in Seq(Nat)
         /\ Len(Dropped(All(entry), Cut(entry))) = Cut(entry)
         /\ \A k \in 1 .. Cut(entry) : Dropped(All(entry), Cut(entry))[k] = index[k].gen
         /\ \A i \in 1 .. Len(index) : All(entry)[i] = index[i]
         /\ All(entry)[Len(index) + 1] = entry
<1> DEFINE gens == All(entry)
           n == Cut(entry)
           kept == Kept(entry)
<1>0. gens = Append(index, entry) /\ n = Pruned(gens) /\ kept = SubSeq(gens, n + 1, Len(gens))
  BY DEF All, Cut, Kept
<1> HIDE DEF gens, n, kept
<1>1. /\ gens \in Seq(Entries) /\ Len(gens) = Len(index) + 1 /\ Len(index) \in Nat
      /\ \A i \in 1 .. Len(index) : gens[i] = index[i]
      /\ gens[Len(index) + 1] = entry
  BY <1>0, AppendProperties, LenProperties
<1>2. n \in 0 .. Len(index)
  <2>1. Len(gens) \in Nat \ {0}
    BY <1>1
  <2>2. n \in 0 .. Len(gens) - 1
    BY <1>0, <2>1, PruneKeepsNewest
  <2>3. QED
    BY <1>1, <2>2
<1>3. \A i \in n + 1 .. Len(gens) : gens[i] \in Entries
  BY <1>1, <1>2, ElementOfSeq
<1>4. /\ kept \in Seq(Entries) /\ Len(kept) = Len(gens) - n
      /\ \A i \in 1 .. Len(gens) - n : kept[i] = gens[n + i]
  BY <1>0, <1>1, <1>2, <1>3, SubSeqProperties
<1>5. kept # << >> /\ Last(kept) = entry
  BY <1>1, <1>2, <1>4, EmptySeq DEF Last
<1>6. \A k \in 1 .. n : index[k] \in Entries /\ gens[k] = index[k]
  BY <1>1, <1>2, ElementOfSeq
<1>7. Dropped(gens, n) \in Seq(Nat) /\ Len(Dropped(gens, n)) = n
      /\ \A k \in 1 .. n : Dropped(gens, n)[k] = index[k].gen
  <2>1. Dropped(gens, n) = [i \in 1 .. n |-> gens[i].gen]
    BY DEF Dropped
  <2>2. \A i \in 1 .. n : gens[i].gen \in Nat
    BY <1>6 DEF Entries
  <2>3. n \in Nat
    BY <1>1, <1>2
  <2> DEFINE D == [i \in 1 .. n |-> gens[i].gen]
  <2>4. D \in [1 .. n -> Nat]
    BY <2>2
  <2>5. D \in Seq(Nat)
    <3> HIDE DEF D
    <3>1. [1 .. n -> Nat] \in {[1 .. k -> Nat] : k \in Nat}
      BY <2>3
    <3>2. D \in UNION {[1 .. k -> Nat] : k \in Nat}
      BY <2>4, <3>1, Zenon
    <3>3. Seq(Nat) = UNION {[1 .. k -> Nat] : k \in Nat}
      BY SeqDef, Zenon
    <3>4. QED
      BY <3>2, <3>3, Zenon
  <2>6. Len(D) = n
    <3>1. Len(D) \in Nat /\ DOMAIN D = 1 .. Len(D)
      BY <2>5, LenProperties
    <3>2. DOMAIN D = 1 .. n
      OBVIOUS
    <3> HIDE DEF D
    <3>3. 1 .. Len(D) = 1 .. n
      BY <3>1, <3>2
    <3>4. QED
      BY <2>3, <3>1, <3>3, SameLength
  <2>7. \A k \in 1 .. n : D[k] = index[k].gen
    BY <1>6
  <2>8. QED
    BY <2>1, <2>5, <2>6, <2>7
<1>8. Len(kept) = Len(index) + 1 - n /\ \A i \in 1 .. Len(kept) : kept[i] = gens[n + i]
  <2>1. Len(kept) = Len(index) + 1 - n
    BY <1>1, <1>2, <1>4
  <2>2. 1 .. Len(kept) = 1 .. Len(gens) - n
    BY <1>4
  <2>3. QED
    BY <1>4, <2>1, <2>2
<1>9. QED
  BY <1>1, <1>2, <1>4, <1>5, <1>7, <1>8 DEF gens, n, kept

-----------------------------------------------------------------------------
(* The types.                                                              *)

StoreTypes ==
  /\ index \in Seq(Entries)
  /\ DOMAIN blobs \subseteq Nat \ {0}
  /\ \A g \in DOMAIN blobs : blobs[g] \in Nat \ {0}
  /\ job \in Jobs
  /\ epoch \in Nat
  /\ torn \in BOOLEAN
  /\ acked \in Entries

LEMMA NothingIsAnEntry == NoEntry \in Entries /\ Free \in Jobs
<1>1. NoEntry \in Entries
  BY DEF NoEntry, Entries, Sizes
<1>2. << >> \in Seq(Nat)
  BY EmptySeq
<1>3. QED
  BY <1>1, <1>2 DEF Free, Jobs

LEMMA LatestIsAnEntry ==
  ASSUME StoreTypes
  PROVE  Latest \in Entries /\ NextGen \in Nat \ {0}
<1>1. CASE index = << >>
  BY <1>1, NothingIsAnEntry DEF Latest, NextGen, Entries
<1>2. CASE index # << >>
  <2>1. Len(index) \in 1 .. Len(index)
    BY <1>2, EmptySeq DEF StoreTypes
  <2>2. Last(index) \in Entries
    BY <2>1, ElementOfSeq DEF Last, StoreTypes
  <2>3. QED
    BY <1>2, <2>2 DEF Latest, NextGen, Entries
<1>3. QED
  BY <1>1, <1>2

\* What a step does to the store: one of its actions, or nothing.
StoreStep ==
  \/ \E stamp \in Nat \ {0} : PutBlob(stamp)
  \/ PutIndex \/ Unlink \/ UnlinkFails \/ PutReturns
  \/ WipeBegins \/ WipeFile \/ WipeReturns \/ Abandon

LEMMA StepOfStore ==
  ASSUME DeviceTypeOK, [Next]_vars
  PROVE  StoreStep \/ UNCHANGED storeVars
<1>1. ASSUME NEW r \in net PROVE r.stamp \in Nat \ {0}
  BY <1>1 DEF DeviceTypeOK, Uploads
<1>2. ASSUME NEW d \in Devices, UserStep(d) \/ DeviceStep(d) PROVE UNCHANGED storeVars
  BY <1>2 DEF UserStep, DeviceStep, Edit, Enable, Disable, Restore, ResolveOverwrite, List,
              Tick, TickAnswered, ListAnswered
<1>3. ASSUME NEW d \in Devices, ServerStep(d) PROVE StoreStep \/ UNCHANGED storeVars
  BY <1>1, <1>3 DEF ServerStep, UploadStep, PutRefused, ConflictReply, PutAccepted, ListServed,
                    WipeServed, StoreStep
<1>4. CASE JobStep
  BY <1>4 DEF JobStep, PutGoesOn, PutAnswered, WipeGoesOn, WipeAnswered, StoreStep
<1>5. CASE FaultStep
  BY <1>5 DEF FaultStep, PutUnlinkFails, JobFails, Crash, Disconnect, ListFails, Reload,
              BlobFails, StoreStep
<1>6. CASE UNCHANGED vars
  BY <1>6 DEF vars
<1>7. QED
  BY <1>2, <1>3, <1>4, <1>5, <1>6 DEF Next

LEMMA StoreTypesPreserved ==
  ASSUME StoreTypes, StoreStep \/ UNCHANGED storeVars
  PROVE  StoreTypes'
<1> USE NothingIsAnEntry
<1>1. ASSUME NEW stamp \in Nat \ {0}, PutBlob(stamp) PROVE StoreTypes'
  <2>1. NextGen \in Nat \ {0} /\ << >> \in Seq(Nat) /\ Size(stamp) \in Sizes
    BY LatestIsAnEntry, EmptySeq DEF Sizes
  <2>2. job' \in Jobs
    BY <1>1, <2>1 DEF PutBlob, Jobs, Entries
  <2>3. /\ DOMAIN blobs' \subseteq Nat \ {0}
        /\ \A g \in DOMAIN blobs' : blobs'[g] \in Nat \ {0}
    BY <1>1, <2>1 DEF PutBlob, With, StoreTypes
  <2>4. QED
    BY <1>1, <2>2, <2>3 DEF PutBlob, StoreTypes
<1>2. CASE PutIndex
  <2> DEFINE e == job.entry
  <2>1. e \in Entries
    BY DEF StoreTypes, Jobs
  <2>2. Kept(e) \in Seq(Entries) /\ Dropped(All(e), Cut(e)) \in Seq(Nat)
    BY <2>1, NewIndex DEF StoreTypes
  <2>3. /\ index' = Kept(e)
        /\ job' = [job EXCEPT !.op = "prune", !.drop = Dropped(All(e), Cut(e))]
    BY <1>2 DEF PutIndex, Kept, All, Cut
  <2>4. job' \in Jobs
    BY <2>2, <2>3 DEF StoreTypes, Jobs
  <2>5. QED
    BY <1>2, <2>2, <2>3, <2>4 DEF PutIndex, StoreTypes
<1>3. CASE Unlink \/ UnlinkFails
  <2>1. Tail(job.drop) \in Seq(Nat)
    BY <1>3, HeadTailProperties DEF Unlink, UnlinkFails, StoreTypes, Jobs
  <2>2. job' \in Jobs
    BY <1>3, <2>1 DEF Unlink, UnlinkFails, StoreTypes, Jobs
  <2>3. QED
    BY <1>3, <2>2 DEF Unlink, UnlinkFails, Without, StoreTypes
<1>4. CASE PutReturns
  BY <1>4 DEF PutReturns, StoreTypes, Jobs
<1>5. CASE WipeBegins
  <2>1. [Free EXCEPT !.op = "wipe"] \in Jobs
    BY DEF Jobs, Free
  <2>2. QED
    BY <1>5, <2>1 DEF WipeBegins, StoreTypes
<1>6. CASE WipeFile
  <2>1. << >> \in Seq(Entries)
    BY EmptySeq
  <2>2. QED
    BY <1>6, <2>1 DEF WipeFile, Without, StoreTypes
<1>7. CASE WipeReturns
  BY <1>7 DEF WipeReturns, StoreTypes
<1>8. CASE Abandon
  BY <1>8 DEF Abandon, StoreTypes
<1>9. CASE UNCHANGED storeVars
  BY <1>9 DEF storeVars, StoreTypes
<1>10. QED
  BY <1>1, <1>2, <1>3, <1>4, <1>5, <1>6, <1>7, <1>8, <1>9 DEF StoreStep

-----------------------------------------------------------------------------
(* The inductive invariant of the store.                                   *)

Increasing(gens) ==
  \A i, j \in 1 .. Len(gens) : i < j => gens[i].gen < gens[j].gen

\* What the operation in the critical section has done so far.
JobSound ==
  /\ job.op = "index" => job.entry.gen = NextGen /\ Intact(job.entry)
  /\ job.op = "prune" =>
       /\ index # << >> /\ Last(index) = job.entry
       /\ \A k \in 1 .. Len(job.drop), i \in 1 .. Len(index) : job.drop[k] < index[i].gen

\* An acknowledged generation is never above the index.
AckedBelow ==
  acked # NoEntry =>
    /\ job.op # "wipe"
    /\ index # << >>
    /\ acked.gen <= Last(index).gen
    /\ acked.gen = Last(index).gen => acked = Last(index)

Restorable == job.op # "wipe" /\ ~torn => \A i \in 1 .. Len(index) : Intact(index[i])

StoreInv == Increasing(index) /\ JobSound /\ AckedBelow /\ Restorable

\* The newest generation has the highest number.
LEMMA LatestIsTop ==
  ASSUME StoreTypes, Increasing(index)
  PROVE  /\ \A i \in 1 .. Len(index) : index[i].gen \in Nat /\ index[i].gen < NextGen
         /\ index # << >> => Last(index).gen \in Nat /\ Last(index).gen < NextGen
<1>1. Len(index) \in Nat
  BY LenProperties DEF StoreTypes
<1>2. ASSUME NEW i \in 1 .. Len(index) PROVE index[i].gen \in Nat
  <2>1. index[i] \in Entries
    BY ElementOfSeq DEF StoreTypes
  <2>2. QED
    BY <2>1 DEF Entries
<1>3. CASE index = << >>
  <2>1. Len(index) = 0
    BY <1>3, EmptySeq
  <2>2. QED
    BY <1>3, <2>1
<1>4. CASE index # << >>
  <2>1. Len(index) \in 1 .. Len(index)
    BY <1>4, EmptySeq DEF StoreTypes
  <2>2. NextGen = index[Len(index)].gen + 1 /\ Last(index) = index[Len(index)]
    BY <1>4 DEF NextGen, Latest, Last
  <2>3. ASSUME NEW i \in 1 .. Len(index) PROVE index[i].gen <= index[Len(index)].gen
    <3>1. CASE i = Len(index)
      BY <1>2, <2>1, <3>1
    <3>2. CASE i < Len(index)
      BY <1>2, <2>1, <3>2 DEF Increasing
    <3>3. QED
      BY <1>1, <3>1, <3>2
  <2>4. QED
    BY <1>2, <2>1, <2>2, <2>3
<1>5. QED
  BY <1>3, <1>4

\* Writing the generation file touches none that the index names.
LEMMA PutBlobKeeps ==
  ASSUME StoreTypes, StoreInv, NEW stamp \in Nat \ {0}, PutBlob(stamp)
  PROVE  StoreInv'
<1>1. /\ index' = index /\ acked' = acked /\ torn' = torn
      /\ job.op = "free" /\ job'.op = "index"
      /\ job'.entry.gen = NextGen /\ job'.entry.stamp = stamp
      /\ NextGen' = NextGen
      /\ blobs' = With(blobs, NextGen, stamp)
  BY DEF PutBlob, NextGen, Latest
<1>2. ASSUME NEW i \in 1 .. Len(index), Intact(index[i]) PROVE Intact(index[i])'
  <2>1. index[i].gen # NextGen
    BY LatestIsTop DEF StoreInv
  <2>2. QED
    BY <1>1, <1>2, <2>1 DEF Intact, With
<1>3. Restorable'
  BY <1>1, <1>2 DEF Restorable, StoreInv
<1>4. Intact(job.entry)'
  BY <1>1 DEF Intact, With
<1>5. JobSound'
  BY <1>1, <1>4 DEF JobSound
<1>6. AckedBelow' /\ Increasing(index)'
  BY <1>1 DEF AckedBelow, Increasing, StoreInv
<1>7. QED
  BY <1>3, <1>5, <1>6 DEF StoreInv

\* The new index: what it keeps, and that its numbers go on upwards.
LEMMA PutIndexGrows ==
  ASSUME StoreTypes, StoreInv, PutIndex
  PROVE  /\ job.entry \in Entries /\ index' = Kept(job.entry)
         /\ index' # << >> /\ Last(index') = job.entry
         /\ Increasing(index')
         /\ \A k \in 1 .. Cut(job.entry), i \in 1 .. Len(index') : index[k].gen < index'[i].gen
         /\ \A i \in 1 .. Len(index') :
              \/ index'[i] = job.entry
              \/ \E k \in 1 .. Len(index) : index'[i] = index[k]
<1> DEFINE e == job.entry
           gens == All(e)
           n == Cut(e)
<1>1. e \in Entries /\ index' = Kept(e) /\ e.gen = NextGen
  BY DEF PutIndex, StoreTypes, Jobs, Kept, All, Cut, StoreInv, JobSound
<1>2. /\ n \in 0 .. Len(index) /\ Len(index) \in Nat
      /\ Len(index') = Len(index) + 1 - n
      /\ \A i \in 1 .. Len(index') : index'[i] = gens[n + i]
      /\ \A i \in 1 .. Len(index) : gens[i] = index[i]
      /\ gens[Len(index) + 1] = e
      /\ index' # << >> /\ Last(index') = e
  BY <1>1, NewIndex, LenProperties DEF StoreTypes
<1> HIDE DEF e, gens, n
<1>3. ASSUME NEW k \in 1 .. Len(index) + 1, NEW l \in 1 .. Len(index) + 1, k < l
      PROVE  gens[k].gen < gens[l].gen
  <2>1. k \in 1 .. Len(index) /\ gens[k] = index[k]
    BY <1>2, <1>3
  <2>2. CASE l = Len(index) + 1
    BY <1>1, <1>2, <2>1, <2>2, LatestIsTop DEF StoreInv
  <2>3. CASE l \in 1 .. Len(index)
    BY <1>2, <1>3, <2>1, <2>3 DEF StoreInv, Increasing
  <2>4. QED
    BY <1>2, <2>2, <2>3
<1>4. Increasing(index')
  BY <1>2, <1>3 DEF Increasing
<1>5. ASSUME NEW k \in 1 .. n, NEW i \in 1 .. Len(index')
      PROVE  index[k].gen < index'[i].gen
  <2>1. k \in 1 .. Len(index) /\ n + i \in 1 .. Len(index) + 1 /\ k < n + i
    BY <1>2, <1>5
  <2>2. gens[k].gen < gens[n + i].gen
    BY <1>3, <2>1
  <2>3. QED
    BY <1>2, <2>1, <2>2
<1>6. ASSUME NEW i \in 1 .. Len(index')
      PROVE  index'[i] = e \/ \E k \in 1 .. Len(index) : index'[i] = index[k]
  <2>0. n \in Nat /\ i \in Nat \ {0} /\ n + i <= Len(index) + 1 /\ Len(index) \in Nat
    BY <1>2, <1>6
  <2>1. CASE n + i = Len(index) + 1
    BY <1>2, <2>1
  <2>2. CASE n + i # Len(index) + 1
    <3>1. n + i \in 1 .. Len(index)
      BY <2>0, <2>2
    <3>2. QED
      BY <1>2, <3>1
  <2>3. QED
    BY <2>1, <2>2
<1>7. QED
  BY <1>1, <1>2, <1>4, <1>5, <1>6 DEF e, n

LEMMA PutIndexKeeps ==
  ASSUME StoreTypes, StoreInv, PutIndex
  PROVE  StoreInv'
<1>1. /\ job.op = "index" /\ job'.op = "prune" /\ job'.entry = job.entry
      /\ job'.drop = Dropped(All(job.entry), Cut(job.entry))
      /\ blobs' = blobs /\ torn' = torn /\ acked' = acked
  BY DEF PutIndex, StoreTypes, Jobs, All, Cut
<1>2. /\ Len(job'.drop) = Cut(job.entry)
      /\ \A k \in 1 .. Cut(job.entry) : job'.drop[k] = index[k].gen
  <2>1. job.entry \in Entries
    BY DEF StoreTypes, Jobs
  <2> DEFINE drop == Dropped(All(job.entry), Cut(job.entry))
  <2>2. Len(drop) = Cut(job.entry) /\ \A k \in 1 .. Cut(job.entry) : drop[k] = index[k].gen
    BY <2>1, NewIndex DEF StoreTypes
  <2> HIDE DEF drop
  <2>3. job'.drop = drop
    BY <1>1 DEF drop
  <2>4. QED
    BY <2>2, <2>3
<1>3. JobSound'
  BY <1>1, <1>2, PutIndexGrows DEF JobSound
<1>4. Restorable'
  BY <1>1, PutIndexGrows DEF Restorable, StoreInv, JobSound, Intact
<1>5. AckedBelow'
  <2>1. job.entry.gen = NextGen /\ job.entry.gen \in Nat
    BY <1>1, PutIndexGrows DEF StoreInv, JobSound, Entries
  <2>2. CASE acked # NoEntry
    <3>1. acked.gen <= Last(index).gen /\ index # << >> /\ acked.gen \in Nat
      BY <2>2 DEF StoreInv, AckedBelow, StoreTypes, Entries
    <3>2. acked.gen < job.entry.gen
      BY <2>1, <3>1, LatestIsTop DEF StoreInv
    <3>3. QED
      BY <1>1, <2>1, <3>1, <3>2, PutIndexGrows DEF AckedBelow
  <2>3. QED
    BY <1>1, <2>2 DEF AckedBelow
<1>6. QED
  BY <1>3, <1>4, <1>5, PutIndexGrows DEF StoreInv

\* The file that is unlinked belongs to no generation of the index.
LEMMA UnlinkKeeps ==
  ASSUME StoreTypes, StoreInv, Unlink \/ UnlinkFails
  PROVE  StoreInv'
<1>1. /\ index' = index /\ torn' = torn /\ acked' = acked
      /\ job.op = "prune" /\ job'.op = "prune" /\ job'.entry = job.entry
      /\ job.drop \in Seq(Nat) /\ job.drop # << >> /\ job'.drop = Tail(job.drop)
      /\ blobs' = blobs \/ blobs' = Without(blobs, Head(job.drop))
  BY DEF Unlink, UnlinkFails, StoreTypes, Jobs
<1>2. /\ Len(job.drop) \in Nat \ {0} /\ Head(job.drop) = job.drop[1]
      /\ Len(job'.drop) = Len(job.drop) - 1
      /\ \A k \in 1 .. Len(job'.drop) : job'.drop[k] = job.drop[k + 1]
  BY <1>1, EmptySeq, HeadTailProperties
<1>3. /\ \A k \in 1 .. Len(job.drop), i \in 1 .. Len(index) : job.drop[k] < index[i].gen
      /\ Last(index) = job.entry /\ index # << >>
  BY <1>1 DEF StoreInv, JobSound
<1>4. \A k \in 1 .. Len(job'.drop), i \in 1 .. Len(index) : job'.drop[k] < index[i].gen
  BY <1>2, <1>3
<1>5. JobSound'
  BY <1>1, <1>3, <1>4 DEF JobSound
<1>6. ASSUME NEW i \in 1 .. Len(index), Intact(index[i]) PROVE Intact(index[i])'
  <2>1. 1 \in 1 .. Len(job.drop)
    BY <1>2
  <2>2. job.drop[1] < index[i].gen /\ job.drop[1] \in Nat
    BY <1>1, <1>3, <2>1, ElementOfSeq
  <2>3. index[i].gen # Head(job.drop)
    BY <1>2, <2>2
  <2>4. QED
    BY <1>1, <1>6, <2>3 DEF Intact, Without
<1>7. Restorable'
  BY <1>1, <1>6 DEF StoreInv, Restorable
<1>8. QED
  BY <1>1, <1>5, <1>7 DEF StoreInv, AckedBelow, Increasing

LEMMA StoreInvPreserved ==
  ASSUME StoreTypes, StoreInv, StoreStep \/ UNCHANGED storeVars
  PROVE  StoreInv'
<1>1. CASE PutReturns
  <2>1. /\ index' = index /\ blobs' = blobs /\ torn' = torn /\ acked' = job.entry
        /\ job.op = "prune" /\ job'.op = "free" /\ job.entry.gen \in Nat
    BY <1>1 DEF PutReturns, Free, StoreTypes, Jobs, Entries
  <2>2. index # << >> /\ Last(index) = job.entry
    BY <2>1 DEF StoreInv, JobSound
  <2>3. AckedBelow'
    BY <2>1, <2>2 DEF AckedBelow
  <2>4. Restorable' /\ JobSound'
    BY <2>1 DEF StoreInv, Restorable, Intact, JobSound
  <2>5. QED
    BY <2>1, <2>3, <2>4 DEF StoreInv, Increasing
<1>2. CASE WipeBegins
  BY <1>2 DEF WipeBegins, Free, StoreInv, JobSound, AckedBelow, Restorable, Increasing
<1>3. CASE WipeFile
  <2>1. Len(<< >>) = 0
    BY EmptySeq
  <2>2. QED
    BY <1>3, <2>1 DEF WipeFile, StoreInv, JobSound, AckedBelow, Restorable, Increasing
<1>4. CASE WipeReturns
  <2>1. Len(<< >>) = 0
    BY EmptySeq
  <2>2. QED
    BY <1>4, <2>1 DEF WipeReturns, Free, StoreInv, JobSound, AckedBelow, Restorable, Increasing
<1>5. CASE Abandon
  BY <1>5 DEF Abandon, Free, StoreTypes, StoreInv, JobSound, AckedBelow, Restorable, Intact,
              Increasing
<1>6. CASE UNCHANGED storeVars
  BY <1>6 DEF storeVars, StoreInv, JobSound, AckedBelow, Restorable, Intact, Increasing, NextGen,
              Latest
<1>7. QED
  BY <1>1, <1>2, <1>3, <1>4, <1>5, <1>6, PutBlobKeeps, PutIndexKeeps, UnlinkKeeps DEF StoreStep

-----------------------------------------------------------------------------
(* The types of the devices, the network and the handlers.                 *)

Replies == [kind : {"none", "ok", "conflict", "error"}, sight : Sight, ver : Nat]
Listings == [why : {"none", "show", "rekey"}, sight : Sight,
             at : {"none", "asked", "got", "failed"}]

LEMMA SightsAreTyped ==
  ASSUME StoreTypes
  PROVE  /\ Never \in Sight /\ NoReply \in Replies /\ NoList \in Listings
         /\ \A e \in Entries : Seeing(e) \in Sight
         /\ [NoReply EXCEPT !.kind = "error"] \in Replies
<1>1. Never \in Sight
  BY DEF Never, Sight
<1>2. NoReply \in Replies /\ NoList \in Listings
  BY <1>1 DEF NoReply, NoList, Replies, Listings
<1>3. \A e \in Entries : Seeing(e) \in Sight
  BY DEF Seeing, Entries, Sight, StoreTypes
<1>4. QED
  BY <1>1, <1>2, <1>3 DEF Replies

LEMMA AnswerIsTyped ==
  ASSUME StoreTypes, DeviceTypeOK, NEW r \in Uploads, NEW kind \in {"ok", "conflict", "error"},
         NEW sight \in Sight, Answer(r, kind, sight)
  PROVE  reply' \in [Devices -> Replies]
<1>1. [kind |-> kind, sight |-> sight, ver |-> r.ver] \in Replies
  BY DEF Replies, Uploads
<1>2. reply \in [Devices -> Replies]
  BY DEF DeviceTypeOK, Replies
<1>3. QED
  BY <1>1, <1>2 DEF Answer

LEMMA UploadIsTyped ==
  ASSUME DeviceTypeOK, NEW d \in Devices, NEW b \in Sight,
         NEW cause \in {"timer", "overwrite"}, Upload(d, b, cause)
  PROVE  /\ running' \in [Devices -> BOOLEAN] /\ await' \in [Devices -> Nat]
         /\ stamps' \in Nat /\ net' \subseteq Uploads' /\ net \subseteq net'
<1>1. stamps' = stamps + 1 /\ stamps \in Nat /\ stamps' \in Nat
  BY DEF Upload, DeviceTypeOK
<1>2. running' \in [Devices -> BOOLEAN] /\ await' \in [Devices -> Nat]
  BY <1>1 DEF Upload, DeviceTypeOK
<1>3. \A r \in Uploads : r \in Uploads'
  BY <1>1 DEF Uploads
<1> DEFINE u == [dev |-> d, stamp |-> stamps + 1, base |-> b, ver |-> local[d],
                 cause |-> cause, refused |-> FALSE]
<1>4. u \in Uploads'
  BY <1>1 DEF Uploads, DeviceTypeOK
<1>5. net' = net \cup {u}
  BY DEF Upload
<1> HIDE DEF u
<1>6. net' \subseteq Uploads' /\ net \subseteq net'
  BY <1>3, <1>4, <1>5 DEF DeviceTypeOK
<1>7. QED
  BY <1>1, <1>2, <1>6

\* What the user does, and the device's own steps.
LEMMA DeviceStepsAreTyped ==
  ASSUME StoreTypes, DeviceTypeOK, NEW d \in Devices, UserStep(d) \/ DeviceStep(d)
  PROVE  DeviceTypeOK'
<1> USE SightsAreTyped
<1>1. CASE Edit(d)
  BY <1>1 DEF Edit, Move, DeviceTypeOK, tickVars, replyVars, netVars, storeVars, Uploads
<1>2. CASE Enable(d)
  BY <1>2 DEF Enable, Move, DeviceTypeOK, replyVars, netVars, storeVars, Uploads
<1>3. CASE Restore(d)
  BY <1>3 DEF Restore, Move, DeviceTypeOK, replyVars, netVars, storeVars, Uploads
<1>4. ASSUME NEW w \in BOOLEAN, Disable(d, w) PROVE DeviceTypeOK'
  BY <1>4 DEF Disable, Move, DeviceTypeOK, netVars, storeVars, Uploads
<1>5. CASE ResolveOverwrite(d)
  <2>0. base' \in [Devices -> Sight] /\ hash' \in [Devices -> Nat] /\ moves' \in Nat
    BY <1>5 DEF ResolveOverwrite, Move, DeviceTypeOK
  <2>1. CASE MayTick(d)
    <3>1. Upload(d, Never, "overwrite")
      BY <1>5, <2>1 DEF ResolveOverwrite
    <3>2. /\ running' \in [Devices -> BOOLEAN] /\ await' \in [Devices -> Nat]
          /\ stamps' \in Nat /\ net' \subseteq Uploads' /\ net \subseteq net'
      BY <3>1, UploadIsTyped
    <3>3. QED
      BY <1>5, <2>0, <3>2 DEF ResolveOverwrite, Move, DeviceTypeOK, deviceVars, replyVars, storeVars
  <2>2. CASE ~MayTick(d)
    BY <1>5, <2>0, <2>2 DEF ResolveOverwrite, Move, DeviceTypeOK, deviceVars, replyVars, storeVars,
                      Uploads
  <2>3. QED
    BY <2>1, <2>2
<1>6. ASSUME NEW why \in {"show", "rekey"}, List(d, why) PROVE DeviceTypeOK'
  <2>1. [NoList EXCEPT !.why = why, !.at = "asked"] \in Listings
    BY DEF Listings
  <2>2. listing' \in [Devices -> Listings]
    BY <1>6, <2>1 DEF List, DeviceTypeOK, Listings
  <2>3. QED
    BY <1>6, <2>2 DEF List, Move, DeviceTypeOK, deviceVars, tickVars, netVars, storeVars, Uploads,
                            Listings
<1>7. CASE Tick(d)
  <2>1. base[d] \in Sight
    BY DEF DeviceTypeOK
  <2>2. /\ running' \in [Devices -> BOOLEAN] /\ await' \in [Devices -> Nat]
        /\ stamps' \in Nat /\ net' \subseteq Uploads' /\ net \subseteq net'
    BY <1>7, <2>1, UploadIsTyped DEF Tick
  <2>3. QED
    BY <1>7, <2>2 DEF Tick, DeviceTypeOK, deviceVars, replyVars, storeVars, budget
<1>8. CASE TickAnswered(d)
  <2>1. reply[d].sight \in Sight /\ reply[d].ver \in Nat
    BY DEF DeviceTypeOK
  <2>2. reply' \in [Devices -> Replies] /\ running' \in [Devices -> BOOLEAN]
        /\ await' \in [Devices -> Nat]
    BY <1>8 DEF TickAnswered, DeviceTypeOK, Replies, RunningAfter
  <2>3. /\ base' \in [Devices -> Sight] /\ hash' \in [Devices -> Nat]
    BY <1>8, <2>1 DEF TickAnswered, DeviceTypeOK
  <2>4. conflict' \in [Devices -> BOOLEAN]
    BY <1>8 DEF TickAnswered, DeviceTypeOK
  <2>5. QED
    BY <1>8, <2>2, <2>3, <2>4 DEF TickAnswered, DeviceTypeOK, deviceVars, netVars, storeVars,
                                  budget, Uploads, Replies
<1>9. CASE ListAnswered(d)
  <2>1. base' \in [Devices -> Sight] /\ listing' \in [Devices -> Listings]
    BY <1>9 DEF ListAnswered, DeviceTypeOK, Listings
  <2>2. keyed' \in [Devices -> BOOLEAN] /\ hash' \in [Devices -> Nat]
    <3>1. keyed' = keyed \/ keyed' = [keyed EXCEPT ![d] = TRUE]
      BY <1>9 DEF ListAnswered
    <3>2. hash' = hash \/ hash' = [hash EXCEPT ![d] = 0]
      BY <1>9 DEF ListAnswered
    <3>3. keyed \in [Devices -> BOOLEAN] /\ hash \in [Devices -> Nat]
      BY DEF DeviceTypeOK
    <3>4. keyed' \in [Devices -> BOOLEAN]
      BY <3>1, <3>3
    <3>5. hash' \in [Devices -> Nat]
      BY <3>2, <3>3
    <3>6. QED
      BY <3>4, <3>5
  <2>3. QED
    BY <1>9, <2>1, <2>2 DEF ListAnswered, DeviceTypeOK, netVars, storeVars, budget, Uploads,
                            Listings
<1>10. QED
  BY <1>1, <1>2, <1>3, <1>4, <1>5, <1>6, <1>7, <1>8, <1>9 DEF UserStep, DeviceStep

\* The handlers.
LEMMA ServerStepsAreTyped ==
  ASSUME StoreTypes, DeviceTypeOK, NEW d \in Devices, ServerStep(d)
  PROVE  DeviceTypeOK'
<1>0. Seeing(Latest) \in Sight
  BY LatestIsAnEntry, SightsAreTyped
<1>1. ASSUME NEW r \in net, PutRefused(r) PROVE DeviceTypeOK'
  <2>1. [r EXCEPT !.refused = TRUE] \in Uploads
    BY DEF DeviceTypeOK, Uploads
  <2>2. net' \subseteq Uploads /\ serving = NoUpload
    BY <1>1, <2>1 DEF PutRefused, DeviceTypeOK
  <2>3. QED
    BY <1>1, <2>2 DEF PutRefused, DeviceTypeOK, deviceVars, tickVars, replyVars, storeVars,
                      budget, Uploads
<1>2. ASSUME NEW r \in net, ConflictReply(r) PROVE DeviceTypeOK'
  <2>1. r \in Uploads /\ serving = NoUpload
    BY <1>2 DEF ConflictReply, DeviceTypeOK
  <2>2. reply' \in [Devices -> Replies]
    BY <1>0, <1>2, <2>1, AnswerIsTyped DEF ConflictReply
  <2>3. QED
    BY <1>2, <2>1, <2>2 DEF ConflictReply, DeviceTypeOK, deviceVars, tickVars, storeVars, budget,
                            Uploads, Replies
<1>3. ASSUME NEW r \in net, PutAccepted(r) PROVE DeviceTypeOK'
  <2>1. r # NoUpload /\ job'.op = "index"
    BY <1>3 DEF PutAccepted, PutBlob, DeviceTypeOK, Uploads, NoUpload
  <2>2. QED
    BY <1>3, <2>1 DEF PutAccepted, DeviceTypeOK, deviceVars, tickVars, replyVars, budget, Uploads
<1>4. CASE ListServed(d)
  <2> DEFINE got == [listing[d] EXCEPT !.sight = Seeing(Latest), !.at = "got"]
  <2>0. listing \in [Devices -> Listings]
    BY DEF DeviceTypeOK, Listings
  <2>a. got \in Listings
    BY <1>0, <2>0 DEF Listings
  <2>b. listing' = [listing EXCEPT ![d] = got]
    BY <1>4 DEF ListServed
  <2> HIDE DEF got
  <2>1. listing' \in [Devices -> Listings]
    BY <2>0, <2>a, <2>b
  <2>2. QED
    BY <1>4, <2>1 DEF ListServed, DeviceTypeOK, deviceVars, tickVars, netVars, storeVars, budget,
                      Uploads, Listings
<1>5. CASE WipeServed(d)
  <2>1. job.op = "free" /\ job'.op = "wipe"
    BY <1>5 DEF WipeServed, WipeBegins, Free
  <2>2. QED
    BY <1>5, <2>1 DEF WipeServed, DeviceTypeOK, deviceVars, tickVars, netVars, budget, Uploads
<1>6. QED
  BY <1>1, <1>2, <1>3, <1>4, <1>5 DEF ServerStep, UploadStep

LEMMA UnservedIsTyped ==
  DeviceTypeOK => Unserved \in [Devices -> {"no", "sent", "served"}]
  BY DEF DeviceTypeOK, Unserved

LEMMA JobStepsAreTyped ==
  ASSUME StoreTypes, DeviceTypeOK, JobStep
  PROVE  DeviceTypeOK'
<1>1. CASE PutGoesOn
  <2>1. job.op \in {"index", "prune"} /\ job'.op \in {"index", "prune"}
    BY <1>1 DEF PutGoesOn, PutIndex, Unlink, StoreTypes, Jobs
  <2>2. QED
    BY <1>1, <2>1 DEF PutGoesOn, DeviceTypeOK, deviceVars, tickVars, replyVars, netVars, budget,
                      Uploads
<1>2. CASE PutAnswered
  <2>1. job.op = "prune" /\ job'.op = "free" /\ job.entry \in Entries
    BY <1>2 DEF PutAnswered, PutReturns, Free, StoreTypes, Jobs
  <2>2. serving \in Uploads
    BY <2>1 DEF DeviceTypeOK
  <2>3. Seeing(job.entry) \in Sight
    BY <2>1, SightsAreTyped
  <2>4. reply' \in [Devices -> Replies]
    BY <1>2, <2>2, <2>3, AnswerIsTyped DEF PutAnswered
  <2>5. QED
    BY <1>2, <2>1, <2>4 DEF PutAnswered, DeviceTypeOK, deviceVars, tickVars, budget, Uploads,
                            Replies
<1>3. CASE WipeGoesOn
  BY <1>3 DEF WipeGoesOn, WipeFile, DeviceTypeOK, deviceVars, tickVars, replyVars, netVars,
              budget, Uploads
<1>4. CASE WipeAnswered
  <2>1. job.op = "wipe" /\ job'.op = "free"
    BY <1>4 DEF WipeAnswered, WipeReturns, Free
  <2>2. QED
    BY <1>4, <2>1, UnservedIsTyped DEF WipeAnswered, DeviceTypeOK, deviceVars, tickVars, netVars,
                                       budget, Uploads
<1>5. QED
  BY <1>1, <1>2, <1>3, <1>4 DEF JobStep

LEMMA FaultStepsAreTyped ==
  ASSUME StoreTypes, DeviceTypeOK, FaultStep
  PROVE  DeviceTypeOK'
<1> USE SightsAreTyped
<1>1. CASE PutUnlinkFails
  <2>1. job.op = "prune" /\ job'.op = "prune"
    BY <1>1 DEF PutUnlinkFails, UnlinkFails, StoreTypes, Jobs
  <2>2. QED
    BY <1>1, <2>1 DEF PutUnlinkFails, Fault, DeviceTypeOK, deviceVars, tickVars, replyVars,
                      netVars, Uploads
<1>2. CASE JobFails
  <2>1. job'.op = "free"
    BY <1>2 DEF JobFails, Abandon, Free
  <2>2. reply' \in [Devices -> Replies]
    <3>1. CASE serving = NoUpload
      BY <1>2, <3>1 DEF JobFails, DeviceTypeOK, Replies
    <3>2. CASE serving # NoUpload
      <4>1. serving \in Uploads /\ Answer(serving, "error", Never)
        BY <1>2, <3>2 DEF JobFails, DeviceTypeOK
      <4>2. QED
        BY <4>1, AnswerIsTyped
    <3>3. QED
      BY <3>1, <3>2
  <2>3. QED
    BY <1>2, <2>1, <2>2, UnservedIsTyped
    DEF JobFails, Fault, DeviceTypeOK, deviceVars, tickVars, Uploads, Replies
<1>3. CASE Crash
  <2>1. job'.op = "free" \/ (job' = job /\ job.op = "free")
    BY <1>3 DEF Crash, Abandon, Free, storeVars
  <2>2. reply' \in [Devices -> Replies]
    BY <1>3 DEF Crash, DeviceTypeOK, Replies
  <2>3. listing' \in [Devices -> Listings]
    BY <1>3 DEF Crash, DeviceTypeOK, Listings
  <2>4. QED
    BY <1>3, <2>1, <2>2, <2>3 DEF Crash, Fault, DeviceTypeOK, deviceVars, tickVars, Uploads,
                                  Replies, Listings
<1>4. ASSUME NEW d \in Devices, Disconnect(d) PROVE DeviceTypeOK'
  <2>1. reply' \in [Devices -> Replies]
    BY <1>4 DEF Disconnect, DeviceTypeOK, Replies
  <2>2. QED
    BY <1>4, <2>1 DEF Disconnect, Fault, DeviceTypeOK, deviceVars, netVars, storeVars, Uploads,
                      Replies
<1>5. ASSUME NEW d \in Devices, ListFails(d) PROVE DeviceTypeOK'
  <2>1. listing' \in [Devices -> Listings]
    BY <1>5 DEF ListFails, DeviceTypeOK, Listings
  <2>2. QED
    BY <1>5, <2>1 DEF ListFails, Fault, DeviceTypeOK, deviceVars, tickVars, netVars, storeVars,
                      Uploads, Listings
<1>6. ASSUME NEW d \in Devices, Reload(d) PROVE DeviceTypeOK'
  <2>1. reply' \in [Devices -> Replies] /\ listing' \in [Devices -> Listings]
    BY <1>6 DEF Reload, DeviceTypeOK, Replies, Listings
  <2>2. QED
    BY <1>6, <2>1 DEF Reload, Fault, DeviceTypeOK, netVars, storeVars, Uploads, Replies, Listings
<1>7. ASSUME NEW r \in net, BlobFails(r) PROVE DeviceTypeOK'
  <2>1. r \in Uploads /\ serving = NoUpload
    BY <1>7 DEF BlobFails, DeviceTypeOK
  <2>2. reply' \in [Devices -> Replies]
    BY <1>7, <2>1, AnswerIsTyped DEF BlobFails
  <2>3. QED
    BY <1>7, <2>1, <2>2 DEF BlobFails, Fault, DeviceTypeOK, deviceVars, tickVars, storeVars,
                            Uploads, Replies
<1>8. QED
  BY <1>1, <1>2, <1>3, <1>4, <1>5, <1>6, <1>7 DEF FaultStep

-----------------------------------------------------------------------------
(* The invariants of the specification.                                    *)

BackupInv == StoreTypes /\ DeviceTypeOK /\ StoreInv

LEMMA BackupInvInit == Init => BackupInv
<1> SUFFICES ASSUME Init PROVE BackupInv
  OBVIOUS
<1>1. StoreTypes
  <2>1. << >> \in Seq(Entries) /\ DOMAIN << >> = {}
    BY EmptySeq
  <2>2. QED
    BY <2>1, NothingIsAnEntry DEF Init, StoreInit, StoreTypes
<1>2. Len(index) = 0
  BY EmptySeq DEF Init, StoreInit
<1>3. StoreInv
  BY <1>2 DEF Init, StoreInit, StoreInv, Increasing, JobSound, AckedBelow, Restorable, Free
<1>4. Never \in Sight
  BY DEF Never, Sight
<1>5. NoReply \in Replies /\ NoList \in Listings
  BY <1>4 DEF NoReply, NoList, Replies, Listings
<1>6. DeviceTypeOK
  BY <1>4, <1>5 DEF Init, StoreInit, Free, DeviceTypeOK, Replies, Listings
<1>7. QED
  BY <1>1, <1>3, <1>6 DEF BackupInv

LEMMA BackupInvPreserved == BackupInv /\ [Next]_vars => BackupInv'
<1> SUFFICES ASSUME BackupInv, [Next]_vars PROVE BackupInv'
  OBVIOUS
<1>1. StoreStep \/ UNCHANGED storeVars
  BY StepOfStore DEF BackupInv
<1>2. StoreTypes' /\ StoreInv'
  BY <1>1, StoreTypesPreserved, StoreInvPreserved DEF BackupInv
<1>3. DeviceTypeOK'
  <2>1. CASE UNCHANGED vars
    BY <2>1 DEF BackupInv, DeviceTypeOK, vars, storeVars, deviceVars, tickVars, replyVars,
                netVars, budget, Uploads
  <2>2. QED
    BY <2>1, DeviceStepsAreTyped, ServerStepsAreTyped, JobStepsAreTyped, FaultStepsAreTyped
    DEF Next, BackupInv
<1>4. QED
  BY <1>2, <1>3 DEF BackupInv

LEMMA BackupInvHolds == Spec => []BackupInv
  BY BackupInvInit, BackupInvPreserved, PTL DEF Spec

\* Every state has the type that the runs check, if sizes are numbers.
THEOREM BackupTypeCorrect ==
  ASSUME \A n \in Nat : Size(n) \in Nat
  PROVE  Spec => []TypeOK
<1>1. BackupInv => TypeOK
  <2>1. Sizes \subseteq Nat
    BY DEF Sizes
  <2>2. Entries \subseteq [gen : Nat, stamp : Nat, size : Nat]
    BY <2>1 DEF Entries
  <2>3. ASSUME StoreTypes PROVE index \in Seq([gen : Nat, stamp : Nat, size : Nat])
    BY <2>2, <2>3, SeqMonotonic DEF StoreTypes
  <2>4. QED
    BY <2>2, <2>3 DEF BackupInv, StoreTypes, Jobs, TypeOK, StoreTypeOK
<1>2. QED
  BY <1>1, BackupInvHolds, PTL

\* Put and Delete (backup.go) may be cut short by a crash or a failing file
\* operation at any point: whatever meta.json names can still be restored,
\* unless a wipe is under way or was cut short.
THEOREM BackupsAreRestorable == Spec => []IndexedIsRestorable
<1>1. BackupInv => IndexedIsRestorable
  BY LenProperties DEF BackupInv, StoreTypes, StoreInv, Restorable, IndexedIsRestorable
<1>2. QED
  BY <1>1, BackupInvHolds, PTL

\* What Put returned to a caller is not lost: neither prune, nor a later upload
\* that fails or crashes half-way, takes it away without a newer one in its
\* place that can be restored.
THEOREM AcknowledgedBackupsSurvive == Spec => []AckedSurvives
<1>1. BackupInv => AckedSurvives
  <2> SUFFICES ASSUME BackupInv, acked # NoEntry, ~torn
               PROVE  /\ index # << >> /\ Intact(Last(index))
                      /\ acked.gen <= Last(index).gen
                      /\ acked.gen = Last(index).gen => acked = Last(index)
    BY DEF AckedSurvives
  <2>1. index # << >> /\ job.op # "wipe"
    BY DEF BackupInv, StoreInv, AckedBelow
  <2>2. Len(index) \in 1 .. Len(index)
    BY <2>1, EmptySeq DEF BackupInv, StoreTypes
  <2>3. Intact(Last(index))
    BY <2>1, <2>2 DEF BackupInv, StoreInv, Restorable, Last
  <2>4. QED
    BY <2>1, <2>3 DEF BackupInv, StoreInv, AckedBelow
<1>2. QED
  BY <1>1, BackupInvHolds, PTL

\* Generation numbers only go up, and prune drops nothing but the oldest.
THEOREM GenerationsOnlyGrow == Spec => GenerationsGrow
<1> DEFINE Grows ==
      index' # index /\ job.op # "wipe" =>
        /\ \A i \in DOMAIN index : index[i].gen < Last(index').gen
        /\ acked.gen < Last(index').gen
        /\ Front(index') = SubSeq(index, Len(index) + 2 - Len(index'), Len(index))
<1>1. BackupInv /\ [Next]_vars => [Grows]_vars
  <2> SUFFICES ASSUME BackupInv, [Next]_vars, index' # index, job.op # "wipe"
               PROVE  Grows
    OBVIOUS
  <2> DEFINE e == job.entry
             n == Cut(e)
  <2>1. PutIndex
    BY StepOfStore DEF BackupInv, StoreStep, PutBlob, Unlink, UnlinkFails, PutReturns, WipeBegins,
                       WipeFile, WipeReturns, Abandon, storeVars
  <2>2. /\ e \in Entries /\ index' = Kept(e) /\ index' # << >> /\ Last(index') = e
        /\ e.gen = NextGen /\ e.gen \in Nat
    BY <2>1, PutIndexGrows DEF BackupInv, StoreInv, JobSound, PutIndex, Entries
  <2>3. \A i \in DOMAIN index : index[i].gen < Last(index').gen
    BY <2>2, LatestIsTop, LenProperties DEF BackupInv, StoreTypes, StoreInv
  <2>4. acked.gen < Last(index').gen
    <3>1. CASE acked = NoEntry
      BY <2>2, <3>1, LatestIsAnEntry DEF NoEntry, BackupInv
    <3>2. CASE acked # NoEntry
      <4>1. index # << >> /\ acked.gen <= Last(index).gen /\ acked.gen \in Nat
        BY <3>2 DEF BackupInv, StoreInv, AckedBelow, StoreTypes, Entries
      <4>2. Last(index).gen \in Nat /\ Last(index).gen < e.gen
        BY <2>2, <4>1, LatestIsTop DEF BackupInv, StoreInv
      <4>3. QED
        BY <2>2, <4>1, <4>2
    <3>3. QED
      BY <3>1, <3>2
  <2>5. Front(index') = SubSeq(index, Len(index) + 2 - Len(index'), Len(index))
    <3>1. /\ n \in 0 .. Len(index) /\ Len(index) \in Nat
          /\ index' \in Seq(Entries) /\ Len(index') = Len(index) + 1 - n
          /\ \A i \in 1 .. Len(index') : index'[i] = All(e)[n + i]
          /\ \A i \in 1 .. Len(index) : All(e)[i] = index[i]
      <4>1. index \in Seq(Entries) /\ e \in Entries
        BY <2>2 DEF BackupInv, StoreTypes
      <4> HIDE DEF e
      <4>2. QED
        BY <2>2, <4>1, NewIndex, LenProperties
    <3>0. \A i \in 1 .. Len(index) : index[i] \in Entries
      BY ElementOfSeq DEF BackupInv, StoreTypes
    <3> DEFINE front == SubSeq(index', 1, Len(index') - 1)
               tail == SubSeq(index, n + 1, Len(index))
    <3> HIDE DEF e, n
    <3>2. \A i \in 1 .. Len(index') - 1 : index'[i] \in Entries /\ index'[i] = index[n + i]
      <4> TAKE i \in 1 .. Len(index') - 1
      <4>1. i \in 1 .. Len(index') /\ n + i \in 1 .. Len(index)
        BY <3>1
      <4>2. QED
        BY <3>0, <3>1, <4>1
    <3>3. /\ front \in Seq(Entries) /\ Len(front) = Len(index) - n
          /\ \A i \in 1 .. Len(index) - n : front[i] = index'[i]
      BY <3>1, <3>2, SubSeqProperties
    <3>4. \A i \in n + 1 .. Len(index) : index[i] \in Entries
      BY <3>0, <3>1
    <3>5. /\ tail \in Seq(Entries) /\ Len(tail) = Len(index) - n
          /\ \A i \in 1 .. Len(index) - n : tail[i] = index[n + i]
      BY <3>1, <3>4, SubSeqProperties
    <3>6. Front(index') = front /\ Len(index) + 2 - Len(index') = n + 1
      BY <3>1 DEF Front
    <3> HIDE DEF front, tail
    <3>7. front = tail
      <4>1. 1 .. Len(front) = 1 .. Len(index) - n /\ 1 .. Len(index') - 1 = 1 .. Len(index) - n
        BY <3>1, <3>3
      <4>2. \A i \in 1 .. Len(front) : front[i] = tail[i]
        BY <3>2, <3>3, <3>5, <4>1
      <4>3. QED
        BY <3>3, <3>5, <4>2, SeqEqual
    <3>8. QED
      BY <3>6, <3>7 DEF tail
  <2>6. QED
    BY <2>3, <2>4, <2>5
<1>2. QED
  BY <1>1, BackupInvHolds, PTL DEF Spec, GenerationsGrow

-----------------------------------------------------------------------------
(* What the devices know of the slot: the proof that an upload is only     *)
(* stored on top of the very generation that its device saw.               *)

\* A sight of the slot as it was: of an earlier epoch, or of a generation that
\* has a newer one above it or is the newest itself.
Genuine(s) ==
  /\ s.epoch <= epoch
  /\ s.epoch = epoch /\ s.gen # 0 =>
       /\ job.op # "wipe"
       /\ s.gen <= Latest.gen
       /\ s.gen = Latest.gen => s.stamp = Latest.stamp

Sights == {base[d] : d \in Devices} \cup {reply[d].sight : d \in Devices}
          \cup {listing[d].sight : d \in Devices} \cup {r.base : r \in net}

SightInv ==
  /\ \A s \in Sights : Genuine(s)
  /\ job.op = "index" => serving.base.gen \in {0, Latest.gen}

\* A sight stays genuine whatever the store does.
LEMMA GenuineStays ==
  ASSUME StoreTypes, StoreInv, StoreStep \/ UNCHANGED storeVars, NEW s \in Sight, Genuine(s)
  PROVE  Genuine(s)'
<1>0. s.epoch \in Nat /\ s.gen \in Nat /\ epoch \in Nat /\ Latest.gen \in Nat
  BY LatestIsAnEntry DEF Sight, StoreTypes, Entries
<1>1. ASSUME NEW stamp \in Nat \ {0}, PutBlob(stamp) PROVE Genuine(s)'
  BY <1>1 DEF PutBlob, Genuine, Latest
<1>2. CASE PutIndex
  <2>1. /\ index' # << >> /\ Last(index') = job.entry /\ job.entry.gen = NextGen
        /\ epoch' = epoch /\ job'.op = "prune"
    BY <1>2, PutIndexGrows DEF StoreInv, JobSound, PutIndex, StoreTypes, Jobs
  <2>2. Latest'.gen = Latest.gen + 1
    BY <2>1 DEF Latest, NextGen
  <2>3. QED
    BY <1>0, <2>1, <2>2 DEF Genuine
<1>3. CASE Unlink \/ UnlinkFails \/ PutReturns
  BY <1>3 DEF Unlink, UnlinkFails, PutReturns, Genuine, Latest, Free, StoreTypes, Jobs
<1>4. CASE WipeBegins
  BY <1>0, <1>4 DEF WipeBegins, Genuine
<1>5. CASE WipeFile
  BY <1>5 DEF WipeFile, Genuine
<1>6. CASE WipeReturns \/ Abandon
  BY <1>6 DEF WipeReturns, Abandon, Genuine, Latest, Free
<1>7. CASE UNCHANGED storeVars
  BY <1>7 DEF storeVars, Genuine, Latest
<1>8. QED
  BY <1>1, <1>2, <1>3, <1>4, <1>5, <1>6, <1>7 DEF StoreStep

\* Where a sight comes from.
Seen(s) ==
  \/ s \in Sights
  \/ s = Never
  \/ s = Seeing(Latest) /\ job.op = "free" /\ UNCHANGED storeVars
  \/ s = Seeing(job.entry) /\ PutReturns

LEMMA DeviceSights ==
  ASSUME DeviceTypeOK, NEW d \in Devices, UserStep(d) \/ DeviceStep(d)
  PROVE  \A s \in Sights' : Seen(s)
<1>0. /\ \A c \in Devices : /\ base[c] \in Sights /\ reply[c].sight \in Sights
                            /\ listing[c].sight \in Sights
      /\ \A r \in net : r.base \in Sights
  BY DEF Sights
<1>1. \A c \in Devices : base'[c] \in Sights \cup {Never}
  BY <1>0 DEF UserStep, DeviceStep, Edit, Enable, Disable, Restore, ResolveOverwrite, List, Tick,
              TickAnswered, ListAnswered, deviceVars, tickVars, DeviceTypeOK
<1>2. \A c \in Devices : reply'[c].sight \in Sights \cup {Never}
  <2>1. reply' = reply \/ reply' = [reply EXCEPT ![d] = NoReply]
    BY DEF UserStep, DeviceStep, Edit, Enable, Disable, Restore, ResolveOverwrite, List, Tick,
           TickAnswered, ListAnswered, replyVars
  <2>2. reply \in [Devices -> Replies] /\ NoReply.sight = Never
    BY DEF DeviceTypeOK, Replies, NoReply
  <2>3. QED
    BY <1>0, <2>1, <2>2
<1>3. \A c \in Devices : listing'[c].sight \in Sights \cup {Never}
  <2>0. listing \in [Devices -> Listings] /\ NoList.sight = Never
    BY DEF DeviceTypeOK, Listings, NoList
  <2>1. CASE listing' = listing \/ listing' = [listing EXCEPT ![d] = NoList]
    BY <1>0, <2>0, <2>1
  <2>2. ASSUME NEW why, List(d, why)
        PROVE  \A c \in Devices : listing'[c].sight \in Sights \cup {Never}
    <3>1. listing' = [listing EXCEPT ![d] = [NoList EXCEPT !.why = why, !.at = "asked"]]
      BY <2>2 DEF List
    <3>2. [NoList EXCEPT !.why = why, !.at = "asked"].sight = Never
      BY DEF NoList
    <3>3. QED
      BY <1>0, <3>1, <3>2 DEF DeviceTypeOK
  <2>3. \/ listing' = listing \/ listing' = [listing EXCEPT ![d] = NoList]
        \/ \E why : List(d, why)
    BY DEF UserStep, DeviceStep, Edit, Enable, Disable, Restore, ResolveOverwrite, Tick,
           TickAnswered, ListAnswered, replyVars
  <2>4. QED
    BY <2>1, <2>2, <2>3
<1>4. \A r \in net' : r.base \in Sights \cup {Never}
  <2>1. net' = net \/ \E b \in {base[d], Never} : \E cause : Upload(d, b, cause)
    BY DEF UserStep, DeviceStep, Edit, Enable, Disable, Restore, ResolveOverwrite, List, Tick,
           TickAnswered, ListAnswered, netVars
  <2>2. QED
    BY <1>0, <2>1 DEF Upload
<1>5. QED
  BY <1>1, <1>2, <1>3, <1>4 DEF Sights, Seen

LEMMA ServerSights ==
  ASSUME DeviceTypeOK, NEW d \in Devices, ServerStep(d)
  PROVE  \A s \in Sights' : Seen(s)
<1>0. /\ \A c \in Devices : /\ base[c] \in Sights /\ reply[c].sight \in Sights
                            /\ listing[c].sight \in Sights
      /\ \A r \in net : r.base \in Sights
  BY DEF Sights
<1>1. base' = base
  BY DEF ServerStep, UploadStep, PutRefused, ConflictReply, PutAccepted, ListServed, WipeServed,
         tickVars
<1>2. \A c \in Devices : Seen(reply'[c].sight)
  <2>1. CASE reply' = reply
    BY <1>0, <2>1 DEF Seen
  <2>2. ASSUME NEW r \in net, ConflictReply(r)
        PROVE  \A c \in Devices : Seen(reply'[c].sight)
    <3>1. Seen(Seeing(Latest))
      BY <2>2 DEF ConflictReply, Seen
    <3>2. \A c \in Devices : reply'[c].sight \in Sights \cup {Seeing(Latest)}
      BY <1>0, <2>2 DEF ConflictReply, Answer, DeviceTypeOK
    <3>3. QED
      BY <3>1, <3>2 DEF Seen
  <2>3. reply' = reply \/ \E r \in net : ConflictReply(r)
    BY DEF ServerStep, UploadStep, PutRefused, PutAccepted, ListServed, WipeServed, replyVars
  <2>4. QED
    BY <2>1, <2>2, <2>3
<1>3. \A c \in Devices : Seen(listing'[c].sight)
  BY <1>0 DEF ServerStep, UploadStep, PutRefused, ConflictReply, PutAccepted, ListServed,
              WipeServed, replyVars, DeviceTypeOK, Seen
<1>4. \A r \in net' : r.base \in Sights
  <2>1. CASE net' \subseteq net
    BY <1>0, <2>1
  <2>2. ASSUME NEW r \in net, PutRefused(r) PROVE \A q \in net' : q.base \in Sights
    <3>1. [r EXCEPT !.refused = TRUE].base = r.base
      BY DEF DeviceTypeOK, Uploads
    <3>2. net' = (net \ {r}) \cup {[r EXCEPT !.refused = TRUE]}
      BY <2>2 DEF PutRefused
    <3>3. QED
      BY <1>0, <3>1, <3>2
  <2>3. net' \subseteq net \/ \E r \in net : PutRefused(r)
    BY DEF ServerStep, UploadStep, ConflictReply, PutAccepted, ListServed, WipeServed, netVars
  <2>4. QED
    BY <2>1, <2>2, <2>3
<1>5. QED
  BY <1>0, <1>1, <1>2, <1>3, <1>4 DEF Sights, Seen

LEMMA JobSights ==
  ASSUME DeviceTypeOK, JobStep
  PROVE  \A s \in Sights' : Seen(s)
<1>0. /\ \A c \in Devices : /\ base[c] \in Sights /\ reply[c].sight \in Sights
                            /\ listing[c].sight \in Sights
      /\ \A r \in net : r.base \in Sights
  BY DEF Sights
<1>1. base' = base /\ listing' = listing /\ net' \subseteq net
  BY DEF JobStep, PutGoesOn, PutAnswered, WipeGoesOn, WipeAnswered, tickVars, replyVars, netVars
<1>2. \A c \in Devices : Seen(reply'[c].sight)
  BY <1>0 DEF JobStep, PutGoesOn, PutAnswered, WipeGoesOn, WipeAnswered, replyVars, Answer,
              DeviceTypeOK, Seen
<1>3. QED
  BY <1>0, <1>1, <1>2 DEF Sights, Seen

LEMMA FaultSights ==
  ASSUME DeviceTypeOK, FaultStep
  PROVE  \A s \in Sights' : Seen(s)
<1>0. /\ \A c \in Devices : /\ base[c] \in Sights /\ reply[c].sight \in Sights
                            /\ listing[c].sight \in Sights
      /\ \A r \in net : r.base \in Sights
  BY DEF Sights
<1>1. \A c \in Devices : base'[c] \in Sights \cup {Never}
  BY <1>0 DEF FaultStep, PutUnlinkFails, JobFails, Crash, Disconnect, ListFails, Reload,
              BlobFails, tickVars, DeviceTypeOK
<1>2. \A c \in Devices : reply'[c] = reply[c] \/ reply'[c].sight = Never
  <2>1. CASE \E r : Answer(r, "error", Never)
    BY <2>1 DEF Answer, DeviceTypeOK
  <2>2. CASE JobFails
    BY <2>1, <2>2 DEF JobFails
  <2>3. CASE Crash
    BY <2>3 DEF Crash, NoReply
  <2>4. CASE \E d \in Devices : Disconnect(d) \/ Reload(d)
    BY <2>4 DEF Disconnect, Reload, NoReply, DeviceTypeOK
  <2>5. CASE reply' = reply
    BY <2>5
  <2>6. \/ reply' = reply \/ JobFails \/ Crash
        \/ \E d \in Devices : Disconnect(d) \/ Reload(d)
        \/ \E r : Answer(r, "error", Never)
    BY DEF FaultStep, PutUnlinkFails, ListFails, BlobFails, replyVars
  <2>7. QED
    BY <2>1, <2>2, <2>3, <2>4, <2>5, <2>6
<1>3. \A c \in Devices : listing'[c].sight \in {listing[c].sight, Never}
  <2>1. CASE Crash
    BY <2>1 DEF Crash, DeviceTypeOK
  <2>2. CASE \E d \in Devices : ListFails(d) \/ Reload(d)
    BY <2>2 DEF ListFails, Reload, NoList, DeviceTypeOK
  <2>3. CASE listing' = listing
    BY <2>3
  <2>4. listing' = listing \/ Crash \/ \E d \in Devices : ListFails(d) \/ Reload(d)
    BY DEF FaultStep, PutUnlinkFails, JobFails, Disconnect, BlobFails, replyVars
  <2>5. QED
    BY <2>1, <2>2, <2>3, <2>4
<1>4. net' \subseteq net
  BY DEF FaultStep, PutUnlinkFails, JobFails, Crash, Disconnect, ListFails, Reload, BlobFails,
         netVars
<1>5. QED
  BY <1>0, <1>1, <1>2, <1>3, <1>4 DEF Sights, Seen

LEMMA SightsAreSights == DeviceTypeOK => Sights \subseteq Sight
  BY DEF DeviceTypeOK, Sights, Uploads

\* An upload is accepted, or the one being written stays as it is, or none is.
LEMMA ServedStep ==
  ASSUME StoreTypes, [Next]_vars
  PROVE  \/ \E r \in net : PutAccepted(r)
         \/ job'.op # "index"
         \/ job' = job /\ index' = index /\ serving' = serving
<1>1. ASSUME NEW d \in Devices, UserStep(d) \/ DeviceStep(d)
      PROVE  UNCHANGED storeVars /\ serving' = serving
  BY <1>1 DEF UserStep, DeviceStep, Edit, Enable, Disable, Restore, ResolveOverwrite, List, Tick,
              TickAnswered, ListAnswered, netVars
<1>2. ASSUME NEW d \in Devices, ServerStep(d)
      PROVE  \/ \E r \in net : PutAccepted(r)
             \/ job'.op = "wipe"
             \/ (UNCHANGED storeVars /\ serving' = serving)
  BY <1>2 DEF ServerStep, UploadStep, PutRefused, ConflictReply, ListServed, WipeServed,
              WipeBegins, Free, netVars
<1>3. CASE JobStep
  <2>1. CASE PutIndex \/ Unlink
    BY <2>1 DEF PutIndex, Unlink, StoreTypes, Jobs
  <2>2. CASE PutReturns \/ WipeFile \/ WipeReturns
    BY <2>2 DEF PutReturns, WipeFile, WipeReturns, Free
  <2>3. QED
    BY <1>3, <2>1, <2>2 DEF JobStep, PutGoesOn, PutAnswered, WipeGoesOn, WipeAnswered
<1>4. ASSUME FaultStep
      PROVE  job'.op # "index" \/ (UNCHANGED storeVars /\ serving' = serving)
  <2>1. CASE PutUnlinkFails
    BY <2>1 DEF PutUnlinkFails, UnlinkFails, StoreTypes, Jobs
  <2>2. CASE JobFails \/ Crash
    BY <2>2 DEF JobFails, Crash, Abandon, Free, storeVars
  <2>3. CASE \E d \in Devices : Disconnect(d) \/ ListFails(d) \/ Reload(d)
    BY <2>3 DEF Disconnect, ListFails, Reload, netVars
  <2>4. CASE \E r \in net : BlobFails(r)
    BY <2>4 DEF BlobFails
  <2>5. QED
    BY <1>4, <2>1, <2>2, <2>3, <2>4 DEF FaultStep
<1>5. QED
  BY <1>1, <1>2, <1>3, <1>4 DEF Next, vars, storeVars, netVars

LEMMA SightInvPreserved ==
  ASSUME BackupInv, SightInv, [Next]_vars
  PROVE  SightInv'
<1>1. StoreStep \/ UNCHANGED storeVars
  BY StepOfStore DEF BackupInv
<1>2. \A s \in Sights' : Seen(s)
  <2>1. CASE UNCHANGED vars
    BY <2>1 DEF Sights, Seen, vars, tickVars, replyVars, netVars
  <2>2. QED
    BY <2>1, DeviceSights, ServerSights, JobSights, FaultSights DEF Next, BackupInv
<1>3. ASSUME NEW s \in Sights' PROVE Genuine(s)'
  <2>1. Latest \in Entries /\ job.entry \in Entries /\ epoch \in Nat
    BY LatestIsAnEntry DEF BackupInv, StoreTypes, Jobs
  <2>2. Never \in Sight /\ Genuine(Never)
    BY <2>1 DEF Never, Sight, Genuine
  <2>3. CASE s \in Sights \/ s = Never
    <3>1. s \in Sight /\ Genuine(s)
      BY <2>2, <2>3, SightsAreSights DEF SightInv, BackupInv
    <3>2. QED
      BY <1>1, <3>1, GenuineStays DEF BackupInv
  <2>4. CASE s = Seeing(Latest) /\ job.op = "free" /\ UNCHANGED storeVars
    BY <2>1, <2>4 DEF Seeing, Genuine, storeVars, Latest, Entries
  <2>5. CASE s = Seeing(job.entry) /\ PutReturns
    BY <2>1, <2>5 DEF Seeing, Genuine, PutReturns, Free, Latest, Entries, BackupInv, StoreInv,
                      JobSound
  <2>6. QED
    BY <1>2, <2>3, <2>4, <2>5 DEF Seen
<1>4. job'.op = "index" => serving'.base.gen \in {0, Latest'.gen}
  <2>1. CASE job' = job /\ index' = index /\ serving' = serving
    BY <2>1 DEF SightInv, Latest
  <2>2. ASSUME NEW r \in net, PutAccepted(r) PROVE serving'.base.gen \in {0, Latest'.gen}
    BY <2>2 DEF PutAccepted, PutBlob, Stale, Latest
  <2>3. QED
    BY <2>1, <2>2, ServedStep DEF BackupInv
<1>5. QED
  BY <1>3, <1>4 DEF SightInv

\* backup.go, Put, with the base check of the handlers: an upload with a base
\* is stored on top of the very generation that its device saw last, whatever
\* other devices, crashes and failures there were in between.
THEOREM UploadsBuildOnWhatWasSeen == Spec => []BaseIsWhatWasSeen
<1>1. Init => SightInv
  BY DEF Init, StoreInit, SightInv, Sights, Genuine, Never, NoReply, NoList, Free
<1>2. BackupInv /\ SightInv /\ [Next]_vars => SightInv'
  BY SightInvPreserved
<1>3. BackupInv /\ SightInv => BaseIsWhatWasSeen
  <2> SUFFICES ASSUME BackupInv, SightInv, job.op = "index", serving.base.gen # 0,
                      serving.base.epoch = epoch
               PROVE  Latest.stamp = serving.base.stamp
    BY DEF BaseIsWhatWasSeen
  <2>1. serving \in net
    BY DEF BackupInv, DeviceTypeOK
  <2>2. serving.base \in Sights
    BY <2>1 DEF Sights
  <2>3. QED
    BY <2>2 DEF SightInv, Genuine
<1>4. QED
  BY <1>1, <1>2, <1>3, BackupInvHolds, PTL DEF Spec

-----------------------------------------------------------------------------
(* Files that the index does not name: the proof that faults alone leave   *)
(* them behind, and how many.                                              *)

Named == {index[i].gen : i \in 1 .. Len(index)}

\* The files the critical section will still name or remove.
InHand ==
  {g \in Nat : \/ job.op = "index" /\ g = job.entry.gen
               \/ job.op = "prune" /\ \E k \in 1 .. Len(job.drop) : g = job.drop[k]}

Orphans == DOMAIN blobs \ (Named \cup InHand)

\* While no wipe is under way or was cut short.
Accounted ==
  job.op # "wipe" /\ ~torn =>
    /\ Cardinality(Orphans) <= MaxGenerations * faults
    /\ \A g \in DOMAIN blobs : g <= NextGen

GarbageInv ==
  /\ IsFiniteSet(DOMAIN blobs)
  /\ Len(index) <= MaxGenerations
  /\ job.op = "prune" => Len(job.drop) <= MaxGenerations
  /\ Accounted

\* The numbers of a sequence are at most as many as it is long.
LEMMA FewInSequence ==
  ASSUME NEW s \in Seq(Nat)
  PROVE  LET R == {s[k] : k \in 1 .. Len(s)}
         IN  IsFiniteSet(R) /\ Cardinality(R) <= Len(s)
<1> DEFINE R == {s[k] : k \in 1 .. Len(s)}
<1>1. Len(s) \in Nat /\ s \in [1 .. Len(s) -> Nat]
  BY LenProperties
<1>2. ASSUME NEW n \in Nat PROVE IsFiniteSet(1 .. n) /\ Cardinality(1 .. n) = n
  <2>1. 1 \in Int /\ n \in Int
    OBVIOUS
  <2> DEFINE I == 1 .. n
  <2>2. IsFiniteSet(I) /\ Cardinality(I) = IF 1 > n THEN 0 ELSE n - 1 + 1
    BY <2>1, FS_Interval
  <2> HIDE DEF I
  <2>3. IsFiniteSet(I) /\ Cardinality(I) = n
    BY <2>2
  <2>4. QED
    BY <2>3 DEF I
<1>3. s \in Surjection(1 .. Len(s), R)
  BY <1>1 DEF Surjection
<1> HIDE DEF R
<1>4. IsFiniteSet(1 .. Len(s)) /\ Cardinality(1 .. Len(s)) = Len(s)
  BY <1>1, <1>2
<1>5. IsFiniteSet(R) /\ Cardinality(R) <= Cardinality(1 .. Len(s))
  BY <1>3, <1>4, FS_Surjection, Zenon
<1>6. IsFiniteSet(R) /\ Cardinality(R) <= Len(s)
  BY <1>4, <1>5, Zenon
<1>7. QED
  BY <1>6 DEF R

\* A fault leaves behind at most what was in hand.
LEMMA OneFaultMore ==
  ASSUME NEW A, IsFiniteSet(A), NEW B, IsFiniteSet(B), Cardinality(B) <= MaxGenerations,
         NEW C, C \subseteq A \cup B, NEW n \in Nat,
         Cardinality(A) <= MaxGenerations * n
  PROVE  Cardinality(C) <= MaxGenerations * (n + 1)
<1>1. /\ Cardinality(A \cup B) = Cardinality(A) + Cardinality(B) - Cardinality(A \cap B)
      /\ IsFiniteSet(A \cup B)
  BY FS_Union
<1>2. Cardinality(A \cap B) \in Nat /\ Cardinality(A) \in Nat /\ Cardinality(B) \in Nat
  BY FS_Intersection, FS_CardinalityType
<1>3. Cardinality(C) \in Nat /\ Cardinality(C) <= Cardinality(A \cup B)
  BY <1>1, FS_Subset, FS_CardinalityType
<1>4. MaxGenerations \in Nat
  BY BackupAssumption
<1>5. /\ MaxGenerations * (n + 1) = MaxGenerations * n + MaxGenerations
      /\ MaxGenerations * n \in Nat
  BY <1>4
<1> DEFINE p == MaxGenerations * n
<1>6. QED
  <2>1. p \in Nat /\ Cardinality(A) <= p
    BY <1>5
  <2> HIDE DEF p
  <2>2. Cardinality(C) <= p + MaxGenerations
    BY <1>1, <1>2, <1>3, <1>4, <2>1
  <2>3. QED
    BY <1>5, <2>2 DEF p

\* What a step does to the store and to the number of faults: only a failing
\* unlink and an operation that is cut short are faults of the store.
SoundStep ==
  \/ \E stamp \in Nat \ {0} : PutBlob(stamp)
  \/ PutIndex \/ Unlink \/ PutReturns \/ WipeBegins \/ WipeFile \/ WipeReturns
  \/ UNCHANGED storeVars

LEMMA FaultsAreCounted ==
  ASSUME DeviceTypeOK, [Next]_vars
  PROVE  /\ faults \in Nat /\ faults' \in {faults, faults + 1}
         /\ SoundStep \/ ((UnlinkFails \/ Abandon) /\ faults' = faults + 1)
<1>0. faults \in Nat
  BY DEF DeviceTypeOK
<1>1. ASSUME NEW r \in net PROVE r.stamp \in Nat \ {0}
  BY <1>1 DEF DeviceTypeOK, Uploads
<1>2. ASSUME NEW d \in Devices, UserStep(d) \/ DeviceStep(d)
      PROVE  UNCHANGED storeVars /\ faults' = faults
  BY <1>2 DEF UserStep, DeviceStep, Edit, Enable, Disable, Restore, ResolveOverwrite, List,
              Tick, TickAnswered, ListAnswered, Move, budget
<1>3. ASSUME NEW d \in Devices, ServerStep(d) PROVE SoundStep /\ faults' = faults
  BY <1>1, <1>3 DEF ServerStep, UploadStep, PutRefused, ConflictReply, PutAccepted, ListServed,
                    WipeServed, SoundStep, budget
<1>4. CASE JobStep
  BY <1>0, <1>4 DEF JobStep, PutGoesOn, PutAnswered, WipeGoesOn, WipeAnswered, SoundStep, budget
<1>5. CASE FaultStep
  BY <1>0, <1>5 DEF FaultStep, PutUnlinkFails, JobFails, Crash, Disconnect, ListFails, Reload,
              BlobFails, SoundStep, Fault
<1>6. CASE UNCHANGED vars
  BY <1>0, <1>6 DEF vars, budget, SoundStep
<1>7. QED
  BY <1>0, <1>2, <1>3, <1>4, <1>5, <1>6 DEF Next, SoundStep

\* Fewer orphans than before, and no new fault needed for it.
LEMMA FewerOrphans ==
  ASSUME GarbageInv, job.op # "wipe" /\ ~torn, Orphans' \subseteq Orphans,
         NEW n \in Nat, n = faults, faults' \in {n, n + 1}
  PROVE  Cardinality(Orphans)' <= MaxGenerations * faults'
<1>1. IsFiniteSet(Orphans) /\ Cardinality(Orphans) <= MaxGenerations * n
  BY FS_Difference DEF GarbageInv, Accounted, Orphans
<1>2. Cardinality(Orphans') <= Cardinality(Orphans)
  BY <1>1, FS_Subset
<1>3. Cardinality(Orphans') \in Nat /\ Cardinality(Orphans) \in Nat
  BY <1>1, FS_Subset, FS_CardinalityType
<1>4. MaxGenerations \in Nat
  BY BackupAssumption
<1>5. /\ MaxGenerations * n \in Nat
      /\ MaxGenerations * (n + 1) = MaxGenerations * n + MaxGenerations
  BY <1>4
<1>6. /\ MaxGenerations * n <= MaxGenerations * faults'
      /\ MaxGenerations * faults' \in Nat
  <2>1. CASE faults' = n
    BY <1>5, <2>1
  <2>2. CASE faults' = n + 1
    <3> DEFINE p == MaxGenerations * n
               q == MaxGenerations * (n + 1)
    <3>1. p \in Nat /\ q = p + MaxGenerations
      BY <1>5
    <3> HIDE DEF p, q
    <3>2. p <= q /\ q \in Nat
      BY <1>4, <3>1
    <3>3. QED
      BY <2>2, <3>2 DEF p, q
  <2>3. QED
    BY <2>1, <2>2
<1>7. QED
  BY <1>1, <1>2, <1>3, <1>5, <1>6

\* Put writes the file of the generation in hand and leaves no other one there.
LEMMA PutBlobAccounts ==
  ASSUME StoreTypes, StoreInv, GarbageInv, NEW stamp \in Nat \ {0}, PutBlob(stamp)
  PROVE  /\ IsFiniteSet(DOMAIN blobs')
         /\ ~torn => Orphans' \subseteq Orphans
         /\ ~torn => \A g \in DOMAIN blobs' : g <= NextGen'
<1>1. /\ index' = index /\ torn' = torn /\ job.op = "free" /\ job'.op = "index"
      /\ job'.entry.gen = NextGen /\ NextGen' = NextGen /\ NextGen \in Nat
      /\ DOMAIN blobs' = DOMAIN blobs \cup {NextGen}
  BY LatestIsAnEntry DEF PutBlob, NextGen, Latest, With
<1>2. IsFiniteSet(DOMAIN blobs')
  BY <1>1, FS_AddElement DEF GarbageInv
<1>3. Named' = Named /\ InHand' = {NextGen} /\ InHand = {}
  BY <1>1 DEF Named, InHand
<1>4. Orphans' \subseteq Orphans
  BY <1>1, <1>3 DEF Orphans
<1>5. ~torn => \A g \in DOMAIN blobs' : g <= NextGen'
  BY <1>1 DEF GarbageInv, Accounted
<1>6. QED
  BY <1>2, <1>4, <1>5

\* What the new index no longer names is in hand to be removed.
LEMMA PutIndexAccounts ==
  ASSUME StoreTypes, StoreInv, GarbageInv, PutIndex
  PROVE  /\ blobs' = blobs /\ job'.op = "prune"
         /\ Len(index') <= MaxGenerations /\ Len(job'.drop) <= MaxGenerations
         /\ Orphans' \subseteq Orphans
         /\ ~torn => \A g \in DOMAIN blobs' : g <= NextGen'
<1> DEFINE e == job.entry
           n == Cut(e)
<1>1. /\ job.op = "index" /\ job'.op = "prune" /\ blobs' = blobs /\ torn' = torn
      /\ job'.drop = Dropped(All(e), n) /\ index' = Kept(e)
      /\ e \in Entries /\ e.gen = NextGen
  BY DEF PutIndex, StoreTypes, Jobs, All, Cut, Kept, StoreInv, JobSound
<1>2. index \in Seq(Entries) /\ Len(index) \in Nat
  BY LenProperties DEF StoreTypes
<1> HIDE DEF e
<1>3. /\ n \in 0 .. Len(index)
      /\ Len(index') = Len(index) + 1 - n
      /\ \A i \in 1 .. Len(index') : index'[i] = All(e)[n + i]
      /\ index' # << >> /\ Last(index') = e
      /\ Len(job'.drop) = n /\ job'.drop \in Seq(Nat)
      /\ \A k \in 1 .. n : job'.drop[k] = index[k].gen
      /\ \A i \in 1 .. Len(index) : All(e)[i] = index[i]
      /\ All(e)[Len(index) + 1] = e
  <2> DEFINE drop == Dropped(All(e), n)
             kept == Kept(e)
  <2>1. /\ n \in 0 .. Len(index)
        /\ Len(kept) = Len(index) + 1 - n
        /\ \A i \in 1 .. Len(kept) : kept[i] = All(e)[n + i]
        /\ kept # << >> /\ Last(kept) = e
        /\ Len(drop) = n /\ drop \in Seq(Nat)
        /\ \A k \in 1 .. n : drop[k] = index[k].gen
        /\ \A i \in 1 .. Len(index) : All(e)[i] = index[i]
        /\ All(e)[Len(index) + 1] = e
    BY <1>1, <1>2, NewIndex
  <2>2. job'.drop = drop /\ index' = kept
    BY <1>1
  <2> HIDE DEF drop, kept, n
  <2>3. QED
    BY <2>1, <2>2
<1>4. Len(index') <= MaxGenerations
  <2>1. Len(All(e)) = Len(index) + 1
    BY <1>2, AppendProperties, <1>1 DEF All
  <2>2. Len(All(e)) - Pruned(All(e)) <= MaxGenerations
    BY <1>2, <2>1, PruneKeepsNewest
  <2>3. QED
    BY <1>3, <2>1, <2>2 DEF Cut
<1>5. Len(job'.drop) <= MaxGenerations
  BY <1>2, <1>3, BackupAssumption DEF GarbageInv
<1> HIDE DEF n
<1>6. ASSUME NEW i \in 1 .. Len(index) PROVE index[i].gen \in Named' \cup InHand'
  <2>1. CASE i <= n
    <3>1. i \in 1 .. Len(job'.drop) /\ job'.drop[i] = index[i].gen
      BY <1>2, <1>3, <2>1
    <3>2. job'.drop[i] \in Nat
      BY <1>3, <3>1, ElementOfSeq
    <3>3. QED
      BY <1>1, <3>1, <3>2 DEF InHand
  <2>2. CASE i > n
    <3>1. i - n \in 1 .. Len(index') /\ n + (i - n) = i
      BY <1>2, <1>3, <2>2
    <3>2. index'[i - n] = index[i]
      BY <1>3, <3>1
    <3>3. QED
      BY <3>1, <3>2 DEF Named
  <2>3. QED
    BY <1>2, <1>3, <2>1, <2>2
<1>7. e.gen \in Named'
  <2>1. Len(index) + 1 - n \in 1 .. Len(index') /\ n + (Len(index) + 1 - n) = Len(index) + 1
    BY <1>2, <1>3
  <2>2. index'[Len(index) + 1 - n] = e
    BY <1>3, <2>1
  <2>3. QED
    BY <2>1, <2>2 DEF Named
<1>8. Named \subseteq Named' \cup InHand'
  BY <1>6 DEF Named
<1>9. InHand \subseteq Named'
  BY <1>1, <1>7 DEF InHand, e
<1>10. Orphans' \subseteq Orphans
  BY <1>1, <1>8, <1>9 DEF Orphans
<1>11. ~torn => \A g \in DOMAIN blobs' : g <= NextGen'
  <2>1. NextGen' = e.gen + 1
    BY <1>3 DEF NextGen, Latest
  <2>2. NextGen \in Nat
    BY LatestIsAnEntry
  <2>3. \A g \in DOMAIN blobs : g \in Nat
    BY DEF StoreTypes
  <2>4. QED
    BY <1>1, <2>1, <2>2, <2>3 DEF GarbageInv, Accounted
<1>12. QED
  BY <1>1, <1>4, <1>5, <1>10, <1>11

\* The file that is taken from the list is removed, or is an orphan from now on.
LEMMA UnlinkAccounts ==
  ASSUME StoreTypes, GarbageInv, Unlink \/ UnlinkFails
  PROVE  /\ IsFiniteSet(DOMAIN blobs')
         /\ index' = index /\ torn' = torn /\ job'.op = "prune" /\ NextGen' = NextGen
         /\ Len(job'.drop) <= MaxGenerations
         /\ Unlink => Orphans' \subseteq Orphans
         /\ Orphans' \subseteq Orphans \cup {Head(job.drop)}
         /\ DOMAIN blobs' \subseteq DOMAIN blobs
<1>1. /\ index' = index /\ torn' = torn /\ NextGen' = NextGen
      /\ job.op = "prune" /\ job'.op = "prune" /\ job.drop \in Seq(Nat)
      /\ job.drop # << >> /\ job'.drop = Tail(job.drop)
  BY DEF Unlink, UnlinkFails, StoreTypes, Jobs, NextGen, Latest
<1>2. /\ Unlink => DOMAIN blobs' = DOMAIN blobs \ {Head(job.drop)}
      /\ UnlinkFails => blobs' = blobs
  BY DEF Unlink, UnlinkFails, Without
<1>3. /\ Len(job.drop) \in Nat \ {0} /\ Head(job.drop) = job.drop[1]
      /\ Len(job'.drop) = Len(job.drop) - 1
      /\ \A k \in 1 .. Len(job'.drop) : job'.drop[k] = job.drop[k + 1]
  BY <1>1, EmptySeq, HeadTailProperties
<1>4. Named' = Named
  BY <1>1 DEF Named
<1>5. InHand \subseteq InHand' \cup {Head(job.drop)}
  <2> SUFFICES ASSUME NEW g \in InHand PROVE g \in InHand' \cup {Head(job.drop)}
    OBVIOUS
  <2>1. PICK k \in 1 .. Len(job.drop) : g = job.drop[k]
    BY <1>1 DEF InHand
  <2>2. CASE k = 1
    BY <1>3, <2>1, <2>2
  <2>3. CASE k # 1
    <3>1. k - 1 \in 1 .. Len(job'.drop) /\ (k - 1) + 1 = k
      BY <1>3, <2>3
    <3>2. job'.drop[k - 1] = g
      BY <1>3, <2>1, <3>1
    <3>3. QED
      BY <1>1, <3>1, <3>2 DEF InHand
  <2>4. QED
    BY <2>2, <2>3
<1>6. Orphans' \subseteq Orphans \cup {Head(job.drop)} /\ (Unlink => Orphans' \subseteq Orphans)
  BY <1>2, <1>4, <1>5 DEF Orphans
<1>7. IsFiniteSet(DOMAIN blobs')
  BY <1>2, FS_RemoveElement DEF GarbageInv
<1>8. Len(job'.drop) <= MaxGenerations
  BY <1>1, <1>3, BackupAssumption DEF GarbageInv
<1>9. QED
  BY <1>1, <1>2, <1>6, <1>7, <1>8

\* An operation that is cut short leaves at most what it had in hand.
LEMMA InHandIsLittle ==
  ASSUME StoreTypes, GarbageInv
  PROVE  IsFiniteSet(InHand) /\ Cardinality(InHand) <= MaxGenerations
<1>0. MaxGenerations \in Nat \ {0}
  BY BackupAssumption
<1>1. CASE job.op = "index"
  <2>1. InHand = {job.entry.gen}
    BY <1>1 DEF InHand, StoreTypes, Jobs, Entries
  <2>2. IsFiniteSet(InHand) /\ Cardinality(InHand) = 1
    BY <2>1, FS_Singleton, Zenon
  <2>3. QED
    BY <1>0, <2>2
<1>2. CASE job.op = "prune"
  <2>1. job.drop \in Seq(Nat)
    BY DEF StoreTypes, Jobs
  <2>2. InHand = {job.drop[k] : k \in 1 .. Len(job.drop)}
    BY <1>2, <2>1, ElementOfSeq DEF InHand
  <2>3. Len(job.drop) \in Nat /\ Len(job.drop) <= MaxGenerations
    BY <1>2, <2>1, LenProperties DEF GarbageInv
  <2>4. /\ IsFiniteSet({job.drop[k] : k \in 1 .. Len(job.drop)})
        /\ Cardinality({job.drop[k] : k \in 1 .. Len(job.drop)}) <= Len(job.drop)
    BY <2>1, FewInSequence
  <2>5. Cardinality(InHand) \in Nat
    BY <2>2, <2>4, FS_CardinalityType
  <2>6. QED
    BY <1>0, <2>2, <2>3, <2>4, <2>5
<1>3. CASE job.op \notin {"index", "prune"}
  <2>1. InHand = {}
    BY <1>3 DEF InHand
  <2>2. QED
    BY <1>0, <2>1, FS_EmptySet
<1>4. QED
  BY <1>1, <1>2, <1>3

LEMMA GarbageInvPreserved ==
  ASSUME StoreTypes, StoreInv, GarbageInv, DeviceTypeOK, [Next]_vars
  PROVE  GarbageInv'
<1> DEFINE n == faults
<1>0. n \in Nat /\ faults' \in {n, n + 1} /\ MaxGenerations \in Nat \ {0}
  BY FaultsAreCounted, BackupAssumption
<1> HIDE DEF n
<1>a. n = faults
  BY DEF n
<1>1. ASSUME NEW stamp \in Nat \ {0}, PutBlob(stamp) PROVE GarbageInv'
  <2>1. index' = index /\ torn' = torn /\ job.op = "free" /\ job'.op = "index"
    BY <1>1 DEF PutBlob
  <2>2. ~torn => Cardinality(Orphans)' <= MaxGenerations * faults'
    BY <1>0, <1>a, <1>1, <2>1, PutBlobAccounts, FewerOrphans
  <2>3. QED
    BY <1>1, <2>1, <2>2, PutBlobAccounts DEF GarbageInv, Accounted
<1>2. CASE PutIndex
  <2>1. torn' = torn /\ job.op = "index"
    BY <1>2 DEF PutIndex
  <2>2. ~torn => Cardinality(Orphans)' <= MaxGenerations * faults'
    BY <1>0, <1>a, <1>2, <2>1, PutIndexAccounts, FewerOrphans
  <2>3. QED
    BY <1>2, <2>1, <2>2, PutIndexAccounts DEF GarbageInv, Accounted
<1>3. CASE Unlink
  <2>1. job.op = "prune"
    BY <1>3 DEF Unlink
  <2>2. ~torn => Cardinality(Orphans)' <= MaxGenerations * faults'
    BY <1>0, <1>a, <1>3, <2>1, UnlinkAccounts, FewerOrphans
  <2>3. QED
    BY <1>3, <2>1, <2>2, UnlinkAccounts DEF GarbageInv, Accounted
<1>4. CASE UnlinkFails /\ faults' = faults + 1
  <2>1. job.op = "prune"
    BY <1>4 DEF UnlinkFails
  <2>2. IsFiniteSet(Orphans)
    BY FS_Difference DEF GarbageInv, Orphans
  <2> DEFINE head == {Head(job.drop)}
  <2>a. IsFiniteSet(head) /\ Cardinality(head) = 1
    BY FS_Singleton, Zenon
  <2>3. IsFiniteSet({Head(job.drop)}) /\ Cardinality({Head(job.drop)}) <= MaxGenerations
    BY <1>0, <2>a
  <2>4. ASSUME ~torn PROVE Cardinality(Orphans)' <= MaxGenerations * faults'
    <3>1. Cardinality(Orphans) <= MaxGenerations * n
      BY <1>a, <2>1, <2>4 DEF GarbageInv, Accounted
    <3>2. Orphans' \subseteq Orphans \cup {Head(job.drop)}
      BY <1>4, UnlinkAccounts
    <3>3. QED
      BY <1>0, <1>a, <1>4, <2>2, <2>3, <3>1, <3>2, OneFaultMore
  <2>5. QED
    BY <1>4, <2>1, <2>4, UnlinkAccounts DEF GarbageInv, Accounted
<1>5. CASE PutReturns
  <2>1. /\ index' = index /\ torn' = torn /\ blobs' = blobs /\ NextGen' = NextGen
        /\ job.op = "prune" /\ job'.op = "free" /\ job.drop = << >>
    BY <1>5 DEF PutReturns, Free, NextGen, Latest
  <2>2. Len(job.drop) = 0
    BY <2>1, EmptySeq
  <2>3. InHand = {} /\ Named' = Named
    BY <2>1, <2>2 DEF InHand, Named
  <2>4. Orphans' \subseteq Orphans
    BY <2>1, <2>3 DEF Orphans
  <2>5. ~torn => Cardinality(Orphans)' <= MaxGenerations * faults'
    BY <1>0, <1>a, <2>1, <2>4, FewerOrphans
  <2>6. QED
    BY <2>1, <2>5 DEF GarbageInv, Accounted
<1>6. CASE WipeBegins
  BY <1>6 DEF WipeBegins, Free, GarbageInv, Accounted
<1>7. CASE WipeFile
  <2>1. Len(<< >>) = 0
    BY EmptySeq
  <2>2. IsFiniteSet(DOMAIN blobs')
    BY <1>7, FS_RemoveElement DEF WipeFile, Without, GarbageInv
  <2>3. QED
    BY <1>0, <1>7, <2>1, <2>2 DEF WipeFile, GarbageInv, Accounted
<1>8. CASE WipeReturns
  <2>1. /\ index' = index /\ blobs' = blobs /\ torn' = torn /\ job'.op = "free"
        /\ DOMAIN blobs = {}
    BY <1>8 DEF WipeReturns, Free
  <2>2. Orphans' = {} /\ Cardinality(Orphans') = 0
    BY <2>1, FS_EmptySet DEF Orphans
  <2>3. MaxGenerations * n \in Nat /\ MaxGenerations * (n + 1) \in Nat
    BY <1>0
  <2>4. MaxGenerations * faults' \in Nat
    BY <1>0, <2>3
  <2>5. QED
    BY <2>1, <2>2, <2>4 DEF GarbageInv, Accounted
<1>9. CASE Abandon /\ faults' = faults + 1
  <2>1. /\ index' = index /\ blobs' = blobs /\ job'.op = "free" /\ NextGen' = NextGen
        /\ torn' = (torn \/ job.op = "wipe")
    BY <1>9 DEF Abandon, Free, NextGen, Latest
  <2>2. ASSUME ~torn' PROVE Cardinality(Orphans)' <= MaxGenerations * faults'
    <3>1. job.op # "wipe" /\ ~torn
      BY <2>1, <2>2
    <3>2. IsFiniteSet(Orphans) /\ Cardinality(Orphans) <= MaxGenerations * n
      BY <1>a, <3>1, FS_Difference DEF GarbageInv, Accounted, Orphans
    <3>3. Orphans' \subseteq Orphans \cup InHand
      BY <2>1 DEF Orphans, Named
    <3>4. QED
      BY <1>0, <1>a, <1>9, <3>2, <3>3, InHandIsLittle, OneFaultMore
  <2>3. QED
    BY <2>1, <2>2 DEF GarbageInv, Accounted
<1>10. CASE UNCHANGED storeVars
  <2>1. /\ index' = index /\ blobs' = blobs /\ job' = job /\ torn' = torn
        /\ NextGen' = NextGen /\ Orphans' = Orphans
    BY <1>10 DEF storeVars, NextGen, Latest, Orphans, Named, InHand
  <2>2. job.op # "wipe" /\ ~torn => Cardinality(Orphans)' <= MaxGenerations * faults'
    BY <1>0, <1>a, <2>1, FewerOrphans
  <2>3. QED
    BY <2>1, <2>2 DEF GarbageInv, Accounted
<1>11. QED
  BY <1>1, <1>2, <1>3, <1>4, <1>5, <1>6, <1>7, <1>8, <1>9, <1>10, FaultsAreCounted DEF SoundStep

\* The file of a pruned generation that its own Put did not remove is not
\* touched by any later step but a wipe.
LEMMA LeftoverStays ==
  ASSUME StoreTypes, StoreInv, StoreStep \/ UNCHANGED storeVars, job.op # "wipe",
         NEW g \in Leftover
  PROVE  g \in Leftover' /\ blobs'[g] = blobs[g]
<1>1. /\ g \in DOMAIN blobs /\ g \in Nat \ {0} /\ g <= Latest.gen /\ Latest.gen \in Nat
      /\ \A i \in 1 .. Len(index) : index[i].gen # g
      /\ \A k \in 1 .. Len(job.drop) : job.drop[k] # g
  <2>1. DOMAIN index = 1 .. Len(index) /\ DOMAIN job.drop = 1 .. Len(job.drop)
    BY LenProperties DEF StoreTypes, Jobs
  <2>2. QED
    BY <2>1, LatestIsAnEntry DEF Leftover, StoreTypes, Entries
<1>2. SUFFICES /\ g \in DOMAIN blobs' /\ blobs'[g] = blobs[g] /\ g <= Latest'.gen
               /\ \A i \in 1 .. Len(index') : index'[i].gen # g
               /\ \A k \in 1 .. Len(job'.drop) : job'.drop[k] # g
  <2>1. StoreTypes'
    BY StoreTypesPreserved
  <2>2. DOMAIN index' = 1 .. Len(index') /\ DOMAIN job'.drop = 1 .. Len(job'.drop)
    BY <2>1, LenProperties DEF StoreTypes, Jobs
  <2>3. QED
    BY <1>2, <2>2 DEF Leftover
<1>3. Len(<< >>) = 0
  BY EmptySeq
<1>4. ASSUME NEW stamp \in Nat \ {0}, PutBlob(stamp)
      PROVE  /\ g \in DOMAIN blobs' /\ blobs'[g] = blobs[g]
             /\ index' = index /\ Latest' = Latest /\ job'.drop = << >>
  <2>1. g # NextGen
    BY <1>1 DEF NextGen
  <2>2. QED
    BY <1>1, <1>4, <2>1 DEF PutBlob, With, Latest
<1>5. CASE PutIndex
  <2> DEFINE e == job.entry
             n == Cut(e)
  <2>1. /\ e \in Entries /\ e.gen = NextGen /\ NextGen = Latest.gen + 1
        /\ blobs' = blobs /\ job'.drop = Dropped(All(e), n) /\ Latest' = e
    BY <1>5, PutIndexGrows DEF PutIndex, StoreInv, JobSound, NextGen, Latest, All, Cut
  <2>2. \A i \in 1 .. Len(index') : index'[i] = e \/ \E k \in 1 .. Len(index) : index'[i] = index[k]
    BY <1>5, PutIndexGrows
  <2>3. /\ n \in 0 .. Len(index) /\ Len(Dropped(All(e), n)) = n
        /\ \A k \in 1 .. n : Dropped(All(e), n)[k] = index[k].gen
    BY <2>1, NewIndex DEF StoreTypes
  <2>4. Len(index) \in Nat
    BY LenProperties DEF StoreTypes
  <2> HIDE DEF e, n
  <2>5. \A i \in 1 .. Len(index') : index'[i].gen # g
    BY <1>1, <2>1, <2>2
  <2>6. \A k \in 1 .. Len(job'.drop) : job'.drop[k] # g
    BY <1>1, <2>1, <2>3, <2>4
  <2>7. g <= Latest'.gen
    BY <1>1, <2>1
  <2>8. QED
    BY <1>1, <2>1, <2>5, <2>6, <2>7
<1>6. CASE Unlink \/ UnlinkFails
  <2>1. /\ index' = index /\ Latest' = Latest
        /\ job.drop \in Seq(Nat) /\ job.drop # << >> /\ job'.drop = Tail(job.drop)
        /\ blobs' = blobs \/ blobs' = Without(blobs, Head(job.drop))
    BY <1>6 DEF Unlink, UnlinkFails, StoreTypes, Jobs, Latest
  <2>2. /\ Len(job.drop) \in Nat \ {0} /\ Head(job.drop) = job.drop[1]
        /\ Len(job'.drop) = Len(job.drop) - 1
        /\ \A k \in 1 .. Len(job'.drop) : job'.drop[k] = job.drop[k + 1]
    BY <2>1, EmptySeq, HeadTailProperties
  <2>3. Head(job.drop) # g
    BY <1>1, <2>2
  <2>4. g \in DOMAIN blobs' /\ blobs'[g] = blobs[g]
    BY <1>1, <2>1, <2>3 DEF Without
  <2>5. QED
    BY <1>1, <2>1, <2>2, <2>4
<1>7. CASE PutReturns \/ WipeBegins \/ Abandon
  <2>1. index' = index /\ Latest' = Latest /\ blobs' = blobs /\ job'.drop = << >>
    BY <1>7 DEF PutReturns, WipeBegins, Abandon, Free, Latest
  <2>2. QED
    BY <1>1, <1>3, <2>1
<1>8. CASE UNCHANGED storeVars
  BY <1>1, <1>8 DEF storeVars, Latest
<1>9. CASE WipeFile \/ WipeReturns
  BY <1>9 DEF WipeFile, WipeReturns
<1>10. CASE \E stamp \in Nat \ {0} : PutBlob(stamp)
  BY <1>1, <1>3, <1>4, <1>10
<1>11. QED
  BY <1>2, <1>5, <1>6, <1>7, <1>8, <1>9, <1>10 DEF StoreStep

\* Put (backup.go) leaves no file behind that the index does not name unless an
\* unlink failed or the operation was cut short; each such fault leaves at most
\* the files of one pruning.  One above the index has the next number, and one of
\* a pruned generation stays, untouched, until the slot is wiped.
THEOREM GarbageComesFromFaults == Spec => GarbageIsFromFaults
<1> DEFINE Bounded == job.op = "free" /\ ~torn => FewUnnamed
           Stays == job.op # "wipe" => \A g \in Leftover : g \in Leftover' /\ blobs'[g] = blobs[g]
<1>1. Init => GarbageInv
  <2> SUFFICES ASSUME Init PROVE GarbageInv
    OBVIOUS
  <2>1. DOMAIN blobs = {} /\ Len(index) = 0 /\ job.op = "free" /\ faults = 0
    BY EmptySeq DEF Init, StoreInit, Free
  <2>2. MaxGenerations * 0 = 0 /\ MaxGenerations \in Nat \ {0}
    BY BackupAssumption
  <2>3. IsFiniteSet(DOMAIN blobs) /\ Orphans = {} /\ Cardinality(Orphans) = 0
    BY <2>1, FS_EmptySet DEF Orphans
  <2>4. QED
    BY <2>1, <2>2, <2>3 DEF GarbageInv, Accounted
<1>2. BackupInv /\ GarbageInv /\ [Next]_vars => GarbageInv'
  BY GarbageInvPreserved DEF BackupInv
<1>3. BackupInv /\ GarbageInv => Bounded
  <2> SUFFICES ASSUME BackupInv, GarbageInv, job.op = "free", ~torn
               PROVE  FewUnnamed
    OBVIOUS
  <2>1. DOMAIN index = 1 .. Len(index)
    BY LenProperties DEF BackupInv, StoreTypes
  <2>2. InHand = {}
    BY DEF InHand
  <2>3. Orphans = DOMAIN blobs \ {index[i].gen : i \in DOMAIN index}
    BY <2>1, <2>2 DEF Orphans, Named
  <2>4. Latest.gen \in Nat /\ NextGen = Latest.gen + 1 /\ DOMAIN blobs \subseteq Nat
    BY LatestIsAnEntry DEF BackupInv, StoreTypes, Entries, NextGen
  <2>5. QED
    BY <2>3, <2>4 DEF GarbageInv, Accounted, FewUnnamed
<1>4. BackupInv /\ [Next]_vars => [Stays]_vars
  BY StepOfStore, LeftoverStays DEF BackupInv
<1>5. Bounded' /\ [Stays]_vars =>
        [(job'.op = "free" /\ ~torn' => FewUnnamed') /\ Stays]_vars
  OBVIOUS
<1>6. QED
  BY <1>1, <1>2, <1>3, <1>4, <1>5, BackupInvHolds, PTL DEF Spec, GarbageIsFromFaults

==============================================================================
