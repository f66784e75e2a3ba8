---------------------------- MODULE BackupDevices ----------------------------
(***************************************************************************)
(* The browsers that back their settings up into one slot: the backup      *)
(* client (frontend/src/lib/backup/client.ts) of each device, the HTTP     *)
(* handlers (pkg/server/backup.go), the network between them and the store *)
(* (BackupStore).                                                          *)
(*                                                                         *)
(* The settings of a device are the number of the version it has; 0 stands *)
(* for "no hash".  An upload is named by a stamp.  What a device knows of  *)
(* the slot (lastSeenGen) is kept with the stamp and the epoch it saw, so  *)
(* that a property can tell a known generation from one with its number.   *)
(*                                                                         *)
(* collect, hash and encrypt work on the device alone, and lastSeenGen is  *)
(* read when they are done: they are one step with sending the upload.     *)
(***************************************************************************)
EXTENDS BackupStore

CONSTANTS Devices,
          Faults,      \* what may go wrong, of AllFaults
          MaxFaults,   \* bound: faults
          MaxMoves     \* bound: what the users do

AllFaults == {"crash", "write", "unlink", "network", "reload"}

ASSUME DevicesAssumption ==
  /\ Faults \subseteq AllFaults
  /\ MaxFaults \in Nat
  /\ MaxMoves \in Nat

VARIABLES
  enabled,    \* [Devices -> BOOLEAN], config.enabled
  keyed,      \* [Devices -> BOOLEAN], the data key is in memory
  local,      \* [Devices -> Nat], the version of the device's settings
  hash,       \* [Devices -> Nat], lastPlaintextHash
  base,       \* [Devices -> Sight], lastSeenGen
  conflict,   \* [Devices -> BOOLEAN], status.conflict
  running,    \* [Devices -> BOOLEAN], a tick is under way
  await,      \* [Devices -> Nat], the upload whose answer the tick waits for
  reply,      \* [Devices -> Replies], the answer on its way back
  listing,    \* [Devices -> Listings], listGenerations under way
  wiping,     \* [Devices -> BOOLEAN], disable waits for the server's wipe
  net,        \* uploads the server has not finished
  serving,    \* the upload in the store's critical section
  stamps,     \* uploads sent
  faults,     \* faults so far
  moves       \* user actions so far

deviceVars == <<enabled, keyed, local>>
tickVars   == <<hash, base, conflict, running, await>>
replyVars  == <<reply, listing, wiping>>
netVars    == <<net, serving, stamps>>
budget     == <<faults, moves>>
vars == <<storeVars, deviceVars, tickVars, replyVars, netVars, budget>>

Never == [gen |-> 0, stamp |-> 0, epoch |-> 0]
Sight == [gen : Nat, stamp : Nat, epoch : Nat]
Seeing(e) == [gen |-> e.gen, stamp |-> e.stamp, epoch |-> epoch]

NoReply == [kind |-> "none", sight |-> Never, ver |-> 0]
NoList == [why |-> "none", sight |-> Never, at |-> "none"]
NoUpload == [stamp |-> 0]

Uploads ==
  [dev : Devices, stamp : 1 .. stamps, base : Sight, ver : Nat,
   cause : {"timer", "overwrite"}, refused : BOOLEAN]

DeviceTypeOK ==
  /\ enabled \in [Devices -> BOOLEAN]
  /\ keyed \in [Devices -> BOOLEAN]
  /\ local \in [Devices -> Nat \ {0}]
  /\ hash \in [Devices -> Nat]
  /\ base \in [Devices -> Sight]
  /\ conflict \in [Devices -> BOOLEAN]
  /\ running \in [Devices -> BOOLEAN]
  /\ await \in [Devices -> Nat]
  /\ reply \in [Devices -> [kind : {"none", "ok", "conflict", "error"},
                            sight : Sight, ver : Nat]]
  /\ listing \in [Devices -> [why : {"none", "show", "rekey"},
                              sight : Sight,
                              at : {"none", "asked", "got", "failed"}]]
  /\ wiping \in [Devices -> {"no", "sent", "served"}]
  /\ stamps \in Nat /\ faults \in Nat /\ moves \in Nat
  /\ net \subseteq Uploads
  /\ serving \in net \cup {NoUpload}
  /\ (serving # NoUpload) <=> job.op \in {"index", "prune"}

TypeOK == StoreTypeOK /\ DeviceTypeOK

Init ==
  /\ StoreInit
  /\ enabled = [d \in Devices |-> TRUE]
  /\ keyed = [d \in Devices |-> TRUE]
  /\ local = [d \in Devices |-> 1]
  /\ hash = [d \in Devices |-> 0]
  /\ base = [d \in Devices |-> Never]
  /\ conflict = [d \in Devices |-> FALSE]
  /\ running = [d \in Devices |-> FALSE]
  /\ await = [d \in Devices |-> 0]
  /\ reply = [d \in Devices |-> NoReply]
  /\ listing = [d \in Devices |-> NoList]
  /\ wiping = [d \in Devices |-> "no"]
  /\ net = {}
  /\ serving = NoUpload
  /\ stamps = 0
  /\ faults = 0
  /\ moves = 0

Move == moves < MaxMoves /\ moves' = moves + 1 /\ UNCHANGED faults
Fault(f) ==
  /\ f \in Faults
  /\ faults < MaxFaults /\ faults' = faults + 1 /\ UNCHANGED moves

-----------------------------------------------------------------------------
(* The device: settings, the switch, the tick and the tab.                 *)

Edit(d) ==
  /\ Move
  /\ local' = [local EXCEPT ![d] = @ + 1]
  /\ UNCHANGED <<storeVars, enabled, keyed, tickVars, replyVars, netVars>>

Enable(d) ==
  /\ ~enabled[d] /\ wiping[d] = "no"
  /\ Move
  /\ enabled' = [enabled EXCEPT ![d] = TRUE]
  /\ keyed' = [keyed EXCEPT ![d] = TRUE]
  /\ base' = [base EXCEPT ![d] = Never]
  /\ hash' = [hash EXCEPT ![d] = 0]
  /\ conflict' = [conflict EXCEPT ![d] = FALSE]
  /\ UNCHANGED <<storeVars, local, running, await, replyVars, netVars>>

Disable(d, wipeServer) ==
  /\ enabled[d] /\ wiping[d] = "no"
  /\ Move
  /\ enabled' = [enabled EXCEPT ![d] = FALSE]
  /\ keyed' = [keyed EXCEPT ![d] = FALSE]
  /\ hash' = [hash EXCEPT ![d] = 0]
  /\ conflict' = [conflict EXCEPT ![d] = FALSE]
  /\ wiping' = [wiping EXCEPT ![d] = IF wipeServer THEN "sent" ELSE "no"]
  /\ UNCHANGED <<storeVars, local, base, running, await, reply, listing,
                 netVars>>

\* The upload of the settings as they are, on the base b.
Upload(d, b, cause) ==
  /\ running' = [running EXCEPT ![d] = TRUE]
  /\ stamps' = stamps + 1
  /\ await' = [await EXCEPT ![d] = stamps + 1]
  /\ net' = net \cup {[dev |-> d, stamp |-> stamps + 1, base |-> b,
                       ver |-> local[d], cause |-> cause, refused |-> FALSE]}

MayTick(d) == enabled[d] /\ keyed[d] /\ ~running[d]

\* The timer (or "Back up now"): upload if the settings changed.
Tick(d) ==
  /\ MayTick(d)
  /\ hash[d] # local[d]
  /\ Upload(d, base[d], "timer")
  /\ UNCHANGED <<storeVars, deviceVars, hash, base, conflict, replyVars,
                 serving, budget>>

\* "Overwrite" in the conflict notice.
ResolveOverwrite(d) ==
  /\ conflict[d] /\ enabled[d]
  /\ Move
  /\ base' = [base EXCEPT ![d] = Never]
  /\ hash' = [hash EXCEPT ![d] = 0]
  /\ IF MayTick(d) THEN Upload(d, Never, "overwrite")
                   ELSE UNCHANGED <<running, await, stamps, net>>
  /\ UNCHANGED <<storeVars, deviceVars, conflict, replyVars, serving>>

\* Mutant: the early return on an error leaves the guard set.
RunningAfterError(d) == reply[d].kind = "error"

\* The tick's finally clause.
RunningAfter(d) == FALSE

\* The rest of the tick, when the answer is there.
TickAnswered(d) ==
  /\ reply[d].kind # "none"
  /\ reply' = [reply EXCEPT ![d] = NoReply]
  /\ running' = [running EXCEPT ![d] = RunningAfter(d)]
  /\ await' = [await EXCEPT ![d] = 0]
  /\ base' = [base EXCEPT ![d] =
                IF reply[d].kind = "error" THEN @ ELSE reply[d].sight]
  /\ hash' = [hash EXCEPT ![d] = IF reply[d].kind = "ok" THEN reply[d].ver ELSE @]
  /\ conflict' = [conflict EXCEPT ![d] =
                    CASE reply[d].kind = "ok" -> FALSE
                      [] reply[d].kind = "conflict" -> TRUE
                      [] OTHER -> @]
  /\ UNCHANGED <<storeVars, deviceVars, listing, wiping, netVars, budget>>

\* listGenerations for the tab, or as the first half of changePassphrase.
List(d, why) ==
  /\ listing[d] = NoList /\ wiping[d] = "no"
  /\ why = "rekey" => enabled[d]
  /\ Move
  /\ listing' = [listing EXCEPT ![d] = [NoList EXCEPT !.why = why,
                                                      !.at = "asked"]]
  /\ UNCHANGED <<storeVars, deviceVars, tickVars, reply, wiping, netVars>>

\* handleBackupMeta.
ListServed(d) ==
  /\ listing[d].at = "asked"
  /\ job.op = "free"
  /\ listing' = [listing EXCEPT ![d].sight = Seeing(Latest), ![d].at = "got"]
  /\ UNCHANGED <<storeVars, deviceVars, tickVars, reply, wiping, netVars,
                 budget>>

\* The listing arrives: it becomes the base.  changePassphrase goes on with
\* the newest generation, if its file can still be read, and with a fresh
\* key when there is none or when the listing failed.
ListAnswered(d) ==
  /\ listing[d].at \in {"got", "failed"}
  /\ listing' = [listing EXCEPT ![d] = NoList]
  /\ base' = [base EXCEPT ![d] =
                IF listing[d].at = "got" THEN listing[d].sight ELSE @]
  /\ LET gen == listing[d].sight.gen IN
     IF listing[d].why = "rekey" /\ gen \in {0} \cup DOMAIN blobs
     THEN /\ keyed' = [keyed EXCEPT ![d] = TRUE]
          /\ hash' = [hash EXCEPT ![d] = 0]
     ELSE UNCHANGED <<keyed, hash>>
  /\ UNCHANGED <<storeVars, enabled, local, conflict, running, await, reply,
                 wiping, netVars, budget>>

\* fetchAndDecrypt and restore of a generation whose file can be read.
Restore(d) ==
  /\ wiping[d] = "no"
  /\ DOMAIN blobs # {}
  /\ Move
  /\ keyed' = [keyed EXCEPT ![d] = TRUE]
  /\ local' = [local EXCEPT ![d] = @ + 1]
  /\ hash' = [hash EXCEPT ![d] = 0]
  /\ UNCHANGED <<storeVars, enabled, base, conflict, running, await,
                 replyVars, netVars>>

-----------------------------------------------------------------------------
(* The server: handleBackupPut and handleBackupDelete around the store.    *)

Answer(r, kind, sight) ==
  reply' = IF await[r.dev] = r.stamp
           THEN [reply EXCEPT ![r.dev] =
                   [kind |-> kind, sight |-> sight, ver |-> r.ver]]
           ELSE reply

\* The store refuses the base; the handler has unlocked by then.
PutRefused(r) ==
  /\ r \in net /\ ~r.refused
  /\ job.op = "free"
  /\ r.base.gen # 0 /\ Stale(r.base.gen)
  /\ net' = (net \ {r}) \cup {[r EXCEPT !.refused = TRUE]}
  /\ UNCHANGED <<storeVars, deviceVars, tickVars, replyVars, serving, stamps,
                 budget>>

\* It locks again to tell the caller the current generation.
ConflictReply(r) ==
  /\ r \in net /\ r.refused
  /\ job.op = "free"
  /\ net' = net \ {r}
  /\ Answer(r, "conflict", Seeing(Latest))
  /\ UNCHANGED <<storeVars, deviceVars, tickVars, listing, wiping, serving,
                 stamps, budget>>

PutAccepted(r) ==
  /\ r \in net /\ ~r.refused
  /\ r.base.gen = 0 \/ ~Stale(r.base.gen)
  /\ PutBlob(r.stamp)
  /\ serving' = r
  /\ UNCHANGED <<deviceVars, tickVars, replyVars, net, stamps, budget>>

PutGoesOn ==
  /\ PutIndex \/ Unlink
  /\ UNCHANGED <<deviceVars, tickVars, replyVars, netVars, budget>>

PutUnlinkFails ==
  /\ Fault("unlink")
  /\ UnlinkFails
  /\ UNCHANGED <<deviceVars, tickVars, replyVars, netVars>>

PutAnswered ==
  /\ PutReturns
  /\ Answer(serving, "ok", Seeing(job.entry))
  /\ net' = net \ {serving}
  /\ serving' = NoUpload
  /\ UNCHANGED <<deviceVars, tickVars, listing, wiping, stamps, budget>>

WipeServed(d) ==
  /\ wiping[d] = "sent"
  /\ WipeBegins
  /\ wiping' = [wiping EXCEPT ![d] = "served"]
  /\ UNCHANGED <<deviceVars, tickVars, reply, listing, netVars, budget>>

WipeGoesOn ==
  /\ WipeFile
  /\ UNCHANGED <<deviceVars, tickVars, replyVars, netVars, budget>>

Unserved == [d \in Devices |-> IF wiping[d] = "served" THEN "no" ELSE wiping[d]]

WipeAnswered ==
  /\ WipeReturns
  /\ wiping' = Unserved
  /\ UNCHANGED <<deviceVars, tickVars, reply, listing, netVars, budget>>

-----------------------------------------------------------------------------
(* What goes wrong.                                                        *)

\* The generation's file cannot be written: HTTP 500, nothing has changed.
BlobFails(r) ==
  /\ Fault("write")
  /\ job.op = "free" /\ ~r.refused
  /\ r.base.gen = 0 \/ ~Stale(r.base.gen)
  /\ Answer(r, "error", Never)
  /\ net' = net \ {r}
  /\ UNCHANGED <<storeVars, deviceVars, tickVars, listing, wiping, serving,
                 stamps>>

\* A later file operation fails, and the lock is released.
JobFails ==
  /\ Fault("write")
  /\ job.op \in {"index", "wipe"}
  /\ Abandon
  /\ IF serving # NoUpload
     THEN Answer(serving, "error", Never) ELSE UNCHANGED reply
  /\ net' = net \ {serving}
  /\ serving' = NoUpload
  /\ wiping' = Unserved
  /\ UNCHANGED <<deviceVars, tickVars, listing, stamps>>

\* The server dies and is started again: every request under way fails.
Crash ==
  /\ Fault("crash")
  /\ IF job.op = "free" THEN UNCHANGED storeVars ELSE Abandon
  /\ reply' = [d \in Devices |->
                 IF await[d] # 0 /\ reply[d] = NoReply
                 THEN [NoReply EXCEPT !.kind = "error"] ELSE reply[d]]
  /\ listing' = [d \in Devices |->
                   IF listing[d].at = "asked"
                   THEN [listing[d] EXCEPT !.at = "failed"] ELSE listing[d]]
  /\ wiping' = [d \in Devices |-> "no"]
  /\ net' = {}
  /\ serving' = NoUpload
  /\ UNCHANGED <<deviceVars, tickVars, stamps>>

\* The connection breaks: the device gets an error while the server goes on.
Disconnect(d) ==
  /\ Fault("network")
  /\ await[d] # 0
  /\ await' = [await EXCEPT ![d] = 0]
  /\ reply' = [reply EXCEPT ![d] = [NoReply EXCEPT !.kind = "error"]]
  /\ UNCHANGED <<storeVars, deviceVars, hash, base, conflict, running,
                 listing, wiping, netVars>>

ListFails(d) ==
  /\ Fault("network")
  /\ listing[d].at = "asked"
  /\ listing' = [listing EXCEPT ![d].at = "failed"]
  /\ UNCHANGED <<storeVars, deviceVars, tickVars, reply, wiping, netVars>>

\* The page is reloaded: the module's state is new and the key is gone; what
\* the old page sent is still served.
Reload(d) ==
  /\ Fault("reload")
  /\ keyed' = [keyed EXCEPT ![d] = FALSE]
  /\ hash' = [hash EXCEPT ![d] = 0]
  /\ base' = [base EXCEPT ![d] = Never]
  /\ conflict' = [conflict EXCEPT ![d] = FALSE]
  /\ running' = [running EXCEPT ![d] = FALSE]
  /\ await' = [await EXCEPT ![d] = 0]
  /\ reply' = [reply EXCEPT ![d] = NoReply]
  /\ listing' = [listing EXCEPT ![d] = NoList]
  /\ UNCHANGED <<storeVars, enabled, local, wiping, netVars>>

-----------------------------------------------------------------------------
UserStep(d) ==
  \/ Edit(d) \/ Enable(d) \/ Restore(d) \/ ResolveOverwrite(d)
  \/ \E w \in BOOLEAN : Disable(d, w)
  \/ \E why \in {"show", "rekey"} : List(d, why)

DeviceStep(d) == Tick(d) \/ TickAnswered(d) \/ ListAnswered(d)

\* One request handler of the server: the store's lock is fair, and only the
\* handler that has it goes on with the job.
UploadStep(d) ==
  \E r \in net : /\ r.dev = d
                 /\ PutRefused(r) \/ ConflictReply(r) \/ PutAccepted(r)
JobStep == PutGoesOn \/ PutAnswered \/ WipeGoesOn \/ WipeAnswered
ServerStep(d) == UploadStep(d) \/ ListServed(d) \/ WipeServed(d)

FaultStep ==
  \/ PutUnlinkFails \/ JobFails \/ Crash
  \/ \E d \in Devices : Disconnect(d) \/ ListFails(d) \/ Reload(d)
  \/ \E r \in net : BlobFails(r)

Next ==
  \/ \E d \in Devices : UserStep(d) \/ DeviceStep(d) \/ ServerStep(d)
  \/ JobStep
  \/ FaultStep

\* The browsers' event loops and timers run, the lock's holder goes on, and a
\* handler that waits for the lock gets it in the end (Go's mutexes are fair).
Fairness ==
  /\ WF_vars(JobStep)
  /\ \A d \in Devices : WF_vars(DeviceStep(d)) /\ SF_vars(ServerStep(d))

Spec == Init /\ [][Next]_vars
FairSpec == Spec /\ Fairness

=============================================================================
