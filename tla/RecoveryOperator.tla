-------------------------- MODULE RecoveryOperator --------------------------
(***************************************************************************)
(* The volume recovery operator of one node: two loops of one process that *)
(* delete workload pods. The "csi" loop does so after the node plugin's    *)
(* pod was replaced, the "scan" loop when a publish path is corrupted.     *)
(*                                                                         *)
(* Pods are pod UIDs and never come back. The node plugin's runs are       *)
(* numbered; a mount belongs to the run that made it and is corrupted once *)
(* a later run has begun. Time is left out: a cooldown that is recorded    *)
(* may expire at any moment.                                               *)
(***************************************************************************)
EXTENDS Naturals

CONSTANTS
  Pods,          \* pods of this node that use a volume of the driver
  NoPod,
  Workloads,     \* controller owners (RecoveryKey)
  WorkloadOf,
  Skipped,       \* ShouldSkipPod: pods without a controller, of kube-system or of the driver
  Restarts,      \* how the plugin restarts: its "pod" is replaced, or only its "container"
  Faults,        \* which requests may fail: "list" (pods), "lookup" (PVC, PV), "owner" (its GET),
                 \* "delete", "annotate"; a "read" of a mount may hang; others "end" pods
  MaxRuns,       \* bound: runs of the plugin
  MaxCrashes     \* bound: crashes of the operator

ASSUME ConstantsAssumption ==
  /\ NoPod \notin Pods
  /\ WorkloadOf \in [Pods -> Workloads]
  /\ Skipped \subseteq Pods
  /\ Restarts \subseteq {"pod", "container"}
  /\ Faults \subseteq {"list", "lookup", "owner", "delete", "annotate", "read", "end"}
  /\ MaxRuns \in Nat \ {0}
  /\ MaxCrashes \in Nat

VARIABLES
  live,          \* pods in the API
  born,          \* run of the plugin that a pod's containers are bound to; 0: not started yet
  path,          \* run that serves the pod's publish path on the host; 0: nothing mounted
  hung,          \* paths on which a read blocks
  run, uid,      \* the plugin: its current run, and the first run of its current pod
  pc, todo, cur, \* each loop: where it is, the pods ahead of it, the one it restarts
  stale, slow,   \* the scan's findings: corrupted, and probe timed out
  listed,        \* those findings whose pod is in the scan loop's list
  last, pending, \* CSINodeTracker.lastUID and pendingUID, as the pod's first run; 0: none
  recent,        \* Reconciler.lastRecovery: workloads within the cooldown
  noted,         \* workloads whose owner is annotated within the cooldown
  slot,          \* the timed probe that is still blocked
  hit, lapsed,   \* history: pods each loop deleted within the hour; those no record speaks of
  left, seed,    \* history: live pods a csi pass passed over; what the tracker was seeded with
  crashes

worldVars   == <<live, born, path, hung, run, uid>>
loopVars    == <<pc, todo, cur>>
scanVars    == <<stale, slow, listed>>
trackerVars == <<last, pending>>
limitVars   == <<recent, noted, hit, lapsed>>
missedVars  == <<left, seed>>
vars == <<worldVars, loopVars, scanVars, trackerVars, limitVars, missedVars, slot, crashes>>

-----------------------------------------------------------------------------
Loops   == {"csi", "scan"}
Working == {"delete", "annotate"}
PCs     == Working \cup {"idle", "ready", "probe", "list", "each"}
Runs    == 1 .. MaxRuns

TypeOK ==
  /\ live \subseteq Pods
  /\ born \in [Pods -> 0 .. MaxRuns]
  /\ path \in [Pods -> 0 .. MaxRuns]
  /\ hung \subseteq Pods
  /\ run \in Runs
  /\ uid \in 1 .. run
  /\ pc \in [Loops -> PCs]
  /\ todo \in [Loops -> SUBSET Pods]
  /\ cur \in [Loops -> Pods \cup {NoPod}]
  /\ \A l \in Loops : pc[l] \in Working => cur[l] \in Pods
  /\ stale \subseteq Pods
  /\ slow \subseteq Pods
  /\ listed \subseteq Pods
  /\ last \in 0 .. uid
  /\ pending \in 0 .. uid
  /\ recent \subseteq Workloads
  /\ noted \subseteq Workloads
  /\ slot \in Pods \cup {NoPod}
  /\ hit \in [Loops -> SUBSET Pods]
  /\ lapsed \subseteq Pods
  /\ left \subseteq live
  /\ seed \in 0 .. uid
  /\ crashes \in 0 .. MaxCrashes

Started == {p \in Pods : born[p] # 0}
Corrupted(p) == path[p] # 0 /\ path[p] < run
Current(l) == WorkloadOf[cur[l]]
PodsOf(w) == {p \in Pods : WorkloadOf[p] = w}
Deleted == hit["csi"] \cup hit["scan"]

Init ==
  /\ live = {}
  /\ born = [p \in Pods |-> 0]
  /\ path = [p \in Pods |-> 0]
  /\ hung = {}
  /\ run = 1
  /\ uid = 1
  /\ pc = [l \in Loops |-> "idle"]
  /\ todo = [l \in Loops |-> {}]
  /\ cur = [l \in Loops |-> NoPod]
  /\ stale = {}
  /\ slow = {}
  /\ listed = {}
  /\ last = 0
  /\ pending = 0
  /\ recent = {}
  /\ noted = {}
  /\ slot = NoPod
  /\ hit = [l \in Loops |-> {}]
  /\ lapsed = {}
  /\ left = {}
  /\ seed = 0
  /\ crashes = 0

-----------------------------------------------------------------------------
(* The node. A controller may create a pod at any time; it is modelled     *)
(* from its publish on.                                                    *)
StartPod(p) ==
  /\ p \notin Started
  /\ live' = live \cup {p}
  /\ born' = [born EXCEPT ![p] = run]
  /\ path' = [path EXCEPT ![p] = run]
  /\ UNCHANGED <<hung, run, uid, loopVars, scanVars, trackerVars, limitVars, missedVars, slot, crashes>>

(* Someone else deletes the pod.                                           *)
PodEnds(p) ==
  /\ "end" \in Faults
  /\ p \in live
  /\ live' = live \ {p}
  /\ left' = left \ {p}
  /\ UNCHANGED <<born, path, hung, run, uid, loopVars, scanVars, trackerVars, limitVars, seed, slot, crashes>>

(* Kubelet unpublishes the volume of a pod that is gone; it may never get  *)
(* to it.                                                                  *)
KubeletCleans(p) ==
  /\ p \notin live \cup hung
  /\ path[p] # 0
  /\ path' = [path EXCEPT ![p] = 0]
  /\ UNCHANGED <<live, born, hung, run, uid, loopVars, scanVars, trackerVars, limitVars, missedVars, slot, crashes>>

(* The plugin dies, with all it serves, and starts again: in a new pod, or *)
(* in the same pod, whose UID then stays. Blocked reads return.            *)
RestartPlugin(kind) ==
  /\ run < MaxRuns
  /\ run' = run + 1
  /\ uid' = IF kind = "pod" THEN run' ELSE uid
  /\ hung' = {}
  /\ UNCHANGED <<live, born, path, loopVars, scanVars, trackerVars, limitVars, missedVars, slot, crashes>>

(* The boot remount of a saved path, or kubelet's next publish: the host   *)
(* path is healthy again, the containers keep the mount they were given.   *)
Remount(p) ==
  /\ Corrupted(p)
  /\ path' = [path EXCEPT ![p] = run]
  /\ UNCHANGED <<live, born, hung, run, uid, loopVars, scanVars, trackerVars, limitVars, missedVars, slot, crashes>>

Hang(p) ==
  /\ "read" \in Faults
  /\ path[p] = run
  /\ p \notin hung
  /\ hung' = hung \cup {p}
  /\ UNCHANGED <<live, born, path, run, uid, loopVars, scanVars, trackerVars, limitVars, missedVars, slot, crashes>>

Unhang(p) ==
  /\ p \in hung
  /\ hung' = hung \ {p}
  /\ UNCHANGED <<live, born, path, run, uid, loopVars, scanVars, trackerVars, limitVars, missedVars, slot, crashes>>

(* Variant: entries of lastRecovery are never pruned.                      *)
ExpireAnnotation(w) ==
  /\ w \in noted
  /\ noted' = noted \ {w}
  /\ UNCHANGED <<worldVars, loopVars, scanVars, trackerVars, recent, hit, lapsed, missedVars, slot, crashes>>

(* An hour has passed since the pass that last recovered the workload.     *)
Expire(w) ==
  /\ w \in recent \cup noted \/ PodsOf(w) \cap Deleted # {}
  /\ recent' = recent \ {w}
  /\ noted' = noted \ {w}
  /\ hit' = [l \in Loops |-> hit[l] \ PodsOf(w)]
  /\ lapsed' = lapsed \ PodsOf(w)
  /\ UNCHANGED <<worldVars, loopVars, scanVars, trackerVars, missedVars, slot, crashes>>

-----------------------------------------------------------------------------
Goto(l, from, to) ==
  /\ pc[l] = from
  /\ pc' = [pc EXCEPT ![l] = to]

(* The pods ahead of a loop that has listed them.                          *)
Ahead(l) == IF l = "csi" THEN todo["csi"] ELSE stale \cup slow

Drop(l, p) ==
  /\ p \in Ahead(l)
  /\ IF l = "csi"
     THEN /\ todo' = [todo EXCEPT !["csi"] = @ \ {p}]
          /\ UNCHANGED scanVars
     ELSE /\ stale' = stale \ {p}
          /\ slow' = slow \ {p}
          /\ listed' = listed \ {p}
          /\ UNCHANGED todo

(* The newest plugin pod of the node, as its first run.                    *)
NewestPod == uid

(* CheckRestarted, when its list succeeds. The first pod it sees counts as *)
(* known, whatever it has left behind.                                     *)
Seed ==
  /\ pc["csi"] = "idle"
  /\ last = 0
  /\ last' = NewestPod
  /\ seed' = NewestPod
  /\ UNCHANGED <<worldVars, loopVars, scanVars, pending, limitVars, left, slot, crashes>>

Detect ==
  /\ Goto("csi", "idle", "ready")
  /\ last # 0
  /\ last # NewestPod
  /\ pending' = NewestPod
  /\ UNCHANGED <<worldVars, todo, cur, scanVars, last, limitVars, missedVars, slot, crashes>>

(* Returns when the new pod is Ready and, as well, when it is not in time. *)
WaitUntilReady ==
  /\ Goto("csi", "ready", "list")
  /\ UNCHANGED <<worldVars, todo, cur, scanVars, trackerVars, limitVars, missedVars, slot, crashes>>

(* Variant: what was detected is not kept, the newest pod is taken for it. *)
AcknowledgeNewest ==
  /\ Goto("csi", "each", "idle")
  /\ todo["csi"] = {}
  /\ last' = NewestPod
  /\ pending' = 0
  /\ UNCHANGED <<worldVars, todo, cur, scanVars, limitVars, missedVars, slot, crashes>>

(* The pass is over and the restart acknowledged, whatever became of its   *)
(* pods.                                                                   *)
AcknowledgeRestart ==
  /\ Goto("csi", "each", "idle")
  /\ todo["csi"] = {}
  /\ last' = pending
  /\ pending' = 0
  /\ UNCHANGED <<worldVars, todo, cur, scanVars, limitVars, missedVars, slot, crashes>>

-----------------------------------------------------------------------------
(* ScanStaleMounts: the paths found at the start, one after the other.     *)
BeginScan ==
  /\ Goto("scan", "idle", "probe")
  /\ todo' = [todo EXCEPT !["scan"] = {p \in Pods : path[p] # 0}]
  /\ todo'["scan"] # {}
  /\ UNCHANGED <<worldVars, cur, scanVars, trackerVars, limitVars, missedVars, slot, crashes>>

(* Variant: the probe has no timeout.                                      *)
AnswersUnbounded(p) ==
  IF p \in hung /\ path[p] # 0 THEN {} ELSE IF Corrupted(p) THEN {"corrupted"} ELSE {"healthy"}

(* probeMountPathWithTimeout, once it has the slot: a read of a healthy    *)
(* mount may be slow, one of a corrupted mount fails at once.              *)
Answers(p) ==
  IF p \in hung /\ path[p] # 0 THEN {"timeout"}
  ELSE IF Corrupted(p) THEN {"corrupted"} ELSE {"healthy", "timeout"}

(* One timer bounds both the wait for the slot and the probe.              *)
ProbeAnswers(p) ==
  IF slot = NoPod THEN Answers(p)
  ELSE {"unavailable"} \cup (IF slot \in hung THEN {} ELSE Answers(p) \cup {"timeout"})

(* A probe that timed out keeps the slot until its read returns.           *)
SlotAfter(p, answer) ==
  IF answer = "timeout" THEN p
  ELSE IF answer = "unavailable" THEN slot ELSE NoPod

Probe(p, answer) ==
  /\ pc["scan"] = "probe"
  /\ p \in todo["scan"]
  /\ answer \in ProbeAnswers(p)
  /\ todo' = [todo EXCEPT !["scan"] = @ \ {p}]
  /\ stale' = IF answer = "corrupted" THEN stale \cup {p} ELSE stale
  /\ slow'  = IF answer = "timeout" THEN slow \cup {p} ELSE slow
  /\ slot'  = SlotAfter(p, answer)
  /\ UNCHANGED <<worldVars, pc, cur, listed, trackerVars, limitVars, missedVars, crashes>>

ProbeEnds ==
  /\ slot # NoPod
  /\ slot \notin hung
  /\ slot' = NoPod
  /\ UNCHANGED <<worldVars, loopVars, scanVars, trackerVars, limitVars, missedVars, crashes>>

ScanDone ==
  /\ Goto("scan", "probe", IF stale \cup slow = {} THEN "idle" ELSE "list")
  /\ todo["scan"] = {}
  /\ UNCHANGED <<worldVars, todo, cur, scanVars, trackerVars, limitVars, missedVars, slot, crashes>>

(* A path whose pod is not in the list: resolve its FUSE connection,       *)
(* detach it, abort the connection, which ends the reads blocked on it.    *)
UmountOrphan(p) ==
  /\ pc["scan"] = "each"
  /\ p \notin listed
  /\ Drop("scan", p)
  /\ \/ /\ path' = [path EXCEPT ![p] = 0]
        /\ hung' \in {hung, hung \ {p}}
     \/ UNCHANGED <<path, hung>>
  /\ UNCHANGED <<live, born, run, uid, pc, cur, trackerVars, limitVars, missedVars, slot, crashes>>

(* A path that is stale and probed again just before the restart. One      *)
(* whose probe timed out in the scan is not: it counts as not corrupted.   *)
Confirm(p, answer) ==
  /\ p \in stale
  /\ answer \in ProbeAnswers(p)
  /\ slot' = SlotAfter(p, answer)

ScanOver ==
  /\ Goto("scan", "each", "idle")
  /\ Ahead("scan") = {}
  /\ UNCHANGED <<worldVars, todo, cur, scanVars, trackerVars, limitVars, missedVars, slot, crashes>>

-----------------------------------------------------------------------------
(* Both loops: list the pods of the node, then take one after the other.   *)
ListTo(l, pods) ==
  IF l = "csi"
  THEN /\ todo' = [todo EXCEPT !["csi"] = pods]
       /\ UNCHANGED listed
  ELSE /\ listed' = pods \cap Ahead("scan")
       /\ UNCHANGED todo

(* Variant: an error of the list is taken for an empty list.               *)
ListPodsIgnoringError(l) ==
  /\ Goto(l, "list", "each")
  /\ ListTo(l, live) \/ ListTo(l, {})
  /\ UNCHANGED <<worldVars, cur, stale, slow, trackerVars, limitVars, missedVars, slot, crashes>>

ListPods(l) ==
  /\ Goto(l, "list", "each")
  /\ ListTo(l, live)
  /\ UNCHANGED <<worldVars, cur, stale, slow, trackerVars, limitVars, missedVars, slot, crashes>>

(* The list failed: the pass ends, and a restart is not acknowledged.      *)
ListFails(l) ==
  /\ "list" \in Faults
  /\ Goto(l, "list", "idle")
  /\ stale' = IF l = "scan" THEN {} ELSE stale
  /\ slow'  = IF l = "scan" THEN {} ELSE slow
  /\ UNCHANGED <<worldVars, todo, cur, listed, trackerVars, limitVars, missedVars, slot, crashes>>

(* A look-up that fails makes a volume look like another driver's.         *)
SeemsForeign == "lookup" \in Faults

(* isRateLimited. The owner's annotation does not count if its GET fails.  *)
MayBeLimited(p) == WorkloadOf[p] \in recent \cup noted
MayBeFree(p) ==
  /\ WorkloadOf[p] \notin recent
  /\ WorkloadOf[p] \in noted => "owner" \in Faults

ShouldSkipPod(p) == p \in Skipped

(* What makes either loop leave a pod that it has listed.                  *)
MayBeLeft(p) == ShouldSkipPod(p) \/ SeemsForeign \/ MayBeLimited(p)

CsiPassesOver(p) ==
  /\ pc["csi"] = "each"
  /\ Drop("csi", p)
  /\ MayBeLeft(p)
  /\ left' = left \cup (live \cap {p})
  /\ UNCHANGED <<worldVars, pc, cur, trackerVars, limitVars, seed, slot, crashes>>

(* The scan loop also leaves a pod whose path is not (or no longer)        *)
(* corrupted.                                                              *)
ScanPassesOver(p) ==
  /\ pc["scan"] = "each"
  /\ p \in listed
  /\ Drop("scan", p)
  /\ \/ MayBeLeft(p) /\ UNCHANGED slot
     \/ /\ ~ShouldSkipPod(p) /\ MayBeFree(p)
        /\ \/ p \notin stale /\ UNCHANGED slot
           \/ \E a \in {"healthy", "unavailable"} : Confirm(p, a)
  /\ UNCHANGED <<worldVars, pc, cur, trackerVars, limitVars, missedVars, crashes>>

(* The loop goes on to restartPod. Where an annotation counts but cannot   *)
(* be read, the record of the workload's deletes is as good as lost.       *)
Take(l, p) ==
  /\ Goto(l, "each", "delete")
  /\ ~ShouldSkipPod(p)
  /\ Drop(l, p)
  /\ cur' = [cur EXCEPT ![l] = p]
  /\ lapsed' = IF WorkloadOf[p] \in noted \ recent
               THEN lapsed \cup (Deleted \cap PodsOf(WorkloadOf[p])) ELSE lapsed
  /\ UNCHANGED <<worldVars, trackerVars, recent, noted, hit, missedVars, crashes>>

(* Variant: the rate limit is not looked at.                               *)
CsiTakesUpAnyway(p) == Take("csi", p) /\ UNCHANGED slot

CsiTakesUp(p) ==
  /\ Take("csi", p)
  /\ MayBeFree(p)
  /\ UNCHANGED slot

ScanTakesUp(p) ==
  /\ Take("scan", p)
  /\ MayBeFree(p)
  /\ p \in listed
  /\ \E a \in {"corrupted", "timeout"} : Confirm(p, a)

(* restartPod: the delete names the UID that was listed. A pod that is     *)
(* gone counts as restarted. The mark follows the answer at once: another  *)
(* loop's check in between would read what it reads before the delete.     *)
DeletePod(l) ==
  /\ Goto(l, "delete", "annotate")
  /\ live' = live \ {cur[l]}
  /\ left' = left \ {cur[l]}
  /\ recent' = recent \cup {Current(l)}
  /\ hit' = [hit EXCEPT ![l] = @ \cup (live \ live')]
  /\ UNCHANGED <<born, path, hung, run, uid, todo, cur, scanVars, trackerVars, noted, lapsed, seed, slot,
                 crashes>>

(* Variant: the error does not end the restart of the pod.                 *)
DeleteErrorIgnored(l) ==
  /\ Goto(l, "delete", "annotate")
  /\ cur' = [cur EXCEPT ![l] = NoPod]
  /\ "delete" \in Faults
  /\ UNCHANGED <<worldVars, todo, scanVars, trackerVars, limitVars, missedVars, slot, crashes>>

(* The request failed, or the name now belongs to another pod: logged, on  *)
(* with the next one. A delete that was served all the same is marked      *)
(* nowhere.                                                                *)
DeleteFails(l) ==
  /\ Goto(l, "delete", "each")
  /\ cur' = [cur EXCEPT ![l] = NoPod]
  /\ \/ "delete" \in Faults /\ live' \in {live, live \ {cur[l]}}
     \/ cur[l] \notin live /\ UNCHANGED live
  /\ left' = IF l = "csi" THEN live' \cap (left \cup {cur[l]}) ELSE left \cap live'
  /\ hit' = [hit EXCEPT ![l] = @ \cup (live \ live')]
  /\ lapsed' = lapsed \cup (live \ live')
  /\ UNCHANGED <<born, path, hung, run, uid, todo, scanVars, trackerVars, recent, noted, seed, slot, crashes>>

(* If it fails, an annotation of an earlier restart stays, or is over      *)
(* before the hour is.                                                     *)
AnnotateOwner(l) ==
  /\ Goto(l, "annotate", "each")
  /\ cur' = [cur EXCEPT ![l] = NoPod]
  /\ \/ noted' = noted \cup {Current(l)}
     \/ "annotate" \in Faults /\ noted' \in {noted, noted \ {Current(l)}}
  /\ UNCHANGED <<worldVars, todo, scanVars, trackerVars, recent, hit, lapsed, missedVars, slot, crashes>>

(* The operator dies. Only the annotations remain, and what it has asked   *)
(* for may still be done.                                                  *)
CrashOperator ==
  /\ crashes < MaxCrashes
  /\ crashes' = crashes + 1
  /\ \E sent \in SUBSET {l \in Loops : pc[l] = "delete"} :
       /\ live' = live \ {cur[l] : l \in sent}
       /\ hit' = [l \in Loops |-> IF l \in sent THEN hit[l] \cup (live \cap {cur[l]}) ELSE hit[l]]
  /\ lapsed' = lapsed \cup {p \in hit'["csi"] \cup hit'["scan"] : WorkloadOf[p] \notin noted}
  /\ pc' = [l \in Loops |-> "idle"]
  /\ todo' = [l \in Loops |-> {}]
  /\ cur' = [l \in Loops |-> NoPod]
  /\ stale' = {}
  /\ slow' = {}
  /\ listed' = {}
  /\ last' = 0
  /\ pending' = 0
  /\ recent' = {}
  /\ slot' = NoPod
  /\ left' = {}
  /\ seed' = 0
  /\ UNCHANGED <<born, path, hung, run, uid, noted>>

-----------------------------------------------------------------------------
NodeStep ==
  \/ \E p \in Pods : \/ StartPod(p) \/ PodEnds(p) \/ KubeletCleans(p)
                     \/ Remount(p) \/ Hang(p) \/ Unhang(p)
  \/ \E kind \in Restarts : RestartPlugin(kind)

RestartStep(l) ==
  \/ ListPods(l) \/ ListFails(l)
  \/ DeletePod(l) \/ DeleteFails(l) \/ AnnotateOwner(l)

CsiStep ==
  \/ Seed \/ Detect \/ WaitUntilReady \/ RestartStep("csi") \/ AcknowledgeRestart
  \/ \E p \in Pods : CsiPassesOver(p) \/ CsiTakesUp(p)

ScanStep ==
  \/ BeginScan \/ ScanDone \/ RestartStep("scan") \/ ScanOver
  \/ \E p \in Pods : \/ \E a \in {"healthy", "corrupted", "timeout", "unavailable"} : Probe(p, a)
                     \/ UmountOrphan(p) \/ ScanPassesOver(p) \/ ScanTakesUp(p)

Next ==
  \/ NodeStep
  \/ CsiStep
  \/ ScanStep
  \/ ProbeEnds
  \/ \E w \in Workloads : Expire(w)
  \/ CrashOperator

Spec == Init /\ [][Next]_vars

(* Both loops' goroutines run and their timers expire, reads that are not  *)
(* blocked return, and time passes.                                        *)
LiveSpec ==
  /\ Spec
  /\ WF_vars(CsiStep) /\ WF_vars(ScanStep)
  /\ WF_vars(ProbeEnds)
  /\ \A w \in Workloads : WF_vars(Expire(w))

-----------------------------------------------------------------------------
(* The rate limit, with both loops reconciling at once and the operator    *)
(* dying in between: a loop deletes a second pod of a workload within the  *)
(* hour only when the record of the earlier delete is lost: its reply was, *)
(* or the operator died before the owner's annotation, or could not read   *)
(* it.                                                                     *)
OncePerLoop ==
  \A l \in Loops : \A p, q \in hit[l] :
    WorkloadOf[p] = WorkloadOf[q] => p = q \/ {p, q} \cap lapsed # {}

(* "at most one recovery delete per workload per hour" (the operator's     *)
(* README.md:52): the loops' limit is checked and marked in two critical   *)
(* sections, with the delete between them (restartPod, isRateLimited).     *)
OneDeletePerHour == \A p, q \in Deleted : WorkloadOf[p] = WorkloadOf[q] => p = q

(* A pod still bound to a run of the plugin before the one the tracker     *)
(* takes for handled was passed over by a csi pass (skipped, rate limit,   *)
(* failed delete or look-up), or was stale already when the tracker was    *)
(* seeded. None is missed because the plugin restarted, or pods came and   *)
(* went, while a pass was under way.                                       *)
MissedIsKnown == \A p \in live : born[p] < last => p \in left \/ born[p] < seed

(* maybeLazyUmountOrphan: nothing is detached at a path whose pod is still *)
(* there, although paths and pods are looked up at different times.        *)
LivePathKept == [][\A p \in live : path[p] # 0 => path'[p] # 0]_vars

(* "Mount probe timeout avoids permanent wedging": a scan ends even if a   *)
(* read of some path never returns.                                        *)
ScanReturns == pc["scan"] # "idle" ~> pc["scan"] = "idle"

(* Once probes do not outlive their timeout any more, a live pod that is   *)
(* not skipped does not keep a corrupted path: the pod goes or the path    *)
(* comes back.                                                             *)
CorruptedRecovered ==
  <>[](slot = NoPod) =>
    \A p \in Pods \ Skipped : p \in live /\ Corrupted(p) ~> p \notin live \/ ~Corrupted(p)

(* "the operator is required for automated recovery" when the kubelet path *)
(* is healthy and the container's bind is stale, "After CSI driver         *)
(* OOM/restart" (docs/mount-recovery.md:92, 112).                          *)
StaleBindRecovered ==
  \A p \in Pods \ Skipped : p \in live /\ born[p] < run ~> p \notin live
=============================================================================
