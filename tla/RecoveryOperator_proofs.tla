----------------------- MODULE RecoveryOperator_proofs -----------------------
(* Proofs about the recovery operator, for any pods, workloads and bounds. *)
EXTENDS RecoveryOperator, TLAPS

USE DEF worldVars, loopVars, scanVars, trackerVars, limitVars, missedVars

(* Every variable keeps its type.                                          *)
LEMMA TypeInit == Init => TypeOK
  BY ConstantsAssumption DEF Init, TypeOK, PCs, Working, Loops, Runs

LEMMA TypeNode == TypeOK /\ NodeStep => TypeOK'
<1> SUFFICES ASSUME TypeOK, NodeStep PROVE TypeOK'
  OBVIOUS
<1> USE ConstantsAssumption DEF TypeOK, Runs
<1>1. ASSUME NEW p \in Pods, StartPod(p) PROVE TypeOK'
  BY <1>1 DEF StartPod
<1>2. ASSUME NEW p \in Pods, PodEnds(p) PROVE TypeOK'
  BY <1>2 DEF PodEnds
<1>3. ASSUME NEW p \in Pods, KubeletCleans(p) PROVE TypeOK'
  BY <1>3 DEF KubeletCleans
<1>4. ASSUME NEW p \in Pods, Remount(p) PROVE TypeOK'
  BY <1>4 DEF Remount
<1>5. ASSUME NEW p \in Pods, Hang(p) \/ Unhang(p) PROVE TypeOK'
  BY <1>5 DEF Hang, Unhang
<1>6. ASSUME NEW kind \in Restarts, RestartPlugin(kind) PROVE TypeOK'
  BY <1>6 DEF RestartPlugin
<1> QED BY <1>1, <1>2, <1>3, <1>4, <1>5, <1>6 DEF NodeStep

LEMMA TypeRestart ==
  ASSUME TypeOK, NEW l \in Loops, RestartStep(l)
  PROVE  TypeOK'
<1> USE ConstantsAssumption DEF TypeOK, Runs, PCs, Working, Loops
<1>1. CASE ListPods(l)
  BY <1>1 DEF ListPods, ListTo, Goto
<1>2. CASE ListFails(l)
  BY <1>2 DEF ListFails, Goto
<1>3. CASE DeletePod(l)
  BY <1>3 DEF DeletePod, Goto, Current
<1>4. CASE DeleteFails(l)
  BY <1>4 DEF DeleteFails, Goto
<1>5. CASE AnnotateOwner(l)
  BY <1>5 DEF AnnotateOwner, Goto, Current
<1> QED BY <1>1, <1>2, <1>3, <1>4, <1>5 DEF RestartStep

LEMMA TypeLeave ==
  ASSUME TypeOK, NEW p \in Pods, CsiPassesOver(p) \/ ScanPassesOver(p)
  PROVE  TypeOK'
<1> USE DEF TypeOK, Loops
<1>1. CASE CsiPassesOver(p)
  BY <1>1 DEF CsiPassesOver, Drop
<1>2. CASE ScanPassesOver(p)
  <2>1. slot' \in Pods \cup {NoPod}
    BY <1>2 DEF ScanPassesOver, Confirm, SlotAfter
  <2> QED BY <1>2, <2>1 DEF ScanPassesOver, Drop
<1> QED BY <1>1, <1>2

LEMMA TypeTake ==
  ASSUME TypeOK, NEW p \in Pods, CsiTakesUp(p) \/ ScanTakesUp(p)
  PROVE  TypeOK'
<1> USE DEF TypeOK, Loops, PCs, Working
<1>1. lapsed' \subseteq Pods
  BY DEF CsiTakesUp, ScanTakesUp, Take, Deleted
<1>2. CASE CsiTakesUp(p)
  BY <1>1, <1>2 DEF CsiTakesUp, Take, Drop, Goto
<1>3. CASE ScanTakesUp(p)
  <2>1. slot' \in Pods \cup {NoPod}
    BY <1>3 DEF ScanTakesUp, Confirm, SlotAfter
  <2> QED BY <1>1, <1>3, <2>1 DEF ScanTakesUp, Take, Drop, Goto
<1> QED BY <1>2, <1>3

LEMMA TypeStep == TypeOK /\ [Next]_vars => TypeOK'
<1> SUFFICES ASSUME TypeOK, [Next]_vars PROVE TypeOK'
  OBVIOUS
<1> USE ConstantsAssumption
<1>1. CASE NodeStep
  BY <1>1, TypeNode
<1>2. CASE CsiStep
  <2>1. CASE RestartStep("csi")
    BY <2>1, TypeRestart DEF Loops
  <2>2. CASE Seed
    BY <2>2 DEF Seed, NewestPod, TypeOK
  <2>3. CASE Detect
    BY <2>3 DEF Detect, NewestPod, Goto, TypeOK, Loops, PCs, Working
  <2>4. CASE WaitUntilReady
    BY <2>4 DEF WaitUntilReady, Goto, TypeOK, Loops, PCs, Working
  <2>5. CASE AcknowledgeRestart
    BY <2>5 DEF AcknowledgeRestart, Goto, TypeOK, Loops, PCs, Working
  <2> QED BY <1>2, <2>1, <2>2, <2>3, <2>4, <2>5, TypeLeave, TypeTake DEF CsiStep
<1>3. CASE ScanStep
  <2>1. CASE RestartStep("scan")
    BY <2>1, TypeRestart DEF Loops
  <2>2. CASE BeginScan \/ ScanDone \/ ScanOver
    BY <2>2 DEF BeginScan, ScanDone, ScanOver, Goto, TypeOK, Loops, PCs, Working
  <2>3. ASSUME NEW p \in Pods, NEW a, Probe(p, a) PROVE TypeOK'
    BY <2>3 DEF Probe, SlotAfter, TypeOK
  <2>4. ASSUME NEW p \in Pods, UmountOrphan(p) PROVE TypeOK'
    BY <2>4 DEF UmountOrphan, Drop, TypeOK
  <2> QED BY <1>3, <2>1, <2>2, <2>3, <2>4, TypeLeave, TypeTake DEF ScanStep
<1>4. CASE ProbeEnds
  BY <1>4 DEF ProbeEnds, TypeOK
<1>5. ASSUME NEW w \in Workloads, Expire(w) PROVE TypeOK'
  BY <1>5 DEF Expire, TypeOK
<1>6. CASE CrashOperator
  <2>1. /\ live' \subseteq live
        /\ hit' \in [Loops -> SUBSET Pods]
    BY <1>6 DEF CrashOperator, TypeOK
  <2>2. lapsed' \subseteq Pods
    BY <1>6, <2>1 DEF CrashOperator, TypeOK, Loops
  <2> QED BY <1>6, <2>1, <2>2 DEF CrashOperator, TypeOK, Loops, PCs, Working
<1>7. CASE UNCHANGED vars
  BY <1>7 DEF vars, TypeOK
<1> QED BY <1>1, <1>2, <1>3, <1>4, <1>5, <1>6, <1>7 DEF Next

(* The operator's state and the node's keep their types.                   *)
THEOREM TypeCorrect == Spec => []TypeOK
  BY TypeInit, TypeStep, PTL DEF Spec

-----------------------------------------------------------------------------
(* What limits a loop: each pod it deleted within the hour has a record,   *)
(* or the record is known to be lost; and it is not about to delete        *)
(* another pod of a workload of which it has deleted one on record.        *)
Recorded == \A l \in Loops : \A p \in hit[l] : p \in lapsed \/ WorkloadOf[p] \in recent \cup noted

Restrained ==
  \A l \in Loops : pc[l] = "delete" =>
    \A p \in hit[l] : WorkloadOf[p] = Current(l) => p \in lapsed

(* The owner's annotation can fail without loss: memory has the record.    *)
Remembered ==
  \A l \in Loops : pc[l] = "annotate" =>
    Current(l) \in recent \/ (\A p \in Deleted : WorkloadOf[p] = Current(l) => p \in lapsed)

Marked == Recorded /\ Restrained /\ Remembered /\ OncePerLoop

(* While a pass is under way, the live pods from before the restart it     *)
(* recovers are ahead of it, taken up or passed over, or were stale before *)
(* the operator came.                                                      *)
Accounted ==
  pc["csi"] \in Working \cup {"each"} =>
    \A p \in live : born[p] < pending =>
      \/ p \in todo["csi"] \cup left
      \/ pc["csi"] = "delete" /\ p = cur["csi"]
      \/ born[p] < seed

(* What the scan found belongs to a pod that has been started, and to one  *)
(* that is gone unless it is among the listed ones.                        *)
Found ==
  /\ \A p \in live \cup todo["scan"] \cup stale \cup slow : born[p] # 0
  /\ \A p \in Pods : path[p] # 0 => born[p] # 0
  /\ pc["scan"] \in Working \cup {"each"} => (stale \cup slow) \cap live \subseteq listed

IInv == TypeOK /\ Marked /\ Accounted /\ MissedIsKnown /\ Found

LEMMA InitIInv == Init => IInv
  BY TypeInit DEF Init, IInv, Marked, Recorded, Restrained, Remembered, OncePerLoop, Accounted, MissedIsKnown, Found, Working, Loops

(* The steps that leave the operator's passes alone.                       *)
Outside == NodeStep \/ ProbeEnds \/ UNCHANGED vars

LEMMA OutsideKeeps ==
  ASSUME Outside
  PROVE  UNCHANGED <<loopVars, scanVars, trackerVars, limitVars, seed>>
  BY DEF Outside, NodeStep, StartPod, PodEnds, KubeletCleans, Remount, Hang, Unhang,
         RestartPlugin, ProbeEnds, vars

(* A loop that takes up a pod has found no record of its workload, or only *)
(* one that it could not read.                                             *)
LEMMA MarkedTake ==
  ASSUME TypeOK, Marked, NEW l \in Loops, NEW q \in Pods, Take(l, q), MayBeFree(q)
  PROVE  Marked'
<1> USE DEF Marked, Recorded, Restrained, Remembered, OncePerLoop, TypeOK, Take, Goto
<1>1. UNCHANGED <<recent, noted, hit>> /\ lapsed \subseteq lapsed'
  OBVIOUS
<1>2. \A p \in hit[l] : WorkloadOf[p] = WorkloadOf[q] => p \in lapsed'
  <2> SUFFICES ASSUME NEW p \in hit[l], WorkloadOf[p] = WorkloadOf[q], p \notin lapsed
               PROVE  p \in lapsed'
    BY <1>1
  <2>1. WorkloadOf[q] \in noted \ recent
    BY DEF MayBeFree
  <2>2. p \in Deleted \cap PodsOf(WorkloadOf[q])
    BY DEF Deleted, PodsOf, Loops
  <2> QED BY <2>1, <2>2
<1>3. Current(l)' = WorkloadOf[q]
  BY DEF Current
<1>4. \A k \in Loops : k # l => pc'[k] = pc[k] /\ cur'[k] = cur[k]
  OBVIOUS
<1>5. Recorded' /\ OncePerLoop'
  BY <1>1
<1>6. Restrained'
  BY <1>1, <1>2, <1>3, <1>4 DEF Current
<1>7. Remembered'
  <2>1. pc'[l] # "annotate" /\ Deleted' = Deleted
    BY <1>1 DEF Deleted
  <2> QED BY <1>1, <1>4, <2>1 DEF Current
<1> QED BY <1>5, <1>6, <1>7

(* A pod that is deleted is one its loop was free to delete; if the reply  *)
(* comes it is on record, if not it is known to be lost.                   *)
LEMMA MarkedDelete ==
  ASSUME TypeOK, Marked, NEW l \in Loops, DeletePod(l) \/ DeleteFails(l)
  PROVE  Marked'
<1> USE DEF Marked, Recorded, Restrained, Remembered, OncePerLoop, TypeOK, Goto
<1>1. /\ pc[l] = "delete" /\ pc'[l] # "delete" /\ UNCHANGED noted
      /\ \A k \in Loops : k # l => pc'[k] = pc[k] /\ cur'[k] = cur[k] /\ hit'[k] = hit[k]
      /\ recent \subseteq recent' /\ lapsed \subseteq lapsed'
    BY DEF DeletePod, DeleteFails
<1>2. hit'[l] \subseteq hit[l] \cup {cur[l]}
  BY DEF DeletePod, DeleteFails
<1>3. \A p \in hit'[l] \ hit[l] : p \in lapsed' \/ WorkloadOf[p] \in recent'
  BY DEF DeletePod, DeleteFails, Current
<1>4. \A p \in hit[l] : WorkloadOf[p] = WorkloadOf[cur[l]] => p \in lapsed
  BY <1>1 DEF Current
<1>5. Recorded'
  BY <1>1, <1>3
<1>6. Restrained'
  BY <1>1 DEF Current
<1>7. OncePerLoop'
  <2> SUFFICES ASSUME NEW k \in Loops, NEW p \in hit'[k], NEW q \in hit'[k],
                      WorkloadOf[p] = WorkloadOf[q], p # q
               PROVE  {p, q} \cap lapsed' # {}
    OBVIOUS
  <2>1. CASE k # l
    BY <1>1, <2>1
  <2>2. CASE k = l
    BY <1>1, <1>2, <1>4, <2>2
  <2> QED BY <2>1, <2>2
<1>8. Remembered'
  <2>1. \A p \in Deleted' : p \in Deleted \/ p \in lapsed' \/ WorkloadOf[p] \in recent'
    BY <1>1, <1>3 DEF Deleted, Loops
  <2>2. pc'[l] = "annotate" => Current(l)' \in recent'
    BY DEF DeletePod, DeleteFails, Current
  <2> QED BY <1>1, <2>1, <2>2 DEF Current
<1> QED BY <1>5, <1>6, <1>7, <1>8

(* A crash takes the records in memory, and adds the pods that had been    *)
(* asked for.                                                              *)
LEMMA MarkedCrash ==
  ASSUME TypeOK, Marked, CrashOperator
  PROVE  Marked'
<1> USE DEF Marked, Recorded, Restrained, Remembered, OncePerLoop, TypeOK, Loops
<1>1. PICK sent \in SUBSET {l \in Loops : pc[l] = "delete"} :
        hit' = [l \in Loops |-> IF l \in sent THEN hit[l] \cup (live \cap {cur[l]}) ELSE hit[l]]
  BY DEF CrashOperator
<1>2. lapsed' = lapsed \cup {p \in hit'["csi"] \cup hit'["scan"] : WorkloadOf[p] \notin noted}
  BY DEF CrashOperator
<1>3. Recorded'
  BY <1>2 DEF CrashOperator
<1>4. Restrained'
  BY DEF CrashOperator
<1>5. ASSUME NEW l \in Loops, NEW p \in hit'[l], NEW q \in hit'[l], WorkloadOf[p] = WorkloadOf[q], p # q
      PROVE  {p, q} \cap lapsed' # {}
  <2>1. CASE p \in hit[l] /\ q \in hit[l]
    BY <1>2, <1>5, <2>1
  <2>2. CASE ~(p \in hit[l] /\ q \in hit[l])
    <3>1. l \in sent /\ pc[l] = "delete" /\ hit'[l] = hit[l] \cup (live \cap {cur[l]})
      BY <1>1, <1>5, <2>2
    <3>2. \/ p \in hit[l] /\ q = cur[l]
          \/ q \in hit[l] /\ p = cur[l]
      BY <1>5, <2>2, <3>1
    <3>3. p \in lapsed \/ q \in lapsed
      BY <1>5, <3>1, <3>2 DEF Current
    <3> QED BY <1>2, <3>3
  <2> QED BY <2>1, <2>2
<1>6. OncePerLoop'
  BY <1>5
<1>7. Remembered'
  BY DEF CrashOperator
<1> QED BY <1>3, <1>4, <1>6, <1>7

(* With the hour over, the deletes are forgotten with their records.       *)
LEMMA MarkedExpire ==
  ASSUME TypeOK, Marked, NEW w \in Workloads, Expire(w)
  PROVE  Marked'
<1> USE DEF Marked, Recorded, Restrained, Remembered, OncePerLoop, TypeOK, Expire, PodsOf
<1>1. \A l \in Loops : /\ hit'[l] = {p \in hit[l] : WorkloadOf[p] # w}
                       /\ UNCHANGED <<pc, cur>>
  OBVIOUS
<1>2. \A p \in Pods : WorkloadOf[p] # w => /\ (p \in lapsed => p \in lapsed')
                                         /\ (WorkloadOf[p] \in recent => WorkloadOf[p] \in recent')
                                         /\ (WorkloadOf[p] \in noted => WorkloadOf[p] \in noted')
  OBVIOUS
<1>3. Recorded'
  BY <1>1, <1>2
<1>4. Restrained'
  BY <1>1, <1>2 DEF Current
<1>5. OncePerLoop'
  BY <1>1, <1>2
<1>6. Remembered'
  <2>1. Deleted' = {p \in Deleted : WorkloadOf[p] # w}
    BY <1>1 DEF Deleted, Loops
  <2> QED BY <1>1, <1>2, <2>1 DEF Current, Deleted, Loops
<1> QED BY <1>3, <1>4, <1>5, <1>6

(* The annotation is written by a loop that has the workload on record in  *)
(* memory; if it fails, the older one may be over.                         *)
LEMMA MarkedAnnotate ==
  ASSUME TypeOK, Marked, NEW l \in Loops, AnnotateOwner(l)
  PROVE  Marked'
<1> USE DEF Marked, Recorded, Restrained, Remembered, OncePerLoop, TypeOK, AnnotateOwner, Goto
<1>1. /\ UNCHANGED <<recent, hit, lapsed>>
      /\ pc[l] = "annotate" /\ noted \ noted' \subseteq {Current(l)}
  OBVIOUS
<1>2. Recorded'
  BY <1>1 DEF Deleted, Loops
<1>3. /\ \A k \in Loops : k # l => pc'[k] = pc[k] /\ cur'[k] = cur[k]
      /\ pc'[l] = "each"
  OBVIOUS
<1>4. Restrained' /\ Remembered'
  BY <1>1, <1>3 DEF Current, Deleted
<1> QED BY <1>1, <1>2, <1>4

(* The other steps of the loops touch neither the records nor what is      *)
(* being restarted.                                                        *)
LoopsOnly ==
  /\ UNCHANGED <<cur, recent, noted, hit, lapsed>>
  /\ \A l \in Loops : pc'[l] \in Working => pc'[l] = pc[l]

LEMMA MarkedKept ==
  ASSUME TypeOK, Marked, LoopsOnly
  PROVE  Marked'
  BY DEF LoopsOnly, Marked, Recorded, Restrained, Remembered, OncePerLoop, Working, Current, Deleted

LEMMA MarkedStep == TypeOK /\ Marked /\ [Next]_vars => Marked'
<1> SUFFICES ASSUME TypeOK, Marked, [Next]_vars PROVE Marked'
  OBVIOUS
<1>1. CASE Outside
  BY <1>1, OutsideKeeps, MarkedKept DEF LoopsOnly
<1>2. ASSUME NEW l \in Loops, RestartStep(l) PROVE Marked'
  <2>1. CASE ListPods(l) \/ ListFails(l)
    BY <2>1, MarkedKept DEF ListPods, ListFails, Goto, LoopsOnly, TypeOK, Working
  <2> QED BY <1>2, <2>1, MarkedDelete, MarkedAnnotate DEF RestartStep
<1>3. ASSUME NEW p \in Pods, CsiPassesOver(p) \/ ScanPassesOver(p) PROVE Marked'
  BY <1>3, MarkedKept DEF CsiPassesOver, ScanPassesOver, LoopsOnly
<1>4. ASSUME NEW p \in Pods, CsiTakesUp(p) \/ ScanTakesUp(p) PROVE Marked'
  BY <1>4, MarkedTake DEF CsiTakesUp, ScanTakesUp, Loops
<1>5. CASE CsiStep
  <2>1. CASE Seed \/ Detect \/ WaitUntilReady \/ AcknowledgeRestart
    BY <2>1, MarkedKept DEF Seed, Detect, WaitUntilReady, AcknowledgeRestart, Goto, LoopsOnly, TypeOK, Working
  <2> QED BY <1>2, <1>3, <1>4, <1>5, <2>1 DEF CsiStep, Loops
<1>6. CASE ScanStep
  <2>1. CASE BeginScan \/ ScanDone \/ ScanOver
    BY <2>1, MarkedKept DEF BeginScan, ScanDone, ScanOver, Goto, LoopsOnly, TypeOK, Working
  <2>2. ASSUME NEW p \in Pods, NEW a, Probe(p, a) \/ UmountOrphan(p) PROVE Marked'
    BY <2>2, MarkedKept DEF Probe, UmountOrphan, LoopsOnly
  <2> QED BY <1>2, <1>3, <1>4, <1>6, <2>1, <2>2 DEF ScanStep, Loops
<1> QED BY <1>1, <1>5, <1>6, MarkedExpire, MarkedCrash DEF Next, Outside

(* A pod starts with the plugin's current run, which no restart the        *)
(* operator knows of has followed.                                         *)
LEMMA AccountedNode ==
  ASSUME TypeOK, Accounted, MissedIsKnown, NodeStep
  PROVE  Accounted' /\ MissedIsKnown'
<1> USE DEF Accounted, MissedIsKnown, Working, TypeOK, Runs
<1>1. UNCHANGED <<loopVars, scanVars, trackerVars, seed>>
  BY OutsideKeeps DEF Outside
<1>2. ASSUME NEW q \in Pods, StartPod(q) PROVE Accounted' /\ MissedIsKnown'
  <2>1. born'[q] = run /\ \A p \in live' : p # q => p \in live /\ born'[p] = born[p]
    BY <1>2 DEF StartPod
  <2>2. ~(born'[q] < pending) /\ ~(born'[q] < last) /\ left' = left
    BY <1>2, <2>1, ConstantsAssumption DEF StartPod
  <2> QED BY <1>1, <2>1, <2>2
<1>3. ASSUME NEW q \in Pods, PodEnds(q) PROVE Accounted' /\ MissedIsKnown'
  BY <1>1, <1>3 DEF PodEnds
<1>4. CASE UNCHANGED <<live, born, left>>
  BY <1>1, <1>4
<1> QED
  BY <1>2, <1>3, <1>4
     DEF NodeStep, KubeletCleans, Remount, Hang, Unhang, RestartPlugin

CsiUntouched ==
  /\ pc'["csi"] = pc["csi"] /\ todo'["csi"] = todo["csi"] /\ cur'["csi"] = cur["csi"]
  /\ UNCHANGED <<born, last, pending, seed>>
  /\ live' \subseteq live /\ left' = left \cap live'

(* A scan may take a pod that is ahead of the csi loop: then the pod is    *)
(* gone.                                                                   *)
LEMMA AccountedScan ==
  ASSUME TypeOK, Accounted, MissedIsKnown, ScanStep
  PROVE  Accounted' /\ MissedIsKnown'
<1> USE DEF Accounted, MissedIsKnown, Working, Loops
<1>1. CsiUntouched
  <2> USE DEF TypeOK, CsiUntouched
  <2>1. CASE BeginScan \/ ScanDone \/ ScanOver
    BY <2>1 DEF BeginScan, ScanDone, ScanOver, Goto
  <2>2. ASSUME NEW p \in Pods, NEW a, Probe(p, a) \/ UmountOrphan(p) PROVE CsiUntouched
    BY <2>2 DEF Probe, UmountOrphan, Drop
  <2>3. CASE ListPods("scan") \/ ListFails("scan")
    BY <2>3 DEF ListPods, ListFails, ListTo, Goto
  <2>4. ASSUME NEW p \in Pods, ScanPassesOver(p) \/ ScanTakesUp(p) PROVE CsiUntouched
    BY <2>4 DEF ScanPassesOver, ScanTakesUp, Take, Drop, Goto
  <2>5. CASE DeletePod("scan")
    BY <2>5 DEF DeletePod, Goto
  <2>6. CASE DeleteFails("scan")
    BY <2>6 DEF DeleteFails, Goto
  <2>7. CASE AnnotateOwner("scan")
    BY <2>7 DEF AnnotateOwner, Goto
  <2> QED BY <2>1, <2>2, <2>3, <2>4, <2>5, <2>6, <2>7 DEF ScanStep, RestartStep
<1> QED BY <1>1 DEF CsiUntouched

LEMMA AccountedCsi ==
  ASSUME TypeOK, Accounted, MissedIsKnown, CsiStep
  PROVE  Accounted' /\ MissedIsKnown'
<1> USE DEF Accounted, MissedIsKnown, Working, Loops, TypeOK
<1>1. CASE Seed
  BY <1>1 DEF Seed
<1>2. CASE Detect \/ WaitUntilReady
  BY <1>2 DEF Detect, WaitUntilReady, Goto
<1>3. CASE AcknowledgeRestart
  <2>1. pc["csi"] = "each" /\ todo["csi"] = {} /\ last' = pending
    BY <1>3 DEF AcknowledgeRestart, Goto
  <2>2. \A p \in live : born[p] < pending => p \in left \/ born[p] < seed
    BY <2>1
  <2> QED BY <1>3, <2>1, <2>2 DEF AcknowledgeRestart, Goto
<1>4. CASE ListPods("csi") \/ ListFails("csi")
  BY <1>4 DEF ListPods, ListFails, ListTo, Goto
<1>5. ASSUME NEW p \in Pods, CsiPassesOver(p) PROVE Accounted' /\ MissedIsKnown'
  BY <1>5 DEF CsiPassesOver, Drop
<1>6. ASSUME NEW p \in Pods, CsiTakesUp(p) PROVE Accounted' /\ MissedIsKnown'
  BY <1>6 DEF CsiTakesUp, Take, Drop, Goto
<1>7. CASE DeletePod("csi")
  BY <1>7 DEF DeletePod, Goto
<1>8. CASE DeleteFails("csi")
  <2>1. /\ pc["csi"] = "delete" /\ pc'["csi"] = "each" /\ live' \subseteq live
        /\ left' = live' \cap (left \cup {cur["csi"]})
        /\ UNCHANGED <<born, todo, last, pending, seed>>
    BY <1>8 DEF DeleteFails, Goto
  <2> QED BY <2>1
<1>9. CASE AnnotateOwner("csi")
  BY <1>9 DEF AnnotateOwner, Goto
<1> QED BY <1>1, <1>2, <1>3, <1>4, <1>5, <1>6, <1>7, <1>8, <1>9 DEF CsiStep, RestartStep

LEMMA AccountedStep ==
  TypeOK /\ Accounted /\ MissedIsKnown /\ [Next]_vars => Accounted' /\ MissedIsKnown'
<1> SUFFICES ASSUME TypeOK, Accounted, MissedIsKnown, [Next]_vars
             PROVE  Accounted' /\ MissedIsKnown'
  OBVIOUS
<1>1. CASE ProbeEnds \/ UNCHANGED vars \/ \E w \in Workloads : Expire(w)
  BY <1>1 DEF ProbeEnds, vars, Expire, Accounted, MissedIsKnown
<1>2. CASE CrashOperator
  BY <1>2 DEF CrashOperator, Accounted, MissedIsKnown, Working, Loops, TypeOK
<1> QED BY <1>1, <1>2, AccountedNode, AccountedScan, AccountedCsi DEF Next

LEMMA FoundNode ==
  ASSUME TypeOK, Found, NodeStep
  PROVE  Found'
<1> USE ConstantsAssumption DEF Found, TypeOK, Runs
<1>1. UNCHANGED <<loopVars, scanVars>>
  BY OutsideKeeps DEF Outside
<1>2. ASSUME NEW q \in Pods, StartPod(q) PROVE Found'
  <2>1. q \notin stale \cup slow
    BY <1>2 DEF StartPod, Started
  <2> QED BY <1>1, <1>2, <2>1 DEF StartPod
<1>3. ASSUME NEW q \in Pods, PodEnds(q) \/ Hang(q) \/ Unhang(q) PROVE Found'
  BY <1>1, <1>3 DEF PodEnds, Hang, Unhang
<1>4. ASSUME NEW q \in Pods, KubeletCleans(q) \/ Remount(q) PROVE Found'
  BY <1>1, <1>4 DEF KubeletCleans, Remount, Corrupted
<1>5. ASSUME NEW kind \in Restarts, RestartPlugin(kind) PROVE Found'
  BY <1>1, <1>5 DEF RestartPlugin
<1> QED BY <1>2, <1>3, <1>4, <1>5 DEF NodeStep

LEMMA FoundRestart ==
  ASSUME TypeOK, Found, NEW l \in Loops, RestartStep(l)
  PROVE  Found'
<1> USE DEF Found, Working, Loops, TypeOK
<1>1. CASE ListPods(l) \/ ListFails(l)
  BY <1>1 DEF ListPods, ListFails, ListTo, Ahead, Goto
<1>2. CASE DeletePod(l)
  BY <1>2 DEF DeletePod, Goto
<1>3. CASE DeleteFails(l)
  <2>1. live' \subseteq live
    BY <1>3 DEF DeleteFails
  <2> QED BY <1>3, <2>1 DEF DeleteFails, Goto
<1>4. CASE AnnotateOwner(l)
  BY <1>4 DEF AnnotateOwner, Goto
<1> QED BY <1>1, <1>2, <1>3, <1>4 DEF RestartStep

LEMMA FoundDrop ==
  ASSUME TypeOK, Found, NEW p \in Pods,
         CsiPassesOver(p) \/ CsiTakesUp(p) \/ ScanPassesOver(p) \/ ScanTakesUp(p)
  PROVE  Found'
<1> USE DEF Found, Working, Loops, TypeOK
<1>1. CASE CsiPassesOver(p) \/ CsiTakesUp(p)
  BY <1>1 DEF CsiPassesOver, CsiTakesUp, Take, Drop, Goto
<1>2. CASE ScanPassesOver(p)
  BY <1>2 DEF ScanPassesOver, Drop
<1>3. CASE ScanTakesUp(p)
  BY <1>3 DEF ScanTakesUp, Take, Drop, Goto
<1> QED BY <1>1, <1>2, <1>3

LEMMA FoundStep == TypeOK /\ Found /\ [Next]_vars => Found'
<1> SUFFICES ASSUME TypeOK, Found, [Next]_vars PROVE Found'
  OBVIOUS
<1>1. CASE NodeStep
  BY <1>1, FoundNode
<1>2. CASE CsiStep
  BY <1>2, FoundRestart, FoundDrop
     DEF CsiStep, Seed, Detect, WaitUntilReady, AcknowledgeRestart, Goto, Found, Working, Loops, TypeOK
<1>3. CASE ScanStep
  <2> USE DEF Found, Working, Loops, TypeOK
  <2>1. CASE RestartStep("scan")
    BY <2>1, FoundRestart
  <2>2. CASE BeginScan \/ ScanDone \/ ScanOver
    BY <2>2 DEF BeginScan, ScanDone, ScanOver, Goto
  <2>3. ASSUME NEW p \in Pods, NEW a, Probe(p, a) PROVE Found'
    BY <2>3 DEF Probe
  <2>4. ASSUME NEW p \in Pods, UmountOrphan(p) PROVE Found'
    BY <2>4 DEF UmountOrphan, Drop
  <2> QED BY <1>3, <2>1, <2>2, <2>3, <2>4, FoundDrop DEF ScanStep
<1>4. CASE ProbeEnds \/ UNCHANGED vars \/ \E w \in Workloads : Expire(w)
  BY <1>4 DEF ProbeEnds, vars, Expire, Found
<1>5. CASE CrashOperator
  BY <1>5 DEF CrashOperator, Found, Working, Loops, TypeOK
<1> QED BY <1>1, <1>2, <1>3, <1>4, <1>5 DEF Next

(* The strengthening from which the properties follow.                     *)
THEOREM Inductive == Spec => []IInv
<1>1. IInv /\ [Next]_vars => IInv'
  BY TypeStep, MarkedStep, AccountedStep, FoundStep DEF IInv
<1> QED BY InitIInv, <1>1, PTL DEF Spec

(* A loop deletes two pods of a workload within the hour only when the     *)
(* record of one is lost: its reply was, or a crash took it before the     *)
(* annotation, or the annotation could not be read (isRateLimited,         *)
(* markRecoveredLocked, annotateOwner).                                    *)
THEOREM RateLimitKept == Spec => []OncePerLoop
<1>1. IInv => OncePerLoop
  BY DEF IInv, Marked
<1> QED BY Inductive, <1>1, PTL

(* A restart that is acknowledged has missed only pods a pass looked at    *)
(* and left, and those from before the operator came (AcknowledgeRestart). *)
THEOREM AcknowledgedAccounted == Spec => []MissedIsKnown
<1>1. IInv => MissedIsKnown
  BY DEF IInv
<1> QED BY Inductive, <1>1, PTL

LEMMA LivePathStep ==
  ASSUME IInv, [Next]_vars, NEW p \in live, path[p] # 0
  PROVE  path'[p] # 0
<1> USE ConstantsAssumption DEF IInv, TypeOK, Runs
<1>1. CASE path' = path
  BY <1>1
<1>2. ASSUME NEW q \in Pods, StartPod(q) \/ Remount(q) PROVE path'[p] # 0
  BY <1>2 DEF StartPod, Remount
<1>3. ASSUME NEW q \in Pods, KubeletCleans(q) PROVE path'[p] # 0
  BY <1>3 DEF KubeletCleans
<1>4. ASSUME NEW q \in Pods, UmountOrphan(q) PROVE path'[p] # 0
  <2>1. q # p
    BY <1>4 DEF UmountOrphan, Drop, Ahead, Found
  <2> QED BY <1>4, <2>1 DEF UmountOrphan
<1>5. NodeStep => path' = path \/ \E q \in Pods : StartPod(q) \/ Remount(q) \/ KubeletCleans(q)
  BY DEF NodeStep, PodEnds, Hang, Unhang, RestartPlugin
<1>6. ASSUME NEW l \in Loops, RestartStep(l) PROVE path' = path
  BY <1>6 DEF RestartStep, ListPods, ListFails, DeletePod, DeleteFails, AnnotateOwner
<1>7. CsiStep => path' = path
  BY <1>6 DEF CsiStep, CsiPassesOver, CsiTakesUp, Take, Seed, Detect, WaitUntilReady, AcknowledgeRestart, Loops
<1>8. ScanStep => path' = path \/ \E q \in Pods : UmountOrphan(q)
  BY <1>6 DEF ScanStep, ScanPassesOver, ScanTakesUp, Take, BeginScan, ScanDone, ScanOver, Probe, Loops
<1> QED
  BY <1>1, <1>2, <1>3, <1>4, <1>5, <1>7, <1>8
     DEF Next, vars, ProbeEnds, Expire, CrashOperator

(* maybeLazyUmountOrphan never detaches the path of a live pod.            *)
THEOREM LivePathSafe == Spec => LivePathKept
<1>1. IInv /\ [Next]_vars => [\A p \in live : path[p] # 0 => path'[p] # 0]_vars
  BY LivePathStep
<1> QED BY Inductive, <1>1, PTL DEF Spec, LivePathKept

=============================================================================
