----------------------- MODULE DirectNodeSafety_proofs -----------------------
(* What happens to the target paths in direct mode, for any targets,       *)
(* volumes and calls: the safety invariants that build on Control.         *)
EXTENDS DirectNode_proofs

USE DEF handlerVars, driverVars, bootVars

(* Everything a step of a call changes on the node is at its own target.   *)
Home(h) ==
  /\ UNCHANGED <<op, tgt, locks, boot, serving>>
  /\ \A t \in Targets \ {tgt[h]} :
       /\ kernel'[t] = kernel[t]
       /\ linger'[t] = linger[t]
       /\ logged'[t] = logged[t]
       /\ t \in mctx' <=> t \in mctx
       /\ t \in store' <=> t \in store

Working(h) == PublishStep(h) \/ ReapStep(h) \/ UnpublishStep(h) \/ MountStep(h)

LEMMA WorkIsHome ==
  ASSUME TypeOK, NEW h \in Calls, Working(h)
  PROVE  Home(h)
<1> USE DEF Home, Goto, TypeOK
<1>1. ASSUME PublishStep(h) PROVE Home(h)
  BY <1>1 DEF PublishStep, AlreadyPublished, PrepareTarget, PrepareFails, LoadConfig,
     LoadConfigFails, CollectMount, CollectFailure, HandOff, SaveState, Answer
<1>2. ASSUME ReapStep(h) PROVE Home(h)
  BY <1>2 DEF ReapStep, Reap, DetachOrphan, DropRemotes
<1>3. ASSUME UnpublishStep(h) PROVE Home(h)
  BY <1>3 DEF UnpublishStep, GracefulUnmount, SkipGraceful, ForceCleanup, Forget
<1>4. ASSUME MountStep(h) PROVE Home(h)
  BY <1>4 DEF MountStep, NewFs, Mount, MountFails
<1> QED BY <1>1, <1>2, <1>3, <1>4 DEF Working

(* Between Acquire and Release a call is alone on its target.              *)
LEMMA OwnersApart ==
  ASSUME Control, NEW g \in Calls, NEW h \in Calls, g # h,
         pc[g] \in Locked, pc[h] \in Locked
  PROVE  tgt[g] # tgt[h] /\ tgt[g] \in Targets /\ tgt[h] \in Targets
  BY DEF Control, Owned, TypeOK, Locked

LEMMA WorkersAreInside ==
  ASSUME Control, NEW h \in Calls, Working(h)
  PROVE  /\ pc[h] \in Locked /\ pc'[h] \in Locked
         /\ \A g \in Calls \ {h} : pc'[g] = pc[g] /\ mnt'[g] = mnt[g]
<1>1. CASE MountStep(h)
  BY <1>1 DEF Control, TypeOK, Phases, Locked, MountStep, NewFs, Mount, MountFails,
     handlerVars
<1>2. CASE ~MountStep(h)
  BY <1>2, WorkIsInside DEF Control, Inside, Working
<1> QED BY <1>1, <1>2

-----------------------------------------------------------------------------
(* An unpublish that has cleaned up finds the path as it left it.          *)
Emptied == \A h \in Calls : pc[h] = "forget" => kernel[tgt[h]] = "absent"

LEMMA EmptiedInit == Init => Emptied
  BY DEF Init, Emptied

LEMMA EmptiedOfWorker ==
  ASSUME Control, Emptied, NEW h \in Calls, Working(h), pc'[h] = "forget"
  PROVE  kernel'[tgt[h]] = "absent"
<1> USE DEF Goto, TypeOK, Control, Emptied, Phases, Served
<1>1. CASE PublishStep(h)
  BY <1>1 DEF PublishStep, AlreadyPublished, PrepareTarget, PrepareFails, LoadConfig,
     LoadConfigFails, CollectMount, CollectFailure, HandOff, SaveState
<1>2. CASE ReapStep(h)
  BY <1>2 DEF ReapStep, Reap, DetachOrphan, DropRemotes
<1>3. CASE UnpublishStep(h)
  BY <1>3 DEF UnpublishStep, GracefulUnmount, SkipGraceful, ForceCleanup, Forget
<1>4. CASE MountStep(h)
  BY <1>4 DEF MountStep, NewFs, Mount, MountFails
<1> QED BY <1>1, <1>2, <1>3, <1>4 DEF Working

LEMMA EmptiedStep == Control /\ Emptied /\ [Next]_vars => Emptied'
<1> SUFFICES ASSUME Control, Emptied, [Next]_vars,
                    NEW g \in Calls, pc'[g] = "forget"
             PROVE  kernel'[tgt'[g]] = "absent"
  BY DEF Emptied
<1>1. ASSUME NEW h \in Calls, Working(h) PROVE kernel'[tgt'[g]] = "absent"
  <2>1. /\ Home(h)
        /\ pc[h] \in Locked
        /\ \A f \in Calls \ {h} : pc'[f] = pc[f]
    BY <1>1, WorkIsHome, WorkersAreInside DEF Control
  <2>2. CASE g = h
    BY <1>1, <2>1, <2>2, EmptiedOfWorker DEF Home
  <2>3. CASE g # h
    <3>1. pc[g] = "forget" /\ tgt[g] \in Targets \ {tgt[h]}
      BY <2>1, <2>3, OwnersApart DEF Locked
    <3> QED BY <2>1, <3>1 DEF Home, Emptied
  <2> QED BY <2>2, <2>3
<1>2. ASSUME NEW h \in Calls, NEW t \in Targets, NEW o \in {"publish", "unpublish"}, Begin(h, t, o)
      PROVE kernel'[tgt'[g]] = "absent"
  BY <1>2 DEF Begin, Emptied, Control, TypeOK
<1>3. ASSUME NEW h \in Calls, Abandon(h) \/ LockStep(h) \/ Release(h)
      PROVE kernel'[tgt'[g]] = "absent"
  BY <1>3 DEF LockStep, Abandon, Acquire, Retry, RefuseBusy, Release, Goto, EndCall,
     Emptied, Control, TypeOK
<1>4. ASSUME NEW t \in Targets, LingerEnds(t) PROVE kernel'[tgt'[g]] = "absent"
  BY <1>4 DEF LingerEnds, Emptied, Control, TypeOK, Served
<1>5. CASE Crash
  BY <1>5 DEF Crash
<1>6. CASE BootStep
  BY <1>6 DEF BootStep, StartServing, RemountSucceeds, RemountFails, Control,
     BootAlone, TypeOK
<1>7. CASE UNCHANGED vars
  BY <1>7 DEF vars, Emptied
<1> QED
  BY <1>1, <1>2, <1>3, <1>4, <1>5, <1>6, <1>7 DEF Next, CallStep, Working

-----------------------------------------------------------------------------
(* What the path of a call looks like at the places that rely on it.       *)
Paths ==
  \A h \in Calls :
    /\ mnt[h] \in {"newfs", "mounting"} => kernel[tgt[h]] = "dir"
    /\ pc[h] = "load" => kernel[tgt[h]] = "dir"

LEMMA PathsInit == Init => Paths
  BY DEF Init, Paths

LEMMA PathsOfWorker ==
  ASSUME Control, Paths, NEW h \in Calls, Working(h)
  PROVE  /\ mnt'[h] \in {"newfs", "mounting"} => kernel'[tgt[h]] = "dir"
         /\ pc'[h] = "load" => kernel'[tgt[h]] = "dir"
<1> USE DEF Goto, TypeOK, Control, Paths, Phases, Served
<1>1. CASE PublishStep(h)
  BY <1>1 DEF PublishStep, AlreadyPublished, PrepareTarget, PrepareFails, LoadConfig,
     LoadConfigFails, CollectMount, CollectFailure, HandOff, SaveState
<1>2. CASE ReapStep(h)
  BY <1>2 DEF ReapStep, Reap, DetachOrphan, DropRemotes
<1>3. CASE UnpublishStep(h)
  BY <1>3 DEF UnpublishStep, GracefulUnmount, SkipGraceful, ForceCleanup, Forget
<1>4. CASE MountStep(h)
  BY <1>4 DEF MountStep, NewFs, Mount, MountFails
<1> QED BY <1>1, <1>2, <1>3, <1>4 DEF Working

LEMMA PathsStep == Control /\ Paths /\ [Next]_vars => Paths'
<1> SUFFICES ASSUME Control, Paths, [Next]_vars PROVE Paths'
  OBVIOUS
<1>1. ASSUME NEW h \in Calls, Working(h) PROVE Paths'
  <2>1. /\ Home(h)
        /\ pc[h] \in Locked
        /\ \A g \in Calls \ {h} : pc'[g] = pc[g] /\ mnt'[g] = mnt[g]
    BY <1>1, WorkIsHome, WorkersAreInside DEF Control
  <2> SUFFICES ASSUME NEW g \in Calls, g # h
               PROVE  /\ mnt'[g] \in {"newfs", "mounting"} => kernel'[tgt'[g]] = "dir"
                      /\ pc'[g] = "load" => kernel'[tgt'[g]] = "dir"
    BY <1>1, <2>1, PathsOfWorker DEF Paths, Home
  <2>2. CASE pc[g] \in Locked
    <3>1. tgt[g] \in Targets \ {tgt[h]}
      BY <2>1, <2>2, OwnersApart
    <3> QED BY <2>1, <3>1 DEF Home, Paths
  <2>3. CASE pc[g] \notin Locked
    BY <2>1, <2>3 DEF Control, Phases, Locked
  <2> QED BY <2>2, <2>3
<1>2. ASSUME NEW h \in Calls, NEW t \in Targets, NEW o \in {"publish", "unpublish"}, Begin(h, t, o)
      PROVE Paths'
  BY <1>2 DEF Begin, Paths, Control, TypeOK, Phases
<1>3. ASSUME NEW h \in Calls, Abandon(h) \/ LockStep(h) \/ Release(h) PROVE Paths'
  <2>1. CASE Abandon(h)
    BY <2>1 DEF Abandon, Paths
  <2>2. CASE Acquire(h)
    BY <2>2 DEF Acquire, Goto, Paths, Control, TypeOK
  <2>3. CASE Retry(h)
    BY <2>3 DEF Retry, Paths
  <2>4. CASE RefuseBusy(h)
    BY <2>4 DEF RefuseBusy, EndCall, Paths, Control, TypeOK, Phases
  <2>5. CASE Release(h)
    BY <2>5 DEF Release, EndCall, Paths, Control, TypeOK, Phases
  <2> QED BY <1>3, <2>1, <2>2, <2>3, <2>4, <2>5 DEF LockStep
<1>4. ASSUME NEW t \in Targets, LingerEnds(t) PROVE Paths'
  BY <1>4 DEF LingerEnds, Paths, Control, TypeOK, Served
<1>5. CASE Crash
  BY <1>5 DEF Crash, Paths
<1>6. CASE BootStep
  <2>1. \A h \in Calls : pc[h] = "idle" /\ mnt[h] = "none"
    BY <1>6 DEF BootStep, StartServing, RemountSucceeds, RemountFails, Control,
       BootAlone, Phases, TypeOK
  <2>2. UNCHANGED <<pc, mnt>>
    BY <1>6 DEF BootStep, StartServing, RemountSucceeds, RemountFails
  <2> QED BY <2>1, <2>2 DEF Paths
<1>7. CASE UNCHANGED vars
  BY <1>7 DEF vars, Paths
<1> QED
  BY <1>1, <1>2, <1>3, <1>4, <1>5, <1>6, <1>7 DEF Next, CallStep, Working

(* A mount attempt runs only while its call owns the target, onto an empty *)
(* directory (prepareTargetDirectory, reapOrphanMount).                    *)
THEOREM MountSafe == Spec => []MountOntoDirectory
<1>1. Control /\ Paths => MountOntoDirectory
  BY DEF Control, Phases, Paths, MountOntoDirectory
<1> QED BY <1>1, ControlHolds, PathsInit, PathsStep, PTL DEF Spec

-----------------------------------------------------------------------------
(* A live mount is in mountContext or about to be collected.               *)
LEMMA LiveInit == Init => NoUnownedMount
  BY DEF Init, NoUnownedMount

LEMMA LiveOfWorker ==
  ASSUME Control, Emptied, NoUnownedMount, NEW h \in Calls, Working(h), kernel'[tgt[h]] = "live"
  PROVE  tgt[h] \in mctx' \/ (pc'[h] = "wait" /\ mnt'[h] = "ok")
<1> DEFINE Before == tgt[h] \in mctx \/ (pc[h] = "wait" /\ mnt[h] = "ok")
<1>1. kernel[tgt[h]] = "live" => Before
  <2> SUFFICES ASSUME kernel[tgt[h]] = "live", tgt[h] \notin mctx
               PROVE  pc[h] = "wait" /\ mnt[h] = "ok"
    OBVIOUS
  <2>1. pc[h] \in Locked /\ tgt[h] \in Targets
    BY WorkersAreInside DEF Control, TypeOK, Locked
  <2>2. PICK g \in Calls : tgt[g] = tgt[h] /\ pc[g] = "wait" /\ mnt[g] = "ok"
    BY <2>1 DEF NoUnownedMount
  <2>3. g = h
    BY <2>1, <2>2, OwnersApart DEF Locked
  <2> QED BY <2>2, <2>3
<1> USE <1>1 DEF Goto, TypeOK, Control, Emptied, Served
<1>2. CASE PublishStep(h)
  BY <1>2 DEF PublishStep, AlreadyPublished, PrepareTarget, PrepareFails, LoadConfig,
     LoadConfigFails, CollectMount, CollectFailure, HandOff, SaveState
<1>3. CASE ReapStep(h)
  BY <1>3 DEF ReapStep, Reap, DetachOrphan, DropRemotes
<1>4. CASE UnpublishStep(h)
  BY <1>4 DEF UnpublishStep, GracefulUnmount, SkipGraceful, ForceCleanup, Forget
<1>5. CASE MountStep(h)
  BY <1>5 DEF MountStep, NewFs, Mount, MountFails
<1> QED BY <1>2, <1>3, <1>4, <1>5 DEF Working

LEMMA LiveStep == Control /\ Emptied /\ NoUnownedMount /\ [Next]_vars => NoUnownedMount'
<1> SUFFICES ASSUME Control, Emptied, NoUnownedMount, [Next]_vars PROVE NoUnownedMount'
  OBVIOUS
<1>1. ASSUME NEW h \in Calls, Working(h) PROVE NoUnownedMount'
  <2>1. /\ Home(h)
        /\ pc[h] \in Locked
        /\ \A g \in Calls \ {h} : pc'[g] = pc[g] /\ mnt'[g] = mnt[g]
    BY <1>1, WorkIsHome, WorkersAreInside DEF Control
  <2> SUFFICES ASSUME NEW t \in Targets, kernel'[t] = "live"
               PROVE  t \in mctx' \/ \E g \in Calls : tgt'[g] = t /\ pc'[g] = "wait" /\ mnt'[g] = "ok"
    BY DEF NoUnownedMount
  <2>2. CASE t = tgt[h]
    BY <1>1, <2>1, <2>2, LiveOfWorker DEF Home
  <2>3. CASE t # tgt[h]
    BY <2>1, <2>3 DEF Home, NoUnownedMount
  <2> QED BY <2>2, <2>3
<1>2. ASSUME NEW h \in Calls, NEW t \in Targets, NEW o \in {"publish", "unpublish"}, Begin(h, t, o)
      PROVE NoUnownedMount'
  BY <1>2 DEF Begin, NoUnownedMount, Control, TypeOK
<1>3. ASSUME NEW h \in Calls, Abandon(h) \/ LockStep(h) \/ Release(h) PROVE NoUnownedMount'
  <2>1. CASE Abandon(h)
    BY <2>1 DEF Abandon, NoUnownedMount
  <2>2. CASE Acquire(h)
    BY <2>2 DEF Acquire, Goto, NoUnownedMount, Control, TypeOK
  <2>3. CASE Retry(h)
    BY <2>3 DEF Retry, NoUnownedMount
  <2>4. CASE RefuseBusy(h)
    BY <2>4 DEF RefuseBusy, EndCall, NoUnownedMount, Control, TypeOK
  <2>5. CASE Release(h)
    BY <2>5 DEF Release, EndCall, NoUnownedMount, Control, TypeOK
  <2> QED BY <1>3, <2>1, <2>2, <2>3, <2>4, <2>5 DEF LockStep
<1>4. ASSUME NEW t \in Targets, LingerEnds(t) PROVE NoUnownedMount'
  BY <1>4 DEF LingerEnds, NoUnownedMount, Control, TypeOK
<1>5. CASE Crash
  BY <1>5 DEF Crash, NoUnownedMount, Served
<1>6. CASE BootStep
  BY <1>6 DEF BootStep, StartServing, RemountSucceeds, RemountFails, NoUnownedMount,
     Control, TypeOK
<1>7. CASE UNCHANGED vars
  BY <1>7 DEF vars, NoUnownedMount
<1> QED
  BY <1>1, <1>2, <1>3, <1>4, <1>5, <1>6, <1>7 DEF Next, CallStep, Working

(* A mount whose context lives can always be found by unpublish and        *)
(* shutdown (setMountContext, reapOrphanMount).                            *)
THEOREM NoLeakedMount == Spec => []NoUnownedMount
  BY ControlHolds, EmptiedInit, EmptiedStep, LiveInit, LiveStep, PTL DEF Spec

-----------------------------------------------------------------------------
(* What kubelet knows, and what is left when it was told "unpublished".    *)
Clean(t) == kernel[t] \in {"absent", "dir"} /\ t \notin mctx /\ t \notin store

Told(h) ==
  /\ op[h] = "unpublish" => acked[tgt[h]] = "tearing"
  /\ h \in waiting /\ op[h] = "publish" => acked[tgt[h]] # "tearing"
  /\ pc[h] \in Locked /\ h \notin waiting => acked[tgt[h]] \in {"unknown", "tearing"}
  /\ pc[h] = "releaseOk" /\ op[h] = "unpublish" => Clean(tgt[h])

Answers ==
  /\ \A h \in Calls : pc[h] # "idle" => Told(h)
  /\ \A t \in Targets : acked[t] = "none" =>
       Clean(t) \/ \E h \in Calls : pc[h] \in Locked /\ tgt[h] = t

LEMMA AnswersInit == Init => Answers
  BY DEF Init, Answers, Clean, Told, Locked

(* A step of a call touches what kubelet knows only by handing off.        *)
LEMMA WorkersAnswer ==
  ASSUME Control, NEW h \in Calls, Working(h)
  PROVE  /\ waiting' \subseteq waiting /\ waiting \ {h} \subseteq waiting'
         /\ \/ UNCHANGED <<acked, waiting>>
            \/ h \notin waiting' /\ h \notin waiting /\ UNCHANGED acked
            \/ /\ h \in waiting /\ h \notin waiting' /\ op[h] = "publish"
               /\ acked' = [acked EXCEPT ![tgt[h]] = "unknown"]
<1> USE DEF Control, Phases, TypeOK, Goto
<1>1. CASE PublishStep(h)
  BY <1>1 DEF PublishStep, AlreadyPublished, PrepareTarget, PrepareFails, LoadConfig,
     LoadConfigFails, CollectMount, CollectFailure, HandOff, SaveState, Answer, PublishOnly
<1>2. CASE ReapStep(h)
  BY <1>2 DEF ReapStep, Reap, DetachOrphan, DropRemotes
<1>3. CASE UnpublishStep(h)
  BY <1>3 DEF UnpublishStep, GracefulUnmount, SkipGraceful, ForceCleanup, Forget
<1>4. CASE MountStep(h)
  BY <1>4 DEF MountStep, NewFs, Mount, MountFails
<1> QED BY <1>1, <1>2, <1>3, <1>4 DEF Working

(* An unpublish is done only when nothing is left.                         *)
LEMMA DoneIsClean ==
  ASSUME Control, Emptied, Answers, NEW h \in Calls, Working(h),
         pc'[h] = "releaseOk", op[h] = "unpublish"
  PROVE  Clean(tgt[h])'
<1> USE DEF Control, Phases, TypeOK, Goto, PublishOnly, UnpublishOnly
<1>1. CASE PublishStep(h)
  BY <1>1 DEF PublishStep, AlreadyPublished, PrepareTarget, PrepareFails, LoadConfig,
     LoadConfigFails, CollectMount, CollectFailure, HandOff, SaveState
<1>2. CASE ReapStep(h)
  BY <1>2 DEF ReapStep, Reap, DetachOrphan, DropRemotes
<1>3. CASE UnpublishStep(h)
  <2>1. Forget(h)
    BY <1>3 DEF UnpublishStep, GracefulUnmount, SkipGraceful, ForceCleanup
  <2> QED BY <2>1 DEF Forget, Emptied, Clean
<1>4. CASE MountStep(h)
  BY <1>4 DEF MountStep, NewFs, Mount, MountFails
<1> QED BY <1>1, <1>2, <1>3, <1>4 DEF Working

LEMMA AnswersStep == Control /\ Emptied /\ Answers /\ [Next]_vars => Answers'
<1> SUFFICES ASSUME Control, Emptied, Answers, [Next]_vars PROVE Answers'
  OBVIOUS
<1> DEFINE Held(t) == \E h \in Calls : pc[h] \in Locked /\ tgt[h] = t
           Known == \A t \in Targets : acked[t] = "none" => Clean(t) \/ Held(t)
<1>1. ASSUME NEW h \in Calls, Working(h) PROVE Answers'
  <2>1. /\ Home(h)
        /\ pc[h] \in Locked /\ pc'[h] \in Locked
        /\ \A g \in Calls \ {h} : pc'[g] = pc[g] /\ mnt'[g] = mnt[g]
    BY <1>1, WorkIsHome, WorkersAreInside DEF Control
  <2>2. tgt[h] \in Targets /\ pc[h] # "idle"
    BY <2>1 DEF Control, TypeOK, Locked
  <2>3. Told(h)'
    <3>1. /\ op'[h] = "unpublish" => acked'[tgt'[h]] = "tearing"
          /\ h \in waiting' /\ op'[h] = "publish" => acked'[tgt'[h]] # "tearing"
          /\ h \notin waiting' => acked'[tgt'[h]] \in {"unknown", "tearing"}
      BY <1>1, <2>1, <2>2, WorkersAnswer DEF Home, Answers, Told, Control, TypeOK
    <3>2. pc'[h] = "releaseOk" /\ op'[h] = "unpublish" => Clean(tgt[h])'
      BY <1>1, <2>1, DoneIsClean DEF Home, Clean
    <3> QED BY <3>1, <3>2 DEF Told
  <2>4. ASSUME NEW g \in Calls \ {h}, pc'[g] # "idle" PROVE Told(g)'
    <3>1. Told(g) /\ pc[g] = pc'[g] /\ op'[g] = op[g] /\ tgt'[g] = tgt[g] /\ tgt[g] \in Targets
      BY <2>1, <2>4 DEF Answers, Home, Control, TypeOK
    <3>2. g \in waiting' <=> g \in waiting
      BY <1>1, WorkersAnswer
    <3>3. CASE pc[g] \in Locked
      <4>1. tgt[g] # tgt[h]
        BY <2>1, <3>3, OwnersApart
      <4>2. acked'[tgt[g]] = acked[tgt[g]]
        BY <1>1, <4>1, <3>1, WorkersAnswer DEF Control, TypeOK
      <4>3. Clean(tgt[g]) => Clean(tgt[g])'
        BY <2>1, <3>1, <4>1 DEF Home, Clean
      <4> QED BY <3>1, <3>2, <4>2, <4>3 DEF Told, Clean
    <3>4. CASE pc[g] = "lock"
      <4>1. g \in waiting
        BY <3>4 DEF Control, Callers
      <4>2. acked'[tgt[g]] = acked[tgt[g]]
        BY <1>1, <3>1, <4>1, WorkersAnswer DEF Control, Callers, TypeOK
      <4> QED BY <3>1, <3>2, <3>4, <4>1, <4>2 DEF Told, Locked
    <3> QED BY <2>4, <3>1, <3>3, <3>4 DEF Control, TypeOK, PCs
  <2>5. Known'
    <3> SUFFICES ASSUME NEW t \in Targets, acked'[t] = "none" PROVE Clean(t)' \/ Held(t)'
      OBVIOUS
    <3>1. CASE t = tgt[h]
      BY <2>1, <3>1 DEF Home
    <3>2. CASE t # tgt[h]
      <4>1. acked[t] = "none"
        BY <1>1, <2>2, WorkersAnswer DEF Control, TypeOK
      <4>2. Clean(t) => Clean(t)'
        BY <2>1, <3>2 DEF Home, Clean
      <4>3. Held(t) => Held(t)'
        BY <2>1, <3>2 DEF Home
      <4> QED BY <4>1, <4>2, <4>3 DEF Answers
    <3> QED BY <3>1, <3>2
  <2> QED BY <2>3, <2>4, <2>5 DEF Answers
<1>2. ASSUME NEW h \in Calls, NEW t \in Targets, NEW o \in {"publish", "unpublish"}, Begin(h, t, o)
      PROVE Answers'
  <2>1. \A g \in Calls : pc'[g] # "idle" => Told(g)'
    BY <1>2 DEF Begin, Answers, Told, Clean, Control, TypeOK, Locked
  <2>2. Known'
    BY <1>2 DEF Begin, Answers, Clean, Control, TypeOK, Locked
  <2> QED BY <2>1, <2>2 DEF Answers
<1>3. ASSUME NEW h \in Calls, Abandon(h) PROVE Answers'
  <2>1. \A g \in Calls : pc'[g] # "idle" => Told(g)'
    BY <1>3 DEF Abandon, Answer, Answers, Told, Clean, Control, Callers, TypeOK
  <2>2. Known'
    BY <1>3 DEF Abandon, Answer, Answers, Clean, Control, TypeOK
  <2> QED BY <2>1, <2>2 DEF Answers
<1>4. ASSUME NEW h \in Calls, Acquire(h) PROVE Answers'
  <2>1. \A g \in Calls : pc'[g] # "idle" => Told(g)'
    BY <1>4 DEF Acquire, Goto, Answers, Told, Clean, Control, Callers, TypeOK
  <2>2. Known'
    BY <1>4 DEF Acquire, Goto, Answers, Clean, Control, TypeOK, Locked
  <2> QED BY <2>1, <2>2 DEF Answers
<1>5. ASSUME NEW h \in Calls, Retry(h) PROVE Answers'
  BY <1>5 DEF Retry, Answers, Told, Clean
<1>6. ASSUME NEW h \in Calls, RefuseBusy(h) PROVE Answers'
  <2>1. \A g \in Calls : pc'[g] # "idle" => Told(g)'
    BY <1>6 DEF RefuseBusy, EndCall, Answer, Answers, Told, Clean, Control, Callers, TypeOK
  <2>2. Known'
    BY <1>6 DEF RefuseBusy, EndCall, Answer, Answers, Clean, Control, TypeOK, Locked
  <2> QED BY <2>1, <2>2 DEF Answers
<1>7. ASSUME NEW h \in Calls, Release(h) PROVE Answers'
  <2>0. pc[h] \in Locked /\ tgt[h] \in Targets
    BY <1>7 DEF Release, Locked, Control, TypeOK
  <2>1. ASSUME NEW g \in Calls, pc'[g] # "idle" PROVE Told(g)'
    <3>1. g # h /\ Told(g) /\ tgt[g] \in Targets
      BY <1>7, <2>1 DEF Release, EndCall, Answers, Control, TypeOK
    <3>2. /\ pc'[g] = pc[g] /\ op'[g] = op[g] /\ tgt'[g] = tgt[g]
          /\ g \in waiting' <=> g \in waiting
          /\ UNCHANGED <<kernel, mctx, store>>
      BY <1>7, <3>1 DEF Release, EndCall, Answer, Control, TypeOK
    <3>3. h \in waiting => tgt[g] # tgt[h]
      BY <2>0, <2>1, <3>1, <3>2, OwnersApart DEF Control, Callers, TypeOK, PCs
    <3>4. acked'[tgt[g]] = acked[tgt[g]]
      BY <1>7, <3>1, <3>3 DEF Release, Answer, Control, TypeOK
    <3> QED BY <3>1, <3>2, <3>4 DEF Told, Clean
  <2>2. Known'
    <3> SUFFICES ASSUME NEW t \in Targets, acked'[t] = "none" PROVE Clean(t)' \/ Held(t)'
      OBVIOUS
    <3>0. Told(h)
      BY <2>0 DEF Answers, Locked
    <3>1. CASE t = tgt[h]
      BY <1>7, <2>0, <3>0, <3>1 DEF Release, Answer, Told, Clean, Control, TypeOK
    <3>2. CASE t # tgt[h]
      <4>1. acked[t] = "none"
        BY <1>7, <2>0, <3>2 DEF Release, Answer, Control, TypeOK
      <4>2. Clean(t) => Clean(t)'
        BY <1>7 DEF Release, Clean
      <4>3. Held(t) => Held(t)'
        BY <1>7, <3>2 DEF Release, EndCall, Control, TypeOK
      <4> QED BY <4>1, <4>2, <4>3 DEF Answers
    <3> QED BY <3>1, <3>2
  <2> QED BY <2>1, <2>2 DEF Answers
<1>8. ASSUME NEW t \in Targets, LingerEnds(t) PROVE Answers'
  BY <1>8 DEF LingerEnds, Answers, Told, Clean, Control, TypeOK
<1>9. CASE Crash
  <2>1. \A h \in Calls : pc'[h] = "idle"
    BY <1>9 DEF Crash
  <2>2. ASSUME NEW t \in Targets, acked'[t] = "none" PROVE Clean(t)'
    <3>1. acked[t] = "none" /\ \A h \in waiting : tgt[h] = t => op[h] # "publish"
      BY <1>9, <2>2 DEF Crash, Control, TypeOK
    <3>2. ~ Held(t)
      BY <3>1 DEF Answers, Told, Control, TypeOK, Locked
    <3>3. Clean(t)
      BY <3>1, <3>2 DEF Answers
    <3> QED BY <1>9, <3>3 DEF Crash, Clean, Served
  <2> QED BY <2>1, <2>2 DEF Answers
<1>10. CASE BootStep
  <2>1. /\ \A h \in Calls : pc[h] = "idle"
        /\ UNCHANGED <<pc, op, tgt, waiting, acked, store>>
    BY <1>10 DEF BootStep, StartServing, RemountSucceeds, RemountFails, Control, BootAlone
  <2>2. ASSUME NEW t \in Targets, acked[t] = "none" PROVE Clean(t)'
    <3>1. Clean(t)
      BY <2>1, <2>2 DEF Answers, Locked
    <3>2. t \notin boot
      BY <3>1 DEF Clean, Control, BootAlone
    <3> QED
      BY <1>10, <3>1, <3>2 DEF BootStep, StartServing, RemountSucceeds, RemountFails, Clean,
         Control, TypeOK
  <2> QED BY <2>1, <2>2 DEF Answers
<1>11. CASE UNCHANGED vars
  BY <1>11 DEF vars, Answers, Told, Clean
<1> QED
  BY <1>1, <1>2, <1>3, <1>4, <1>5, <1>6, <1>7, <1>8, <1>9, <1>10, <1>11
     DEF Next, CallStep, LockStep, Working

(* What kubelet was told is unpublished leaves no mount, no mountContext   *)
(* entry and no Secret behind, also after crashes (NodeUnpublishVolume).   *)
THEOREM UnpublishLeavesNothing == Spec => []UnpublishedIsClean
<1>1. Control /\ Answers => UnpublishedIsClean
  BY DEF Answers, Clean, UnpublishedIsClean, Quiet
<1> QED BY <1>1, ControlHolds, EmptiedInit, EmptiedStep, AnswersInit, AnswersStep, PTL DEF Spec

-----------------------------------------------------------------------------
(* Config sections: with a volume per target nobody removes another's.     *)
OneTargetPerVolume == \A s, t \in Targets : VolumeOf[s] = VolumeOf[t] => s = t

LEMMA SectionsOfOthers ==
  ASSUME Control, OneTargetPerVolume, NEW g \in Calls, NEW h \in Calls, g # h,
         pc[h] \in Locked, mnt[g] = "newfs"
  PROVE  Vol(g) # Vol(h)
<1>1. pc[g] \in Locked
  BY DEF Control, Phases, Locked
<1>2. tgt[g] # tgt[h] /\ tgt[g] \in Targets /\ tgt[h] \in Targets
  BY <1>1, OwnersApart
<1> QED BY <1>2 DEF OneTargetPerVolume, Vol

LEMMA SectionsStep ==
  ASSUME Control, OneTargetPerVolume, SectionsPresent, [Next]_vars
  PROVE  SectionsPresent'
<1>1. ASSUME NEW h \in Calls, Working(h) PROVE SectionsPresent'
  <2>1. /\ pc[h] \in Locked
        /\ \A g \in Calls \ {h} : mnt'[g] = mnt[g]
        /\ UNCHANGED tgt
    BY <1>1, WorkersAreInside, WorkIsHome DEF Home, Control
  <2>2. \/ loaded \subseteq loaded'
        \/ loaded' = loaded \ {Vol(h)}
    <3>1. CASE PublishStep(h)
      BY <3>1 DEF PublishStep, AlreadyPublished, PrepareTarget, PrepareFails, LoadConfig,
         LoadConfigFails, CollectMount, CollectFailure, HandOff, SaveState
    <3>2. CASE ReapStep(h)
      BY <3>2 DEF ReapStep, Reap, DetachOrphan, DropRemotes
    <3>3. CASE UnpublishStep(h)
      BY <3>3 DEF UnpublishStep, GracefulUnmount, SkipGraceful, ForceCleanup, Forget
    <3>4. CASE MountStep(h)
      BY <3>4 DEF MountStep, NewFs, Mount, MountFails
    <3> QED BY <1>1, <3>1, <3>2, <3>3, <3>4 DEF Working
  <2>3. mnt'[h] = "newfs" => Vol(h) \in loaded'
    <3> USE DEF Goto, Control, TypeOK, Phases, SectionsPresent
    <3>1. CASE PublishStep(h)
      BY <3>1 DEF PublishStep, AlreadyPublished, PrepareTarget, PrepareFails, LoadConfig,
         LoadConfigFails, CollectMount, CollectFailure, HandOff, SaveState
    <3>2. CASE ReapStep(h)
      BY <3>2 DEF ReapStep, Reap, DetachOrphan, DropRemotes
    <3>3. CASE UnpublishStep(h)
      BY <3>3 DEF UnpublishStep, GracefulUnmount, SkipGraceful, ForceCleanup, Forget
    <3>4. CASE MountStep(h)
      BY <3>4 DEF MountStep, NewFs, Mount, MountFails
    <3> QED BY <1>1, <3>1, <3>2, <3>3, <3>4 DEF Working
  <2>4. ASSUME NEW g \in Calls \ {h}, mnt[g] = "newfs" PROVE Vol(g) \in loaded'
    <3>1. Vol(g) # Vol(h)
      BY <2>1, <2>4, SectionsOfOthers
    <3> QED BY <2>2, <2>4, <3>1 DEF SectionsPresent
  <2> QED BY <2>1, <2>3, <2>4 DEF SectionsPresent, Vol
<1>2. ASSUME NEW h \in Calls, NEW t \in Targets, NEW o \in {"publish", "unpublish"}, Begin(h, t, o)
      PROVE SectionsPresent'
  BY <1>2 DEF Begin, SectionsPresent, Vol, Control, TypeOK, Phases
<1>3. ASSUME NEW h \in Calls, Abandon(h) \/ LockStep(h) \/ Release(h) PROVE SectionsPresent'
  <2> USE DEF SectionsPresent, Vol, Control, TypeOK, Phases
  <2>1. CASE Abandon(h)
    BY <2>1 DEF Abandon
  <2>2. CASE Acquire(h)
    BY <2>2 DEF Acquire, Goto
  <2>3. CASE Retry(h)
    BY <2>3 DEF Retry
  <2>4. CASE RefuseBusy(h)
    BY <2>4 DEF RefuseBusy, EndCall
  <2>5. CASE Release(h)
    BY <2>5 DEF Release, EndCall
  <2> QED BY <1>3, <2>1, <2>2, <2>3, <2>4, <2>5 DEF LockStep
<1>4. ASSUME NEW t \in Targets, LingerEnds(t) PROVE SectionsPresent'
  BY <1>4 DEF LingerEnds, SectionsPresent, Vol
<1>5. CASE Crash
  BY <1>5 DEF Crash, SectionsPresent
<1>6. CASE BootStep
  <2>1. (\A h \in Calls : mnt[h] = "none") /\ UNCHANGED mnt
    BY <1>6 DEF BootStep, StartServing, RemountSucceeds, RemountFails, Control,
       BootAlone, Phases, TypeOK
  <2> QED BY <2>1 DEF SectionsPresent
<1>7. CASE UNCHANGED vars
  BY <1>7 DEF vars, SectionsPresent, Vol
<1> QED
  BY <1>1, <1>2, <1>3, <1>4, <1>5, <1>6, <1>7 DEF Next, CallStep, Working

(* If no two targets share a volume, a mount attempt finds its config      *)
(* sections (prepareIsolatedConfig, cleanupConfigRemotes). The premise is  *)
(* needed: with a shared volume TLC finds a counterexample.                *)
THEOREM SectionsSafe ==
  ASSUME OneTargetPerVolume PROVE Spec => []SectionsPresent
<1>1. Init => SectionsPresent
  BY DEF Init, SectionsPresent
<1>2. Control /\ SectionsPresent /\ [Next]_vars => SectionsPresent'
  BY SectionsStep
<1> QED BY <1>1, <1>2, ControlHolds, PTL DEF Spec

-----------------------------------------------------------------------------
(* A restart mounts again what is mounted, unless SaveState has failed.    *)
Claimed(t) ==
  \/ t \in mctx
  \/ acked[t] = "published"
  \/ \E h \in Calls : tgt[h] = t /\ op[h] = "publish" /\ pc[h] = "releaseOk"

Durable(t) ==
  t \in store \/ logged[t] # "none" \/ \E h \in Calls : tgt[h] = t /\ pc[h] = "save"

Saved == \A t \in Targets : Claimed(t) => Durable(t)

LEMMA SavedInit == Init => Saved
  BY DEF Init, Saved, Claimed

LEMMA SavedOfWorker ==
  ASSUME Control, Answers, Saved, NEW h \in Calls, Working(h)
  PROVE  /\ acked'[tgt[h]] = "published" => acked[tgt[h]] = "published"
         /\ \/ tgt[h] \in mctx'
            \/ acked'[tgt[h]] = "published"
            \/ op[h] = "publish" /\ pc'[h] = "releaseOk"
            => tgt[h] \in store' \/ logged'[tgt[h]] # "none" \/ pc'[h] = "save"
<1>1. tgt[h] \in Targets /\ pc[h] \in Locked
  BY WorkersAreInside DEF Control, TypeOK, Locked
<1>2. acked'[tgt[h]] = "published" => acked[tgt[h]] = "published"
  BY <1>1, WorkersAnswer DEF Control, TypeOK
<1>3. Claimed(tgt[h]) => tgt[h] \in store \/ logged[tgt[h]] # "none" \/ pc[h] = "save"
  <2>1. \A g \in Calls : tgt[g] = tgt[h] /\ pc[g] = "save" => g = h
    BY <1>1, OwnersApart DEF Locked
  <2> QED BY <1>1, <2>1 DEF Saved, Durable
<1>4. op[h] = "unpublish" => acked[tgt[h]] = "tearing"
  BY <1>1 DEF Answers, Told, Locked
<1> USE <1>1, <1>2, <1>3, <1>4 DEF Claimed, Control, TypeOK, Phases, Goto, PublishOnly,
    UnpublishOnly
<1>5. CASE PublishStep(h)
  <2>1. CASE AlreadyPublished(h)
    BY <2>1 DEF AlreadyPublished
  <2>2. CASE SaveState(h)
    BY <2>2 DEF SaveState
  <2>3. CASE ~AlreadyPublished(h) /\ ~SaveState(h)
    BY <1>5, <2>3 DEF PublishStep, PrepareTarget, PrepareFails, LoadConfig,
       LoadConfigFails, CollectMount, CollectFailure, HandOff
  <2> QED BY <2>1, <2>2, <2>3
<1>6. CASE ReapStep(h)
  BY <1>6 DEF ReapStep, Reap, DetachOrphan, DropRemotes
<1>7. CASE UnpublishStep(h)
  BY <1>7 DEF UnpublishStep, GracefulUnmount, SkipGraceful, ForceCleanup, Forget
<1>8. CASE MountStep(h)
  BY <1>8 DEF MountStep, NewFs, Mount, MountFails
<1> QED BY <1>5, <1>6, <1>7, <1>8 DEF Working

LEMMA SavedStep == Control /\ Answers /\ Saved /\ [Next]_vars => Saved'
<1> SUFFICES ASSUME Control, Answers, Saved, [Next]_vars, NEW t \in Targets, Claimed(t)'
             PROVE  Durable(t)'
  BY DEF Saved
<1>1. ASSUME NEW h \in Calls, Working(h) PROVE Durable(t)'
  <2>1. /\ Home(h)
        /\ pc[h] \in Locked
        /\ \A g \in Calls \ {h} : pc'[g] = pc[g]
    BY <1>1, WorkIsHome, WorkersAreInside DEF Control
  <2>2. CASE t = tgt[h]
    <3>1. CASE \E g \in Calls \ {h} : tgt[g] = t /\ op[g] = "publish" /\ pc[g] = "releaseOk"
      BY <2>1, <2>2, <3>1, OwnersApart DEF Locked
    <3>2. CASE ~\E g \in Calls \ {h} : tgt[g] = t /\ op[g] = "publish" /\ pc[g] = "releaseOk"
      <4>1. t \in mctx' \/ acked'[t] = "published" \/ (op[h] = "publish" /\ pc'[h] = "releaseOk")
        BY <2>1, <3>2 DEF Claimed, Home
      <4> QED BY <1>1, <2>1, <2>2, <4>1, SavedOfWorker DEF Durable, Home
    <3> QED BY <3>1, <3>2
  <2>3. CASE t # tgt[h]
    <3>1. acked'[t] = acked[t]
      BY <1>1, <2>3, WorkersAnswer DEF Control, TypeOK
    <3>2. Claimed(t)
      BY <2>1, <2>3, <3>1 DEF Claimed, Home
    <3>3. Durable(t)
      BY <3>2 DEF Saved
    <3> QED BY <2>1, <2>3, <3>3 DEF Durable, Home
  <2> QED BY <2>2, <2>3
<1> USE DEF Control, TypeOK, Saved, Claimed, Durable
<1>2. ASSUME NEW h \in Calls, NEW u \in Targets, NEW o \in {"publish", "unpublish"}, Begin(h, u, o)
      PROVE Durable(t)'
  BY <1>2 DEF Begin
<1>3. ASSUME NEW h \in Calls, Abandon(h) PROVE Durable(t)'
  BY <1>3 DEF Abandon, Answer
<1>4. ASSUME NEW h \in Calls, Acquire(h) PROVE Durable(t)'
  BY <1>4 DEF Acquire, Goto
<1>5. ASSUME NEW h \in Calls, Retry(h) PROVE Durable(t)'
  BY <1>5 DEF Retry
<1>6. ASSUME NEW h \in Calls, RefuseBusy(h) PROVE Durable(t)'
  BY <1>6 DEF RefuseBusy, EndCall, Answer
<1>7. ASSUME NEW h \in Calls, Release(h) PROVE Durable(t)'
  <2>1. /\ pc[h] \in {"releaseOk", "releaseErr"}
        /\ \A g \in Calls \ {h} : pc'[g] = pc[g] /\ op'[g] = op[g] /\ tgt'[g] = tgt[g]
        /\ pc'[h] = "idle"
        /\ UNCHANGED <<mctx, store, logged>>
        /\ acked'[t] = "published" => acked[t] = "published"
                                      \/ (tgt[h] = t /\ op[h] = "publish" /\ pc[h] = "releaseOk")
    BY <1>7 DEF Release, EndCall, Answer
  <2>2. Claimed(t)
    BY <2>1
  <2> QED BY <2>1, <2>2
<1>8. ASSUME NEW u \in Targets, LingerEnds(u) PROVE Durable(t)'
  BY <1>8 DEF LingerEnds
<1>9. CASE Crash
  <2>1. acked[t] = "published" /\ \A h \in waiting : tgt[h] = t => op[h] # "publish"
    BY <1>9 DEF Crash
  <2>2. \A h \in Calls : pc[h] = "save" => tgt[h] # t
    BY <2>1 DEF Answers, Told, Locked, Phases, PublishOnly
  <2>3. t \in store \/ logged[t] # "none"
    BY <2>1, <2>2
  <2> QED BY <1>9, <2>3 DEF Crash
<1>10. CASE BootStep
  BY <1>10 DEF BootStep, StartServing, RemountSucceeds, RemountFails, BootAlone
<1>11. CASE UNCHANGED vars
  BY <1>11 DEF vars
<1> QED
  BY <1>1, <1>2, <1>3, <1>4, <1>5, <1>6, <1>7, <1>8, <1>9, <1>10, <1>11
     DEF Next, CallStep, LockStep, Working

-----------------------------------------------------------------------------
(* What kubelet believes published. A mount whose context is cancelled is  *)
(* taken down by whoever cancelled it, or its failure has been logged, and *)
(* a caller that waits gets the idempotent answer for no other.            *)
Ready(t) == (kernel[t] = "live" /\ t \in mctx) \/ linger[t] = "struck"

TakesDown(h) == pc[h] \in {"cleanup", "detach"} \/ (pc[h] = "reap" /\ mnt[h] = "ok")

DeadIsDoomed ==
  \A t \in Targets : kernel[t] = "dead" =>
    \/ logged[t] = "mount"
    \/ acked[t] = "tearing"
    \/ \E h \in Calls : tgt[h] = t /\ TakesDown(h)

Attempt(h) ==
  /\ pc[h] \in {"wait", "reap"} => mnt[h] # "none"
  /\ mnt[h] = "err" => kernel[tgt[h]] # "live"
  /\ pc[h] = "wait" /\ mnt[h] = "ok" => kernel[tgt[h]] = "live" \/ linger[tgt[h]] = "struck"
  /\ pc[h] = "save" => Ready(tgt[h])
  /\ pc[h] = "save" \/ (pc[h] = "wait" /\ mnt[h] = "ok") => kernel[tgt[h]] # "dead"
  /\ pc[h] = "releaseOk" /\ op[h] = "publish" /\ h \in waiting =>
       Ready(tgt[h]) \/ logged[tgt[h]] = "mount"

Attempts == \A h \in Calls : Attempt(h)

(* A publish that has touched a published target has not answered yet.     *)
Believed ==
  \A t \in Targets : acked[t] = "published" =>
    \/ Ready(t) \/ t \in boot \/ logged[t] = "mount"
    \/ \E h \in Calls : tgt[h] = t /\ pc[h] \in Locked \ {"prepare"}

Kept == DeadIsDoomed /\ Attempts /\ Believed

LEMMA KeptInit == Init => Kept
  BY DEF Init, Kept, DeadIsDoomed, Attempts, Attempt, Believed

(* What a call that works on a target leaves there.                        *)
LEMMA KeptOfWorker ==
  ASSUME Control, Paths, Answers, Kept, NEW h \in Calls, Working(h)
  PROVE  /\ kernel'[tgt[h]] = "dead" =>
              logged'[tgt[h]] = "mount" \/ acked'[tgt[h]] = "tearing" \/ TakesDown(h)'
         /\ Attempt(h)'
         /\ pc'[h] # "prepare"
<1>0. /\ tgt[h] \in Targets /\ pc[h] \in Locked
      /\ kernel[tgt[h]] = "dead" =>
           logged[tgt[h]] = "mount" \/ acked[tgt[h]] = "tearing" \/ TakesDown(h)
  <2>1. pc[h] \in Locked /\ tgt[h] \in Targets
    BY WorkersAreInside DEF Control, TypeOK, Locked
  <2>2. \A g \in Calls : tgt[g] = tgt[h] /\ TakesDown(g) => g = h
    BY <2>1, OwnersApart DEF TakesDown, Locked
  <2> QED BY <2>1, <2>2 DEF Kept, DeadIsDoomed
<1>00. Attempt(h) /\ Told(h)
  BY <1>0 DEF Kept, Attempts, Answers, Locked
<1>01. acked[tgt[h]] = "tearing" => acked'[tgt[h]] = "tearing"
  BY <1>0, <1>00, WorkersAnswer DEF Told, Control, TypeOK
<1>02. waiting' \subseteq waiting
  BY WorkersAnswer
<1> USE <1>0, <1>00, <1>01, <1>02 DEF Control, Phases, TypeOK, Paths, Attempt, Ready, TakesDown,
    Told, Goto, PublishOnly, UnpublishOnly, Served
<1>1. CASE PublishStep(h)
  <2>1. CASE AlreadyPublished(h)
    BY <2>1 DEF AlreadyPublished
  <2>2. CASE PrepareTarget(h) \/ PrepareFails(h) \/ LoadConfig(h) \/ LoadConfigFails(h)
    BY <2>2 DEF PrepareTarget, PrepareFails, LoadConfig, LoadConfigFails
  <2>3. CASE CollectMount(h) \/ CollectFailure(h)
    BY <2>3 DEF CollectMount, CollectFailure
  <2>4. CASE SaveState(h)
    BY <2>4 DEF SaveState
  <2>5. CASE HandOff(h)
    BY <2>5 DEF HandOff
  <2> QED BY <1>1, <2>1, <2>2, <2>3, <2>4, <2>5 DEF PublishStep
<1>2. CASE ReapStep(h)
  <2>1. CASE Reap(h)
    BY <2>1 DEF Reap
  <2>2. CASE DetachOrphan(h)
    BY <2>2 DEF DetachOrphan
  <2>3. CASE DropRemotes(h)
    BY <2>3 DEF DropRemotes
  <2> QED BY <1>2, <2>1, <2>2, <2>3 DEF ReapStep
<1>3. CASE UnpublishStep(h)
  <2>1. acked'[tgt[h]] = "tearing" /\ op[h] = "unpublish"
    BY <1>3 DEF UnpublishStep, GracefulUnmount, SkipGraceful, ForceCleanup, Forget
  <2> QED BY <1>3, <2>1 DEF UnpublishStep, GracefulUnmount, SkipGraceful, ForceCleanup, Forget
<1>4. CASE MountStep(h)
  BY <1>4 DEF MountStep, NewFs, Mount, MountFails
<1> QED BY <1>1, <1>2, <1>3, <1>4 DEF Working

(* At the end of the process: what is claimed has a Secret, or its error   *)
(* was logged, or its publish has not been answered.                       *)
LEMMA CrashKeeps ==
  ASSUME Control, Answers, Saved, Crash
  PROVE  Kept'
<1>1. DeadIsDoomed' /\ Attempts'
  BY DEF Crash, DeadIsDoomed, Attempts, Attempt, Served
<1>2. ASSUME NEW t \in Targets, acked'[t] = "published" PROVE t \in boot' \/ logged'[t] = "mount"
  <2>1. acked[t] = "published" /\ \A h \in waiting : tgt[h] = t => op[h] # "publish"
    BY <1>2 DEF Crash, Control, TypeOK
  <2>2. \A h \in Calls : pc[h] = "save" => tgt[h] # t
    BY <2>1 DEF Answers, Told, Locked, Control, Phases, PublishOnly
  <2>3. t \in store \/ logged[t] # "none"
    BY <2>1, <2>2 DEF Saved, Claimed, Durable
  <2>4. logged'[t] = IF boot' = {} \/ logged[t] = "save" THEN "mount" ELSE logged[t]
    BY DEF Crash
  <2>5. boot' = store \/ boot' = {}
    BY DEF Crash
  <2>6. logged[t] \in {"none", "save", "mount"}
    BY DEF Control, TypeOK
  <2> QED BY <2>3, <2>4, <2>5, <2>6
<1>3. Believed'
  BY <1>2 DEF Believed
<1> QED BY <1>1, <1>3 DEF Kept

LEMMA KeptStep == Control /\ Paths /\ Answers /\ Saved /\ Kept /\ [Next]_vars => Kept'
<1> SUFFICES ASSUME Control, Paths, Answers, Saved, Kept, [Next]_vars PROVE Kept'
  OBVIOUS
<1>1. ASSUME NEW h \in Calls, Working(h) PROVE Kept'
  <2>1. /\ Home(h)
        /\ pc[h] \in Locked /\ pc'[h] \in Locked
        /\ \A g \in Calls \ {h} : pc'[g] = pc[g] /\ mnt'[g] = mnt[g]
        /\ tgt[h] \in Targets
    BY <1>1, WorkIsHome, WorkersAreInside DEF Control, TypeOK, Locked
  <2>2. /\ kernel'[tgt[h]] = "dead" =>
             logged'[tgt[h]] = "mount" \/ acked'[tgt[h]] = "tearing" \/ TakesDown(h)'
        /\ Attempt(h)'
        /\ pc'[h] # "prepare"
    BY <1>1, KeptOfWorker
  <2>3. ASSUME NEW t \in Targets, t # tgt[h]
        PROVE  (Ready(t)' <=> Ready(t)) /\ acked'[t] = acked[t]
    <3>1. Ready(t)' <=> Ready(t)
      BY <2>1, <2>3 DEF Home, Ready
    <3>2. acked'[t] = acked[t]
      BY <1>1, <2>3, WorkersAnswer DEF Control, TypeOK
    <3> QED BY <3>1, <3>2
  <2>4. DeadIsDoomed'
    <3> SUFFICES ASSUME NEW t \in Targets, kernel'[t] = "dead"
                 PROVE  \/ logged'[t] = "mount" \/ acked'[t] = "tearing"
                        \/ \E g \in Calls : tgt'[g] = t /\ TakesDown(g)'
      BY DEF DeadIsDoomed
    <3>1. CASE t = tgt[h]
      BY <2>1, <2>2, <3>1 DEF Home
    <3>2. CASE t # tgt[h]
      <4>1. CASE logged[t] = "mount" \/ acked[t] = "tearing"
        BY <2>1, <2>3, <3>2, <4>1 DEF Home
      <4>2. CASE ~(logged[t] = "mount" \/ acked[t] = "tearing")
        <5>1. PICK g \in Calls : tgt[g] = t /\ TakesDown(g)
          BY <2>1, <3>2, <4>2 DEF Home, Kept, DeadIsDoomed
        <5> QED BY <2>1, <3>2, <5>1 DEF Home, TakesDown
      <4> QED BY <4>1, <4>2
    <3> QED BY <3>1, <3>2
  <2>5. Attempts'
    <3> SUFFICES ASSUME NEW g \in Calls \ {h} PROVE Attempt(g)'
      BY <2>2 DEF Attempts
    <3>0. /\ Attempt(g) /\ pc'[g] = pc[g] /\ mnt'[g] = mnt[g] /\ op'[g] = op[g] /\ tgt'[g] = tgt[g]
          /\ g \in waiting' => g \in waiting
      BY <1>1, <2>1, WorkersAnswer DEF Kept, Attempts, Home
    <3>1. CASE pc[g] \in Locked
      <4>1. tgt[g] \in Targets \ {tgt[h]}
        BY <2>1, <3>1, OwnersApart
      <4>2. /\ Ready(tgt[g])' <=> Ready(tgt[g])
            /\ kernel'[tgt[g]] = kernel[tgt[g]] /\ linger'[tgt[g]] = linger[tgt[g]]
            /\ logged'[tgt[g]] = logged[tgt[g]]
        BY <2>1, <2>3, <4>1 DEF Home
      <4> QED BY <3>0, <4>2 DEF Attempt, Ready
    <3>2. CASE pc[g] \notin Locked
      BY <3>0, <3>2 DEF Attempt, Locked, Control, Phases, TypeOK
    <3> QED BY <3>1, <3>2
  <2>6. Believed'
    <3> SUFFICES ASSUME NEW t \in Targets, acked'[t] = "published"
                 PROVE  \/ Ready(t)' \/ t \in boot' \/ logged'[t] = "mount"
                        \/ \E g \in Calls : tgt'[g] = t /\ pc'[g] \in Locked \ {"prepare"}
      BY DEF Believed
    <3>1. CASE t = tgt[h]
      BY <2>1, <2>2, <3>1 DEF Home
    <3>2. CASE t # tgt[h]
      <4>1. \/ Ready(t) \/ t \in boot \/ logged[t] = "mount"
            \/ \E g \in Calls : tgt[g] = t /\ pc[g] \in Locked \ {"prepare"}
        BY <2>3, <3>2 DEF Kept, Believed
      <4> QED BY <2>1, <2>3, <3>2, <4>1 DEF Home
    <3> QED BY <3>1, <3>2
  <2> QED BY <2>4, <2>5, <2>6 DEF Kept
<1>2. ASSUME NEW h \in Calls, NEW t \in Targets, NEW o \in {"publish", "unpublish"}, Begin(h, t, o)
      PROVE Kept'
  <2> USE <1>2 DEF Begin, Control, TypeOK, Phases, Kept, Ready, Locked
  <2>1. DeadIsDoomed'
    BY DEF DeadIsDoomed, TakesDown
  <2>2. Attempts'
    BY DEF Attempts, Attempt
  <2>3. Believed'
    BY DEF Believed
  <2> QED BY <2>1, <2>2, <2>3
<1>3. ASSUME NEW h \in Calls, Abandon(h) PROVE Kept'
  <2> USE <1>3 DEF Abandon, Answer, Control, TypeOK, Kept, Ready, Answers, Told, Callers
  <2>1. DeadIsDoomed' /\ Attempts'
    BY DEF DeadIsDoomed, TakesDown, Attempts, Attempt
  <2>2. Believed'
    BY DEF Believed
  <2> QED BY <2>1, <2>2
<1>4. ASSUME NEW h \in Calls, Acquire(h) PROVE Kept'
  <2> USE <1>4 DEF Acquire, Goto, Control, TypeOK, Phases, Kept, Ready
  <2>1. DeadIsDoomed'
    BY DEF DeadIsDoomed, TakesDown
  <2>2. Attempts'
    BY DEF Attempts, Attempt
  <2>3. \A g \in Calls : pc[g] \in Locked => tgt[g] # tgt[h]
    BY DEF Owned
  <2>4. Believed'
    BY <2>3 DEF Believed, Locked
  <2> QED BY <2>1, <2>2, <2>4
<1>5. ASSUME NEW h \in Calls, Retry(h) PROVE Kept'
  BY <1>5 DEF Retry, Kept, DeadIsDoomed, TakesDown, Attempts, Attempt, Believed, Ready
<1>6. ASSUME NEW h \in Calls, RefuseBusy(h) PROVE Kept'
  <2> USE <1>6 DEF RefuseBusy, EndCall, Answer, Control, TypeOK, Phases, Kept, Ready, Locked,
      Answers, Told, Callers
  <2>1. DeadIsDoomed'
    BY DEF DeadIsDoomed, TakesDown
  <2>2. Attempts'
    BY DEF Attempts, Attempt
  <2>3. Believed'
    BY DEF Believed
  <2> QED BY <2>1, <2>2, <2>3
<1>7. ASSUME NEW h \in Calls, Release(h) PROVE Kept'
  <2>0. /\ pc[h] \in {"releaseOk", "releaseErr"} /\ tgt[h] \in Targets
        /\ \A g \in Calls \ {h} : /\ pc'[g] = pc[g] /\ mnt'[g] = mnt[g] /\ op'[g] = op[g]
                                  /\ tgt'[g] = tgt[g] /\ (g \in waiting' <=> g \in waiting)
        /\ pc'[h] = "idle" /\ mnt'[h] = "none"
        /\ UNCHANGED <<kernel, linger, mctx, logged, boot>>
    BY <1>7 DEF Release, EndCall, Answer, Control, TypeOK, Phases
  <2>01. Told(h)
    BY <2>0 DEF Answers
  <2>1. DeadIsDoomed'
    <3> SUFFICES ASSUME NEW t \in Targets, kernel[t] = "dead", acked[t] = "tearing"
                 PROVE  acked'[t] = "tearing"
      BY <2>0 DEF DeadIsDoomed, TakesDown, Kept
    <3> QED BY <1>7, <2>0, <2>01 DEF Release, Answer, Told, Clean, Control, TypeOK
  <2>2. Attempts'
    BY <2>0 DEF Attempts, Attempt, Ready, Kept
  <2>3. Believed'
    <3> SUFFICES ASSUME NEW t \in Targets, acked'[t] = "published"
                 PROVE  \/ Ready(t)' \/ t \in boot' \/ logged'[t] = "mount"
                        \/ \E g \in Calls : tgt'[g] = t /\ pc'[g] \in Locked \ {"prepare"}
      BY DEF Believed
    <3>1. CASE t # tgt[h]
      <4>1. acked[t] = "published"
        BY <1>7, <2>0, <3>1 DEF Release, Answer, Control, TypeOK
      <4> QED BY <2>0, <3>1, <4>1 DEF Kept, Believed, Ready, Locked
    <3>2. CASE t = tgt[h]
      <4>1. h \in waiting /\ pc[h] = "releaseOk" /\ op[h] = "publish"
        BY <1>7, <2>0, <2>01, <3>2 DEF Release, Answer, Control, TypeOK, Locked, Told
      <4>2. Ready(t) \/ logged[t] = "mount"
        BY <3>2, <4>1 DEF Kept, Attempts, Attempt
      <4> QED BY <2>0, <4>2 DEF Ready
    <3> QED BY <3>1, <3>2
  <2> QED BY <2>1, <2>2, <2>3 DEF Kept
<1>8. ASSUME NEW t \in Targets, LingerEnds(t) PROVE Kept'
  <2>1. \A u \in Targets : Ready(u) => Ready(u)'
    BY <1>8 DEF LingerEnds, Ready, Served, Control, TypeOK
  <2>2. DeadIsDoomed'
    BY <1>8 DEF LingerEnds, Kept, DeadIsDoomed, TakesDown, Control, TypeOK
  <2>3. Attempts'
    BY <1>8, <2>1 DEF LingerEnds, Kept, Attempts, Attempt, Served, Control, TypeOK, Phases, Locked
  <2>4. Believed'
    BY <1>8, <2>1 DEF LingerEnds, Kept, Believed
  <2> QED BY <2>2, <2>3, <2>4 DEF Kept
<1>9. CASE Crash
  BY <1>9, CrashKeeps
<1>10. CASE BootStep
  <2>1. /\ \A h \in Calls : pc[h] = "idle" /\ mnt[h] = "none"
        /\ UNCHANGED <<pc, mnt, tgt, op, acked>>
    BY <1>10 DEF BootStep, StartServing, RemountSucceeds, RemountFails, Control, BootAlone,
       Phases, TypeOK
  <2>2. Attempts'
    BY <2>1 DEF Attempts, Attempt
  <2>3. CASE StartServing
    BY <2>1, <2>2, <2>3 DEF StartServing, Kept, DeadIsDoomed, Believed, TakesDown, Ready
  <2>4. ASSUME NEW t \in Targets, RemountSucceeds(t) \/ RemountFails(t)
        PROVE  DeadIsDoomed' /\ Believed'
    <3>1. /\ \A u \in Targets \ {t} : /\ kernel'[u] = kernel[u] /\ logged'[u] = logged[u]
                                      /\ (u \in mctx' <=> u \in mctx) /\ (u \in boot' <=> u \in boot)
          /\ UNCHANGED linger
          /\ logged'[t] = "mount" \/ (kernel'[t] = "live" /\ t \in mctx')
      BY <2>4 DEF RemountSucceeds, RemountFails, Control, TypeOK
    <3>2. DeadIsDoomed'
      BY <2>1, <3>1 DEF Kept, DeadIsDoomed, TakesDown
    <3>3. Believed'
      BY <2>1, <3>1 DEF Kept, Believed, Ready, Locked
    <3> QED BY <3>2, <3>3
  <2> QED BY <1>10, <2>2, <2>3, <2>4 DEF BootStep, Kept
<1>11. CASE UNCHANGED vars
  BY <1>11 DEF vars, Kept, DeadIsDoomed, TakesDown, Attempts, Attempt, Believed, Ready
<1> QED
  BY <1>1, <1>2, <1>3, <1>4, <1>5, <1>6, <1>7, <1>8, <1>9, <1>10, <1>11
     DEF Next, CallStep, LockStep, Working

LEMMA KeptIsServed == Saved /\ Kept => PublishedIsServed
  BY DEF Saved, Claimed, Durable, Kept, Believed, Ready, PublishedIsServed, Quiet

(* A target kubelet believes published has its mount, its mountContext     *)
(* entry and its Secret, also after restarts, unless what broke it has     *)
(* been logged (nodePublishVolumeDirect, reapOrphanMount, RemountState).   *)
THEOREM PublishedSafe == Spec => []PublishedIsServed
<1>1. Control /\ Paths /\ Answers /\ Saved /\ Kept /\ [Next]_vars => Kept'
  BY KeptStep
<1> QED
  BY <1>1, ControlHolds, PathsInit, PathsStep, EmptiedInit, EmptiedStep, AnswersInit, AnswersStep,
     SavedInit, SavedStep, KeptInit, KeptIsServed, PTL DEF Spec
=============================================================================
