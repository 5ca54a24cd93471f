------------------------ MODULE DriverShutdown_proofs ------------------------
(* Proofs about the graceful shutdown, for any targets, volumes and calls. *)
(* Every step is one of DirectNode, which the lemmas about DirectNode      *)
(* cover, or one of UnmountAll and of the server that stops.               *)
EXTENDS DriverShutdown, DirectNodeSafety_proofs

USE DEF handlerVars, driverVars, bootVars, sweepVars

(* What UnmountAll changes on the node: its target, and nothing of a call. *)
SweepIsLocal(t) ==
  /\ UNCHANGED <<handlerVars, mnt, waiting, locks, store, acked, logged, bootVars>>
  /\ \A u \in Targets \ {t} :
       /\ kernel'[u] = kernel[u]
       /\ u \in mctx' <=> u \in mctx
       /\ sweep'[u] = sweep[u]
  /\ kernel[t] \in {"absent", "dir"} => kernel'[t] \in {"absent", "dir"}
  /\ kernel[t] = "absent" => kernel'[t] = "absent"
  /\ mctx' \subseteq mctx
  /\ UNCHANGED <<open, sweeping, cut>>

LEMMA SweepStaysLocal ==
  ASSUME ShutdownTypeOK, NEW t \in Targets, SweepStep(t)
  PROVE  SweepIsLocal(t) /\ ShutdownTypeOK'
<1> USE DEF ShutdownTypeOK, TypeOK, SweepGoto, SweepIsLocal, Served, Kernels, SweepPCs
<1>1. CASE SweepUnmount(t)
  BY <1>1 DEF SweepUnmount
<1>2. CASE SweepCleanup(t)
  BY <1>2 DEF SweepCleanup
<1>3. CASE SweepForget(t)
  BY <1>3 DEF SweepForget
<1> QED BY <1>1, <1>2, <1>3 DEF SweepStep

(* The steps that DirectNode has too.                                      *)
LEMMA OldSteps ==
  /\ \A h \in Calls, t \in Targets, o \in {"publish", "unpublish"} : BeginCall(h, t, o) => Next
  /\ GoOn => Next
  /\ Terminate => UNCHANGED vars
  /\ Exit => Next
  BY DEF BeginCall, GoOn, MountAttempt, Terminate, Exit, Next

LEMMA ShutdownTypeStep == ShutdownTypeOK /\ [ShutdownNext]_allVars => ShutdownTypeOK'
<1> SUFFICES ASSUME ShutdownTypeOK, [ShutdownNext]_allVars PROVE ShutdownTypeOK'
  OBVIOUS
<1> USE DEF ShutdownTypeOK, SweepPCs
<1>1. ASSUME NEW h \in Calls, NEW t \in Targets, NEW o \in {"publish", "unpublish"},
             BeginCall(h, t, o)
      PROVE  ShutdownTypeOK'
  <2>1. TypeOK'
    BY <1>1, OldSteps, TypeStep
  <2> QED BY <1>1, <2>1 DEF BeginCall
<1>2. CASE GoOn
  <2>1. TypeOK'
    BY <1>2, OldSteps, TypeStep
  <2> QED BY <1>2, <2>1 DEF GoOn, sweepVars
<1>3. CASE Terminate
  <2>1. TypeOK'
    BY <1>3, OldSteps, TypeStep
  <2>2. /\ open' \in BOOLEAN /\ sweeping' \in BOOLEAN
        /\ sweep' \in [Targets -> SweepPCs]
        /\ cut' \subseteq Targets
    <3>1. boot \subseteq Targets
      BY DEF TypeOK
    <3>2. CASE serving
      BY <1>3, <3>2 DEF Terminate
    <3>3. CASE ~serving
      BY <1>3, <3>1, <3>3 DEF Terminate, StartSweep
    <3> QED BY <3>2, <3>3
  <2> QED BY <2>1, <2>2
<1>4. CASE StopServer
  BY <1>4 DEF StopServer, StartSweep, TypeOK
<1>5. ASSUME NEW t \in Targets, SweepStep(t) PROVE ShutdownTypeOK'
  BY <1>5, SweepStaysLocal
<1>6. CASE Exit
  <2>1. TypeOK'
    BY <1>6, OldSteps, TypeStep
  <2> QED BY <1>6, <2>1 DEF Exit
<1>7. CASE UNCHANGED allVars
  BY <1>7 DEF allVars, sweepVars, vars, TypeOK
<1> QED BY <1>1, <1>2, <1>3, <1>4, <1>5, <1>6, <1>7 DEF ShutdownNext

(* Every variable keeps its type through a shutdown.                       *)
THEOREM ShutdownTypeCorrect == ShutdownSpec => []ShutdownTypeOK
<1>1. ShutdownInit => ShutdownTypeOK
  BY TypeInit DEF ShutdownInit, ShutdownTypeOK, SweepPCs
<1> QED BY <1>1, ShutdownTypeStep, PTL DEF ShutdownSpec

-----------------------------------------------------------------------------
(* Who works on what, what an unpublish has emptied, what kubelet knows    *)
(* and what a restart will mount stand up to UnmountAll: it puts nothing   *)
(* anywhere, and deletes no Secret.                                        *)
Steady == Control /\ Emptied /\ Answers /\ Saved

LEMMA SteadyStep == ShutdownTypeOK /\ Steady /\ [ShutdownNext]_allVars => Steady'
<1> SUFFICES ASSUME ShutdownTypeOK, Steady, [ShutdownNext]_allVars PROVE Steady'
  OBVIOUS
<1>0. [Next]_vars => Steady'
  BY ControlStep, EmptiedStep, AnswersStep, SavedStep DEF Steady
<1>1. CASE StopServer
  <2>1. TypeOK'
    BY <1>1, ShutdownTypeStep DEF ShutdownTypeOK
  <2>2. /\ UNCHANGED <<handlerVars, mnt, locks, loaded, mctx, store, kernel, linger, logged, boot, serving>>
        /\ waiting' = {}
        /\ \A h \in Calls : pc[h] # "lock"
    BY <1>1 DEF StopServer, Steady, Control, Callers
  <2>3. Control'
    BY <2>1, <2>2 DEF Steady, Control, Owned, Phases, BootAlone, Callers
  <2>4. Emptied'
    BY <2>2 DEF Steady, Emptied
  <2>5. ASSUME NEW t \in Targets
        PROVE  /\ acked'[t] = "none" <=> acked[t] = "none" /\ acked'[t] # "unknown"
               /\ acked[t] = "tearing" => acked'[t] = "tearing"
    <3>1. \A h \in waiting : op[h] = "publish" /\ tgt[h] = t => acked[t] # "tearing"
      BY DEF Steady, Control, Callers, TypeOK, Answers, Told
    <3> QED BY <1>1, <3>1 DEF StopServer, ShutdownTypeOK, TypeOK
  <2>6. ASSUME NEW h \in Calls, pc'[h] # "idle" PROVE Told(h)'
    <3>1. Told(h) /\ tgt[h] \in Targets /\ pc[h] \in Locked
      BY <2>2, <2>6 DEF Steady, Answers, Control, TypeOK, PCs
    <3>2. acked'[tgt[h]] \in {"unknown", "tearing"}
      <4>1. CASE h \in waiting /\ op[h] = "publish"
        BY <1>1, <3>1, <4>1 DEF StopServer, Steady, Control, TypeOK
      <4>2. CASE ~(h \in waiting /\ op[h] = "publish")
        BY <1>1, <2>5, <3>1, <4>2 DEF Told, StopServer, Steady, Control, TypeOK
      <4> QED BY <4>1, <4>2
    <3> QED BY <2>2, <2>5, <3>1, <3>2 DEF Told, Clean
  <2>7. ASSUME NEW t \in Targets, acked'[t] = "none"
        PROVE  Clean(t)' \/ \E h \in Calls : pc'[h] \in Locked /\ tgt'[h] = t
    BY <2>2, <2>5, <2>7 DEF Steady, Answers, Clean
  <2>8. Saved'
    <3>1. \A t \in Targets : acked'[t] = "published" => acked[t] = "published"
      BY <1>1 DEF StopServer
    <3> QED BY <2>2, <3>1 DEF Steady, Saved, Claimed, Durable
  <2> QED BY <2>3, <2>4, <2>6, <2>7, <2>8 DEF Steady, Answers
<1>2. ASSUME NEW t \in Targets, SweepStep(t) PROVE Steady'
  <2>1. SweepIsLocal(t) /\ TypeOK'
    BY <1>2, SweepStaysLocal DEF ShutdownTypeOK
  <2>2. Control'
    BY <2>1 DEF SweepIsLocal, Steady, Control, Owned, Phases, BootAlone, Callers
  <2>3. Emptied'
    BY <2>1 DEF SweepIsLocal, Steady, Emptied, Control, TypeOK
  <2>4. \A u \in Targets : Clean(u) => Clean(u)'
    BY <2>1 DEF SweepIsLocal, Clean
  <2>5. Answers'
    BY <2>1, <2>4 DEF SweepIsLocal, Steady, Answers, Told, Control, TypeOK
  <2>6. Saved'
    BY <2>1 DEF SweepIsLocal, Steady, Saved, Claimed, Durable
  <2> QED BY <2>2, <2>3, <2>5, <2>6 DEF Steady
<1>3. CASE UNCHANGED allVars
  BY <1>0, <1>3 DEF allVars
<1> QED BY <1>0, <1>1, <1>2, <1>3, OldSteps DEF ShutdownNext

LEMMA SteadyHolds == ShutdownSpec => []Steady
<1>1. ShutdownInit => Steady
  BY ControlInit, EmptiedInit, AnswersInit, SavedInit DEF ShutdownInit, Steady
<1> QED BY <1>1, ShutdownTypeCorrect, SteadyStep, PTL DEF ShutdownSpec

(* A key still belongs to one call, while the driver shuts down without    *)
(* asking for any (acquireVolumeLock, UnmountAll).                         *)
THEOREM ShutdownLockSafe == ShutdownSpec => []LockExclusive
<1>1. Steady => LockExclusive
  BY OwnedIsExclusive DEF Steady, Control
<1> QED BY <1>1, SteadyHolds, PTL

(* What kubelet was told is unpublished stays clean through shutdowns,     *)
(* forced or not, and the restarts after them (UnmountAll).                *)
THEOREM ShutdownLeavesUnpublishedClean == ShutdownSpec => []UnpublishedIsClean
<1>1. Steady => UnpublishedIsClean
  BY DEF Steady, Answers, Clean, UnpublishedIsClean, Quiet
<1> QED BY <1>1, SteadyHolds, PTL

-----------------------------------------------------------------------------
(* What the clone of mountContext is worth: a target that nobody else      *)
(* works on while UnmountAll runs is changed by nobody else.               *)
Apart == sweeping => \A t \in Targets \ cut : Quiet(t) /\ t \notin boot

(* Until the clone is taken every live mount can be found in it.           *)
Findable == ~sweeping => NoUnownedMount /\ \A t \in Targets : sweep[t] = "none"

Swept ==
  \A t \in Targets \ cut :
    /\ sweep[t] \in {"forget", "done"} => kernel[t] \in {"absent", "dir"}
    /\ sweep[t] = "done" => t \notin mctx
    /\ sweeping /\ sweep[t] = "none" => kernel[t] # "live"

Accounted == Apart /\ Findable /\ Swept

LEMMA QuietStaysQuiet ==
  ASSUME Control, GoOn, NEW t \in Targets, Quiet(t), t \notin boot
  PROVE  /\ Quiet(t)' /\ t \notin boot'
         /\ kernel'[t] \in {kernel[t], "dir"}
         /\ t \in mctx' => t \in mctx
<1> USE DEF Quiet, Control, TypeOK
<1>0. NoTarget \notin Targets
  BY ConstantsAssumption
<1>1. ASSUME NEW h \in Calls, Working(h)
      PROVE  /\ Quiet(t)' /\ t \notin boot'
             /\ kernel'[t] \in {kernel[t], "dir"}
             /\ t \in mctx' => t \in mctx
  BY <1>1, WorkIsHome DEF Home
<1>2. ASSUME NEW h \in Calls, Abandon(h) \/ LockStep(h) \/ Release(h)
      PROVE  /\ Quiet(t)' /\ t \notin boot'
             /\ kernel'[t] \in {kernel[t], "dir"}
             /\ t \in mctx' => t \in mctx
  BY <1>0, <1>2 DEF Abandon, LockStep, Acquire, Retry, RefuseBusy, Release, Goto, EndCall
<1>3. ASSUME NEW u \in Targets, LingerEnds(u)
      PROVE  /\ Quiet(t)' /\ t \notin boot'
             /\ kernel'[t] \in {kernel[t], "dir"}
             /\ t \in mctx' => t \in mctx
  BY <1>3 DEF LingerEnds
<1>4. CASE BootStep
  BY <1>4 DEF BootStep, StartServing, RemountSucceeds, RemountFails
<1> QED BY <1>1, <1>2, <1>3, <1>4 DEF GoOn, CallStep, MountAttempt, Working

LEMMA AccountedStep ==
  ShutdownTypeOK /\ Steady /\ Accounted /\ [ShutdownNext]_allVars => Accounted'
<1> SUFFICES ASSUME ShutdownTypeOK, Steady, Accounted, [ShutdownNext]_allVars
             PROVE  Accounted'
  OBVIOUS
<1> USE DEF Accounted
<1>0. [Next]_vars /\ ~sweeping => NoUnownedMount'
  BY LiveStep DEF Steady, Findable
<1>1. ASSUME NEW h \in Calls, NEW t \in Targets, NEW o \in {"publish", "unpublish"},
             BeginCall(h, t, o)
      PROVE  Accounted'
  <2>1. Apart'
    BY <1>1 DEF BeginCall, Begin, Apart, Quiet, ShutdownTypeOK, TypeOK
  <2>2. Findable'
    BY <1>0, <1>1, OldSteps DEF BeginCall, Findable
  <2>3. Swept'
    BY <1>1 DEF BeginCall, Begin, Swept
  <2> QED BY <2>1, <2>2, <2>3
<1>2. CASE GoOn
  <2>1. UNCHANGED sweepVars
    BY <1>2 DEF GoOn
  <2>2. Apart'
    BY <1>2, <2>1, QuietStaysQuiet DEF Apart, Steady
  <2>3. Findable'
    BY <1>0, <1>2, <2>1, OldSteps DEF Findable
  <2>4. Swept'
    BY <1>2, <2>1, QuietStaysQuiet DEF Swept, Apart, Findable, Steady
  <2> QED BY <2>2, <2>3, <2>4
<1>3. ASSUME ~sweeping, StartSweep, UNCHANGED <<mctx, kernel, boot, tgt, pc, mnt>> PROVE Accounted'
  <2>1. Apart' /\ Findable'
    BY <1>3 DEF StartSweep, Apart, Findable, Quiet
  <2>2. ASSUME NEW t \in Targets, t \notin mctx, Quiet(t) PROVE kernel[t] # "live"
    BY <1>3, <2>2 DEF Findable, NoUnownedMount, Quiet
  <2>3. Swept'
    BY <1>3, <2>2 DEF StartSweep, Swept, Quiet
  <2> QED BY <2>1, <2>3
<1>4. CASE Terminate
  <2>1. CASE serving
    BY <1>0, <1>4, <2>1 DEF Terminate, vars, Apart, Findable, Swept, NoUnownedMount, Quiet
  <2>2. CASE ~serving
    BY <1>3, <1>4, <2>2 DEF Terminate, vars
  <2> QED BY <2>1, <2>2
<1>5. CASE StopServer
  BY <1>3, <1>5 DEF StopServer
<1>6. ASSUME NEW t \in Targets, SweepStep(t) PROVE Accounted'
  <2>1. SweepIsLocal(t)
    BY <1>6, SweepStaysLocal
  <2>2. sweeping
    BY <1>6 DEF SweepStep, SweepUnmount, SweepCleanup, SweepForget, SweepGoto, Findable
  <2>3. Apart' /\ Findable'
    BY <2>1, <2>2 DEF SweepIsLocal, Apart, Findable, Quiet
  <2>4. Swept'
    <3>1. /\ sweep'[t] \in {"forget", "done"} => kernel'[t] \in {"absent", "dir"} \/ t \in cut
          /\ sweep'[t] = "done" => t \notin mctx'
          /\ sweep'[t] # "none"
      BY <1>6 DEF SweepStep, SweepUnmount, SweepCleanup, SweepForget, SweepGoto, Swept,
         ShutdownTypeOK, TypeOK
    <3> QED BY <2>1, <3>1 DEF SweepIsLocal, Swept
  <2> QED BY <2>3, <2>4
<1>7. CASE Exit
  <2>1. NoUnownedMount'
    BY <1>7 DEF Exit, Crash, NoUnownedMount, Served
  <2> QED BY <1>7, <2>1 DEF Exit, Apart, Findable, Swept
<1>8. CASE UNCHANGED allVars
  BY <1>8 DEF allVars, vars, Apart, Findable, Swept, NoUnownedMount, Quiet
<1> QED BY <1>1, <1>2, <1>4, <1>5, <1>6, <1>7, <1>8 DEF ShutdownNext

LEMMA AccountedHolds == ShutdownSpec => []Accounted
<1>1. ShutdownInit => Accounted
  BY LiveInit DEF ShutdownInit, Accounted, Apart, Findable, Swept
<1> QED BY <1>1, ShutdownTypeCorrect, SteadyHolds, AccountedStep, PTL DEF ShutdownSpec

(* UnmountAll leaves no live mount behind, but where it was not alone      *)
(* (UnmountAll, Driver.Shutdown).                                          *)
THEOREM SweepIsComplete == ShutdownSpec => []SweepComplete
<1>1. Accounted => SweepComplete
  BY DEF Accounted, Swept, SweepComplete
<1> QED BY <1>1, AccountedHolds, PTL

-----------------------------------------------------------------------------
(* Until UnmountAll begins the driver is that of DirectNode; the next one  *)
(* starts, after whatever UnmountAll was in the middle of, from Secrets.   *)
Before == ~sweeping => Paths /\ Kept

LEMMA BeforeStep ==
  ASSUME ShutdownTypeOK, Steady, Accounted, Before, [ShutdownNext]_allVars
  PROVE  Before'
<1> SUFFICES ASSUME ~sweeping' PROVE Paths' /\ Kept'
  BY DEF Before
<1>1. CASE ~sweeping /\ [Next]_vars
  BY <1>1, PathsStep, KeptStep DEF Before, Steady
<1>2. CASE Exit
  <2>1. Kept'
    BY <1>2, CrashKeeps DEF Exit, Steady
  <2> QED BY <1>2, <2>1 DEF Exit, Crash, Paths
<1>3. CASE StopServer
  BY <1>3 DEF StopServer, StartSweep
<1>4. ASSUME NEW t \in Targets, SweepStep(t) PROVE FALSE
  BY <1>4 DEF SweepStep, SweepUnmount, SweepCleanup, SweepForget, SweepGoto, Accounted, Findable
<1>5. CASE GoOn \/ Terminate \/ UNCHANGED allVars
  BY <1>1, <1>5, OldSteps DEF GoOn, Terminate, allVars, sweepVars
<1>6. ASSUME NEW h \in Calls, NEW t \in Targets, NEW o \in {"publish", "unpublish"}, BeginCall(h, t, o)
      PROVE  Paths' /\ Kept'
  BY <1>1, <1>6, OldSteps DEF BeginCall
<1> QED BY <1>2, <1>3, <1>4, <1>5, <1>6 DEF ShutdownNext

(* Stopping the server takes nothing from anybody: until UnmountAll begins *)
(* a target kubelet believes published is served, and again once the next  *)
(* driver has remounted it, or the error was logged (Driver.Shutdown,      *)
(* RemountState).                                                          *)
THEOREM ShutdownServesUntilSweep == ShutdownSpec => []ServedUntilSwept
<1>1. ShutdownInit => Before
  BY PathsInit, KeptInit DEF ShutdownInit, Before
<1>2. ShutdownTypeOK /\ Steady /\ Accounted /\ Before /\ [ShutdownNext]_allVars => Before'
  BY BeforeStep
<1>3. Steady /\ Before => ServedUntilSwept
  BY KeptIsServed DEF Steady, Before, ServedUntilSwept
<1> QED
  BY <1>1, <1>2, <1>3, ShutdownTypeCorrect, SteadyHolds, AccountedHolds, PTL DEF ShutdownSpec
=============================================================================
