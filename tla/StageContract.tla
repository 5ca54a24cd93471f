---------------------------- MODULE StageContract ----------------------------
(***************************************************************************)
(* What the node service promises kubelet in staging mode about a set of   *)
(* volumes and the targets bound to them: a staging path and a target are  *)
(* each worked on by one call at a time and change for no other reason     *)
(* than a restart or a late unmount; "staged" means a path that can be     *)
(* read, "published" a bind, "unpublished" none; nothing is bound to a     *)
(* volume kubelet takes for unstaged or is unstaging; and a volume that a  *)
(* restart would mount again is forgotten only once it is unmounted.       *)
(***************************************************************************)
CONSTANTS Volumes, Targets, VolumeOf

VARIABLES
  dev, acked,     \* what kubelet was last told of each volume and target
  working, busy,  \* volumes and targets a call is working on
  path,           \* what is at each staging path
  bound,          \* targets with something bound
  durable,        \* volumes a restarted driver will mount again
  up              \* calls are served

vars == <<dev, acked, working, busy, path, bound, durable, up>>

Readable == {"dir", "mount"}

TargetsOf(v) == {t \in Targets : VolumeOf[t] = v}

Init ==
  /\ dev = [v \in Volumes |-> "none"] /\ acked = [t \in Targets |-> "none"]
  /\ working = {} /\ busy = {}
  /\ path = [v \in Volumes |-> "none"]
  /\ bound = {} /\ durable = {}
  /\ up = TRUE

-----------------------------------------------------------------------------
(* Kubelet gives up on a call, is told that it failed, or begins to tear   *)
(* down: a volume only when all of its targets are, and are so in fact.    *)
LearnVolume(v) ==
  /\ \/ dev' = [dev EXCEPT ![v] = "unknown"]
     \/ /\ \A t \in TargetsOf(v) : acked[t] = "none" /\ t \notin bound
        /\ dev' = [dev EXCEPT ![v] = "tearing"]
  /\ UNCHANGED <<acked, working, busy, path, bound, durable, up>>

LearnTarget(t) ==
  /\ \E a \in {"unknown", "tearing"} : acked' = [acked EXCEPT ![t] = a]
  /\ UNCHANGED <<dev, working, busy, path, bound, durable, up>>

-----------------------------------------------------------------------------
(* The work on a staging path.                                             *)
TakeVolume(v) ==
  /\ up /\ v \notin working
  /\ working' = working \cup {v}
  /\ UNCHANGED <<dev, acked, busy, path, bound, durable, up>>

WorkOnPath(v) ==
  /\ v \in working
  /\ \E p \in {"none"} \cup Readable : path' = [path EXCEPT ![v] = p]
  /\ UNCHANGED <<dev, acked, working, busy, bound, durable, up>>

Remember(v) ==
  /\ v \in working
  /\ path[v] \in Readable
  /\ durable' = durable \cup {v}
  /\ UNCHANGED <<dev, acked, working, busy, path, bound, up>>

Forget(v) ==
  /\ v \in working
  /\ path[v] = "none"
  /\ durable' = durable \ {v}
  /\ UNCHANGED <<dev, acked, working, busy, path, bound, up>>

FinishVolume(v) ==
  /\ v \in working
  /\ working' = working \ {v}
  /\ \/ dev' = dev
     \/ dev' = [dev EXCEPT ![v] = "unknown"]
     \/ path[v] \in Readable /\ dev' = [dev EXCEPT ![v] = "staged"]
     \/ /\ path[v] \in {"none", "dir"} /\ TargetsOf(v) \cap bound = {}
        /\ dev' = [dev EXCEPT ![v] = "none"]
  /\ UNCHANGED <<acked, busy, path, bound, durable, up>>

-----------------------------------------------------------------------------
(* The work on a target.                                                   *)
TakeTarget(t) ==
  /\ up /\ t \notin busy
  /\ busy' = busy \cup {t}
  /\ UNCHANGED <<dev, acked, working, path, bound, durable, up>>

Bind(t) ==
  /\ t \in busy
  /\ dev[VolumeOf[t]] \in {"staged", "unknown"}
  /\ path[VolumeOf[t]] # "none"
  /\ bound' = bound \cup {t}
  /\ UNCHANGED <<dev, acked, working, busy, path, durable, up>>

Unbind(t) ==
  /\ t \in busy
  /\ bound' = bound \ {t}
  /\ UNCHANGED <<dev, acked, working, busy, path, durable, up>>

FinishTarget(t) ==
  /\ t \in busy
  /\ busy' = busy \ {t}
  /\ \/ acked' = acked
     \/ acked' = [acked EXCEPT ![t] = "unknown"]
     \/ t \in bound    /\ acked' = [acked EXCEPT ![t] = "published"]
     \/ t \notin bound /\ acked' = [acked EXCEPT ![t] = "none"]
  /\ UNCHANGED <<dev, working, path, bound, durable, up>>

-----------------------------------------------------------------------------
LateUnmount(v) ==
  /\ path[v] = "mount"
  /\ path' = [path EXCEPT ![v] = "dir"]
  /\ UNCHANGED <<dev, acked, working, busy, bound, durable, up>>

(* The driver restarts: its mounts break, and the binds and Secrets stay.  *)
Restart ==
  /\ working' = {} /\ busy' = {} /\ up' = FALSE
  /\ path' = [v \in Volumes |-> IF path[v] = "mount" THEN "broken" ELSE path[v]]
  /\ \E S \in SUBSET Volumes : dev' = [v \in Volumes |-> IF v \in S THEN "unknown" ELSE dev[v]]
  /\ \E S \in SUBSET Targets : acked' = [t \in Targets |-> IF t \in S THEN "unknown" ELSE acked[t]]
  /\ UNCHANGED <<bound, durable>>

Recover(v) ==
  /\ ~up
  /\ v \in durable
  /\ \E p \in {"none"} \cup Readable : path' = [path EXCEPT ![v] = p]
  /\ UNCHANGED <<dev, acked, working, busy, bound, durable, up>>

Serve ==
  /\ ~up
  /\ up' = TRUE
  /\ UNCHANGED <<dev, acked, working, busy, path, bound, durable>>

-----------------------------------------------------------------------------
OnVolume(v) ==
  \/ LearnVolume(v) \/ TakeVolume(v) \/ WorkOnPath(v) \/ Remember(v) \/ Forget(v)
  \/ FinishVolume(v) \/ LateUnmount(v) \/ Recover(v)
OnTarget(t) == LearnTarget(t) \/ TakeTarget(t) \/ Bind(t) \/ Unbind(t) \/ FinishTarget(t)

Next ==
  \/ \E v \in Volumes : OnVolume(v)
  \/ \E t \in Targets : OnTarget(t)
  \/ Restart
  \/ Serve

Spec == Init /\ [][Next]_vars
=============================================================================
