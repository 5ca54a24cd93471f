--------------------------- MODULE VolumeContract ---------------------------
(***************************************************************************)
(* What the node service promises kubelet about a set of target paths,     *)
(* whatever it does inside: a path is worked on by one call at a time, a   *)
(* successful publish means a mount is there, a successful unpublish means *)
(* that neither a mount nor a saved state is left, and between calls only  *)
(* a restart, or an unmount that came too late, changes a path.            *)
(***************************************************************************)
CONSTANT Targets

VARIABLES
  acked,    \* what kubelet was last told of each target
  busy,     \* targets a call is working on
  present,  \* targets with something mounted
  durable,  \* targets a restarted driver will mount again
  undone,   \* targets whose mount a late unmount has taken away
  up        \* calls are served

vars == <<acked, busy, present, durable, undone, up>>

Init ==
  /\ acked = [t \in Targets |-> "none"]
  /\ busy = {}
  /\ present = {}
  /\ durable = {}
  /\ undone = {}
  /\ up = TRUE

(* Kubelet starts to tear a target down, gives up on a call or is told     *)
(* that it failed.                                                         *)
Learn(t) ==
  /\ \E a \in {"unknown", "tearing"} : acked' = [acked EXCEPT ![t] = a]
  /\ UNCHANGED <<busy, present, durable, undone, up>>

Take(t) ==
  /\ up /\ t \notin busy
  /\ busy' = busy \cup {t}
  /\ UNCHANGED <<acked, present, durable, undone, up>>

Work(t) ==
  /\ t \in busy
  /\ present' \in {present \cup {t}, present \ {t}}
  /\ durable' \in {durable \cup {t}, durable \ {t}}
  /\ undone' \in {undone, undone \ {t}}
  /\ UNCHANGED <<acked, busy, up>>

Finish(t) ==
  /\ t \in busy
  /\ busy' = busy \ {t}
  /\ \/ acked' = acked
     \/ acked' = [acked EXCEPT ![t] = "unknown"]
     \/ t \in present \cup undone        /\ acked' = [acked EXCEPT ![t] = "published"]
     \/ t \notin present \cup durable    /\ acked' = [acked EXCEPT ![t] = "none"]
  /\ UNCHANGED <<present, durable, undone, up>>

LateUnmount(t) ==
  /\ t \in present
  /\ present' = present \ {t}
  /\ undone' = undone \cup {t}
  /\ UNCHANGED <<acked, busy, durable, up>>

Restart ==
  /\ busy' = {}
  /\ undone' = {}
  /\ up' = FALSE
  /\ acked' \in {[t \in Targets |-> IF t \in S THEN "unknown" ELSE acked[t]] : S \in SUBSET Targets}
  /\ UNCHANGED <<present, durable>>

Recover(t) ==
  /\ ~up
  /\ t \in durable
  /\ present' \in {present \cup {t}, present \ {t}}
  /\ UNCHANGED <<acked, busy, durable, undone, up>>

Serve ==
  /\ up' = TRUE
  /\ UNCHANGED <<acked, busy, present, durable, undone>>

Next ==
  \/ \E t \in Targets :
       Learn(t) \/ Take(t) \/ Work(t) \/ Finish(t) \/ LateUnmount(t) \/ Recover(t)
  \/ Restart
  \/ Serve

Spec == Init /\ [][Next]_vars
=============================================================================
