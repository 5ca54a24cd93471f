--------------------------- MODULE ConfigIsolation ---------------------------
(***************************************************************************)
(* Config isolation: rclone has one config for the whole process, so the   *)
(* driver renames the sections of each volume's config with a prefix of    *)
(* its own, rewrites the references between them, loads them for the       *)
(* mount, and removes them when the mount has failed or ended.             *)
(*                                                                         *)
(* A name is a sequence of words ("minio-sample" has two), and so is the   *)
(* text of a reference ("minio-sample:dir"). Some words have characters    *)
(* that rclone does not allow in the name of a section.                    *)
(***************************************************************************)
EXTENDS Naturals, SequencesExt

CONSTANTS
  Volumes,
  Configs,       \* what users may write: [logical |-> name, sections |-> name -> key -> value]
  Override,      \* the remotePrefix parameter of each volume
  Sanitised,     \* what becomes of a word with characters that are not allowed
  NoOverride,
  NoConfig,
  MaxCrashes,    \* bound: restarts of the driver
  MaxHalves      \* bound: loads that fail half way

ASSUME NoConfigAssumption ==
  /\ NoConfig \notin Configs
  /\ \A c \in Configs, v \in Volumes : NoConfig # [config |-> c, override |-> Override[v]]

ASSUME BoundsAssumption == MaxCrashes \in Nat /\ MaxHalves \in Nat

VARIABLES
  phase,      \* where the mount of a volume is
  config,     \* the config its request, or its saved state, carries
  override,   \* the prefix that goes with it
  remotes,    \* the sections loadRcloneConfig has returned
  loaded,     \* rclone's LoadedData: section -> key -> value
  saved,      \* the mount-state Secrets
  boot,       \* saved states that the starting driver has yet to remount
  leaked,     \* history: sections of loads that failed half way
  crashes,
  halves      \* history: how many there were

vars == <<phase, config, override, remotes, loaded, saved, boot, leaked, crashes, halves>>

-----------------------------------------------------------------------------
(* The keys that refer to other remotes; "upstreams" lists several.        *)
RefKeys == {"remote", "upstreams"}

(* References as the user writes them: "name:path name:path".              *)
Text(refs) == FlattenSeq([i \in DOMAIN refs |-> refs[i].to \o <<":">> \o refs[i].path \o <<" ">>])

(* fspath.MakeConfigName ("My Prefix!" becomes "My Prefix_"): two names    *)
(* may become one.                                                         *)
MakeConfigName(name) ==
  [i \in DOMAIN name |-> IF name[i] \in DOMAIN Sanitised THEN Sanitised[name[i]] ELSE name[i]]

remotePrefixForVolume(v, o) == IF o = NoOverride THEN <<v>> ELSE MakeConfigName(o)

(* Old name -> new name.                                                   *)
RenameMap(prefix, names) == [n \in names |-> MakeConfigName(prefix \o n)]

(* The hash keeps volumes apart; prefixes given by users do, unless they   *)
(* "intentionally share one config namespace across volumes".              *)
ASSUME PrefixesApart ==
  \A u, v \in Volumes : u # v =>
    \A c, d \in Configs : \A m \in DOMAIN c.sections, n \in DOMAIN d.sections :
      RenameMap(remotePrefixForVolume(u, Override[u]), DOMAIN c.sections)[m]
        # RenameMap(remotePrefixForVolume(v, Override[v]), DOMAIN d.sections)[n]

(* Variant: the colon is not looked for.                                   *)
OccursAnywhere(name, text, i) ==
  /\ i + Len(name) - 1 <= Len(text)
  /\ SubSeq(text, i, i + Len(name) - 1) = name

(* Does the text have "name:" from its i-th word on?                       *)
Occurs(name, text, i) ==
  /\ i + Len(name) <= Len(text)
  /\ SubSeq(text, i, i + Len(name)) = name \o <<":">>

(* strings.ReplaceAll of "name:" by "new:", wherever it occurs.            *)
RewriteName(name, new, text) ==
  LET Within(i) == \E j \in 1 .. i : Occurs(name, text, j) /\ i < j + Len(name)
      Word(i)   == IF Within(i) THEN <<>> ELSE <<text[i]>>
  IN  FlattenSeq([i \in DOMAIN text |-> IF Occurs(name, text, i) THEN new ELSE Word(i)])

(* One name after the other, the longest first.                            *)
rewriteRemoteReferences(rename, text) ==
  LET rewrite(t, name) == RewriteName(name, rename[name], t)
  IN  FoldLeft(rewrite, text, SetToSortSeq(DOMAIN rename, LAMBDA m, n : Len(m) > Len(n)))

Names(c) == DOMAIN c.sections
Prefix(v) == remotePrefixForVolume(v, override[v])
Rename(v) == RenameMap(Prefix(v), Names(config[v]))
Renamed(v) == {Rename(v)[n] : n \in Names(config[v])}

(* The section n of the volume's config, its references rewritten.         *)
Rewritten(v, n) ==
  LET section == config[v].sections[n] IN
  [k \in DOMAIN section |->
     IF k \in RefKeys THEN rewriteRemoteReferences(Rename(v), Text(section[k])) ELSE section[k]]

(* Which section ends up under each new name: when two names have become   *)
(* one, the order of a Go map decides.                                     *)
Origins(v) ==
  {from \in [Renamed(v) -> Names(config[v])] : \A s \in Renamed(v) : Rename(v)[from[s]] = s}

isolateConfigRemotes(v) ==
  {[s \in Renamed(v) |-> Rewritten(v, from[s])] : from \in Origins(v)}

-----------------------------------------------------------------------------
Init ==
  /\ phase = [v \in Volumes |-> "none"]
  /\ config = [v \in Volumes |-> NoConfig]
  /\ override = [v \in Volumes |-> NoOverride]
  /\ remotes = [v \in Volumes |-> {}]
  /\ loaded = <<>>
  /\ saved = [v \in Volumes |-> NoConfig]
  /\ boot = {}
  /\ leaked = {}
  /\ crashes = 0
  /\ halves = 0

Goto(v, from, to) ==
  /\ phase[v] = from
  /\ phase' = [phase EXCEPT ![v] = to]

(* A request with the config as it is now in the user's Secret, which must *)
(* have the remote that the volume names.                                  *)
Publish(v, c) ==
  /\ boot = {}
  /\ c.logical \in Names(c)
  /\ Goto(v, "none", "load")
  /\ config' = [config EXCEPT ![v] = c]
  /\ override' = [override EXCEPT ![v] = Override[v]]
  /\ UNCHANGED <<remotes, loaded, saved, boot, leaked, crashes, halves>>

(* RemountState, one state after the other: the config and the prefix come *)
(* from the Secret.                                                        *)
Remount(v) ==
  /\ v \in boot
  /\ \A u \in Volumes : phase[u] \notin {"load", "newfs"}
  /\ Goto(v, "none", "load")
  /\ boot' = boot \ {v}
  /\ config' = [config EXCEPT ![v] = saved[v].config]
  /\ override' = [override EXCEPT ![v] = saved[v].override]
  /\ UNCHANGED <<remotes, loaded, saved, leaked, crashes, halves>>

(* One map laid over another.                                              *)
Over(f, g) == [x \in DOMAIN f \cup DOMAIN g |-> IF x \in DOMAIN f THEN f[x] ELSE g[x]]

(* Variant: what is there is kept.                                         *)
SetMissing(new, old) ==
  Over([s \in DOMAIN new |-> IF s \in DOMAIN old THEN Over(old[s], new[s]) ELSE new[s]], old)

(* SetValue adds keys to a section that is already there.                  *)
SetValues(new, old) ==
  Over([s \in DOMAIN new |-> IF s \in DOMAIN old THEN Over(new[s], old[s]) ELSE new[s]], old)

LoadConfig(v) ==
  /\ Goto(v, "load", "newfs")
  /\ \E isolated \in isolateConfigRemotes(v) : loaded' = SetValues(isolated, loaded)
  /\ remotes' = [remotes EXCEPT ![v] = Renamed(v)]
  /\ UNCHANGED <<config, override, saved, boot, leaked, crashes, halves>>

(* The request, and what was made of it, is forgotten.                     *)
Drop(v) ==
  /\ config' = [config EXCEPT ![v] = NoConfig]
  /\ override' = [override EXCEPT ![v] = NoOverride]

(* UpdateRemote fails for a section that is half set (its type, left out   *)
(* here, is set); nil is returned, so nobody will remove it, nor those set *)
(* before.                                                                 *)
LoadConfigFails(v) ==
  /\ halves < MaxHalves
  /\ halves' = halves + 1
  /\ Goto(v, "load", "none")
  /\ \E isolated \in isolateConfigRemotes(v), s \in Renamed(v) :
       \E done \in SUBSET (Renamed(v) \ {s}), keys \in SUBSET DOMAIN isolated[s] :
         /\ loaded' = SetValues([r \in done \cup {s} |->
                         IF r = s THEN Restrict(isolated[s], keys) ELSE isolated[r]], loaded)
         /\ leaked' = leaked \cup done \cup {s}
  /\ Drop(v)
  /\ UNCHANGED <<remotes, saved, boot, crashes>>

(* Variant: the names are kept, to be removed again.                       *)
CleanupKeepsNames(v) ==
  /\ loaded' = Restrict(loaded, DOMAIN loaded \ remotes[v])
  /\ leaked' = leaked \ remotes[v]
  /\ UNCHANGED remotes

(* cleanupConfigRemotes                                                    *)
Cleanup(v) ==
  /\ loaded' = Restrict(loaded, DOMAIN loaded \ remotes[v])
  /\ remotes' = [remotes EXCEPT ![v] = {}]
  /\ leaked' = leaked \ remotes[v]

(* Variant: the state is saved without the prefix.                         *)
SaveWithoutPrefix(v) ==
  /\ Goto(v, "newfs", "mounted")
  /\ saved' = [saved EXCEPT ![v] = [config |-> config[v], override |-> NoOverride]]
  /\ UNCHANGED <<config, override, remotes, loaded, boot, leaked, crashes, halves>>

(* The mount is up, or a reaper saw it end badly. The state saved is that  *)
(* of the request, before the isolation; saving it may fail.               *)
MountSucceeds(v) ==
  /\ Goto(v, "newfs", "mounted")
  /\ saved' \in {saved, [saved EXCEPT ![v] = [config |-> config[v], override |-> override[v]]]}
  /\ UNCHANGED <<config, override, remotes, loaded, boot, leaked, crashes, halves>>

(* Variant: nothing is cleaned up.                                         *)
MountFailsDirty(v) ==
  /\ Goto(v, "newfs", "none")
  /\ remotes' = [remotes EXCEPT ![v] = {}]
  /\ Drop(v)
  /\ UNCHANGED <<loaded, saved, boot, leaked, crashes, halves>>

(* The deferred cleanup of a mount that fails.                             *)
MountFails(v) ==
  /\ Goto(v, "newfs", "none")
  /\ Cleanup(v)
  /\ Drop(v)
  /\ UNCHANGED <<saved, boot, crashes, halves>>

(* The volume is unpublished; deleting the state may fail.                 *)
Unmount(v) ==
  /\ boot = {}
  /\ Goto(v, "mounted", "none")
  /\ Cleanup(v)
  /\ Drop(v)
  /\ saved' \in {saved, [saved EXCEPT ![v] = NoConfig]}
  /\ UNCHANGED <<boot, crashes, halves>>

(* LoadedData is only in memory; the Secrets stay.                         *)
Crash ==
  /\ crashes < MaxCrashes
  /\ crashes' = crashes + 1
  /\ phase' = [v \in Volumes |-> "none"]
  /\ config' = [v \in Volumes |-> NoConfig]
  /\ override' = [v \in Volumes |-> NoOverride]
  /\ remotes' = [v \in Volumes |-> {}]
  /\ loaded' = <<>>
  /\ leaked' = {}
  /\ boot' = {v \in Volumes : saved[v] # NoConfig}
  /\ UNCHANGED <<saved, halves>>

VolumeStep(v) ==
  \/ \E c \in Configs : Publish(v, c)
  \/ Remount(v) \/ LoadConfig(v) \/ LoadConfigFails(v)
  \/ MountSucceeds(v) \/ MountFails(v) \/ Unmount(v)

Next == Crash \/ \E v \in Volumes : VolumeStep(v)

Spec == Init /\ [][Next]_vars

-----------------------------------------------------------------------------
TypeOK ==
  /\ phase \in [Volumes -> {"none", "load", "newfs", "mounted"}]
  /\ config \in [Volumes -> Configs \cup {NoConfig}]
  /\ \A v \in Volumes : override[v] \in {NoOverride, Override[v]}
  /\ \A v \in Volumes : phase[v] # "none" => config[v] # NoConfig /\ override[v] = Override[v]
  /\ \A v \in Volumes : phase[v] \in {"none", "load"} => remotes[v] = {}
  /\ boot \subseteq {v \in Volumes : saved[v] # NoConfig}
  /\ leaked \subseteq DOMAIN loaded
  /\ crashes \in 0 .. MaxCrashes
  /\ halves \in 0 .. MaxHalves

(* What a section means once the names are changed: each reference to a    *)
(* section of the config goes to its new name, any other stays.            *)
Meant(v, n) ==
  LET section == config[v].sections[n]
      follow(ref) == IF ref.to \in Names(config[v]) THEN [ref EXCEPT !.to = Rename(v)[@]] ELSE ref
  IN  [k \in DOMAIN section |->
         IF k \in RefKeys THEN Text([i \in DOMAIN section[k] |-> follow(section[k][i])])
                          ELSE section[k]]

(* No other section of the config takes the same new name.                 *)
KeepsApart(v, n) == \A m \in Names(config[v]) : Rename(v)[m] = Rename(v)[n] => m = n

(* While fs.NewFs reads them, the sections loaded for a volume are there   *)
(* with every value that was loaded, whatever other volumes, and earlier   *)
(* mounts of this one, have loaded, left and removed (loadRcloneConfig,    *)
(* cleanupConfigRemotes under configMu).                                   *)
SectionsIntact ==
  \A v \in Volumes : phase[v] = "newfs" =>
    \E isolated \in isolateConfigRemotes(v) : \A s \in DOMAIN isolated :
      /\ s \in DOMAIN loaded
      /\ \A k \in DOMAIN isolated[s] : k \in DOMAIN loaded[s] /\ loaded[s][k] = isolated[s][k]

(* What fs.NewFs reads is what the user meant: every section with its own  *)
(* values and with references that lead to the sections of this volume;    *)
(* and no other key, unless an earlier load had failed half way. Only a    *)
(* section that becomes one with another of its config may be lost         *)
(* (isolateConfigRemotes, rewriteRemoteReferences, loadRcloneConfig).      *)
ReadsOwnConfig ==
  \A v \in Volumes : phase[v] = "newfs" =>
    \A n \in Names(config[v]) : KeepsApart(v, n) =>
      LET s == Rename(v)[n]
          meant == Meant(v, n)
      IN  /\ \A k \in DOMAIN meant : k \in DOMAIN loaded[s] /\ loaded[s][k] = meant[k]
          /\ s \notin leaked => DOMAIN loaded[s] = DOMAIN meant

(* No section outlives the mounts it was loaded for, but those of a load   *)
(* that failed half way; and none is removed before (the deferred          *)
(* cleanupConfigRemotes, unmountVolume).                                   *)
SectionsAccounted ==
  DOMAIN loaded = leaked \cup UNION {remotes[v] : v \in Volumes}

(* A remount uses the section names of the publish: "so RemountState can   *)
(* re-apply the same isolation override" (mountParamsForState).            *)
RemountKeepsNames ==
  \A v \in Volumes : phase[v] \in {"newfs", "mounted"} =>
    remotes[v] = {MakeConfigName(remotePrefixForVolume(v, Override[v]) \o n) : n \in Names(config[v])}
=============================================================================
