----------------------- MODULE ConfigIsolation_proofs -----------------------
(* Proofs about config isolation, for any volumes, configs and prefixes.   *)
EXTENDS ConfigIsolation, TLAPS

(* A volume's config and prefix are those of its request while it mounts,  *)
(* and those saved are ones that some request had.                         *)
Configured ==
  /\ phase \in [Volumes -> {"none", "load", "newfs", "mounted"}]
  /\ config = [v \in Volumes |-> config[v]]
  /\ override = [v \in Volumes |-> override[v]]
  /\ saved = [v \in Volumes |-> saved[v]]
  /\ remotes = [v \in Volumes |-> remotes[v]]
  /\ \A v \in Volumes : phase[v] # "none" =>
       config[v] \in Configs /\ override[v] = Override[v]
  /\ \A v \in Volumes : saved[v] # NoConfig =>
       saved[v].config \in Configs /\ saved[v].override = Override[v]
  /\ boot \subseteq {v \in Volumes : saved[v] # NoConfig}

(* What a volume has loaded is what its cleanup will remove.               *)
Registered ==
  \A v \in Volumes :
    remotes[v] = IF phase[v] \in {"newfs", "mounted"} THEN Renamed(v) ELSE {}

LEMMA InitConfigured == Init => Configured /\ Registered
  BY DEF Init, Configured, Registered

(* Nothing of a volume changes with the request of another.                *)
LEMMA SameNames ==
  ASSUME NEW v \in Volumes, config'[v] = config[v], override'[v] = override[v]
  PROVE  /\ Prefix(v)' = Prefix(v)
         /\ Renamed(v)' = Renamed(v)
         /\ isolateConfigRemotes(v)' = isolateConfigRemotes(v)
  BY DEF Prefix, Rename, Renamed, Origins, Rewritten, isolateConfigRemotes, Names

(* A step of one volume leaves the others where they were.                 *)
LEMMA OtherVolumes ==
  ASSUME Configured, NEW v \in Volumes, VolumeStep(v), NEW u \in Volumes, u # v
  PROVE  /\ phase'[u] = phase[u] /\ config'[u] = config[u] /\ override'[u] = override[u]
         /\ remotes'[u] = remotes[u]
  BY DEF VolumeStep, Configured, Goto, Drop, Cleanup, Publish, Remount, LoadConfig,
         LoadConfigFails, MountSucceeds, MountFails, Unmount

LEMMA ConfiguredStep == Configured /\ [Next]_vars => Configured'
<1> SUFFICES ASSUME Configured, [Next]_vars PROVE Configured'
  OBVIOUS
<1> USE DEF Configured, Goto
<1>1. ASSUME NEW v \in Volumes, VolumeStep(v) PROVE Configured'
  <2>1. ASSUME NEW c \in Configs, Publish(v, c) PROVE Configured'
    BY <2>1 DEF Publish
  <2>2. CASE Remount(v)
    BY <2>2 DEF Remount
  <2>3. CASE LoadConfig(v)
    BY <2>3 DEF LoadConfig
  <2>4. CASE LoadConfigFails(v)
    BY <2>4 DEF LoadConfigFails, Drop
  <2>5. CASE MountSucceeds(v)
    <3>1. CASE saved' = saved
      BY <2>5, <3>1 DEF MountSucceeds
    <3>2. CASE saved' = [saved EXCEPT ![v] = [config |-> config[v], override |-> override[v]]]
      <4>1. /\ config[v] \in Configs /\ override[v] = Override[v]
            /\ saved'[v].config = config[v] /\ saved'[v].override = override[v]
        BY <2>5, <3>2 DEF MountSucceeds
      <4>2. \A u \in Volumes : u # v => saved'[u] = saved[u]
        BY <3>2
      <4>3. boot \subseteq {u \in Volumes : saved'[u] # NoConfig}
        BY <3>2, <4>1, <4>2, NoConfigAssumption
      <4> QED BY <2>5, <3>2, <4>1, <4>2, <4>3 DEF MountSucceeds
    <3> QED BY <2>5, <3>1, <3>2 DEF MountSucceeds
  <2>6. CASE MountFails(v)
    BY <2>6 DEF MountFails, Cleanup, Drop
  <2>7. CASE Unmount(v)
    BY <2>7 DEF Unmount, Cleanup, Drop
  <2> QED BY <1>1, <2>1, <2>2, <2>3, <2>4, <2>5, <2>6, <2>7 DEF VolumeStep
<1>2. CASE Crash
  BY <1>2 DEF Crash
<1>3. CASE UNCHANGED vars
  BY <1>3 DEF vars
<1> QED BY <1>1, <1>2, <1>3 DEF Next

LEMMA RegisteredStep == Configured /\ Registered /\ [Next]_vars => Registered'
<1> SUFFICES ASSUME Configured, Registered, [Next]_vars PROVE Registered'
  OBVIOUS
<1> USE DEF Registered
<1>1. ASSUME NEW v \in Volumes, VolumeStep(v) PROVE Registered'
  <2> DEFINE Row(u) == remotes[u] = IF phase[u] \in {"newfs", "mounted"} THEN Renamed(u) ELSE {}
  <2> USE DEF Configured, Goto
  <2>1. ASSUME NEW u \in Volumes, u # v PROVE Row(u)'
    BY <1>1, <2>1, OtherVolumes, SameNames
  <2>2. Row(v)'
    <3>1. CASE LoadConfig(v)
      BY <3>1, SameNames DEF LoadConfig
    <3>2. CASE MountSucceeds(v)
      BY <3>2, SameNames DEF MountSucceeds
    <3>3. CASE MountFails(v) \/ Unmount(v)
      BY <3>3 DEF MountFails, Unmount, Cleanup
    <3>4. CASE LoadConfigFails(v)
      BY <3>4 DEF LoadConfigFails
    <3>5. CASE Remount(v) \/ \E c \in Configs : Publish(v, c)
      BY <3>5 DEF Remount, Publish
    <3> QED BY <1>1, <3>1, <3>2, <3>3, <3>4, <3>5 DEF VolumeStep
  <2> QED BY <2>1, <2>2
<1>2. CASE Crash
  BY <1>2 DEF Crash
<1>3. CASE UNCHANGED vars
  BY <1>3, SameNames DEF vars
<1> QED BY <1>1, <1>2, <1>3 DEF Next

(* The sections of two volumes that mount are apart.                       *)
LEMMA Apart ==
  ASSUME Configured, Registered, NEW u \in Volumes, NEW v \in Volumes, u # v,
         phase[u] # "none", phase[v] # "none"
  PROVE  /\ Renamed(u) \cap Renamed(v) = {}
         /\ Renamed(u) \cap remotes[v] = {}
<1>1. \A m \in Names(config[u]), n \in Names(config[v]) : Rename(u)[m] # Rename(v)[n]
  <2>1. /\ config[u] \in Configs /\ override[u] = Override[u]
        /\ config[v] \in Configs /\ override[v] = Override[v]
    BY DEF Configured
  <2> QED BY <2>1, PrefixesApart DEF Prefix, Rename, Names
<1>2. Renamed(u) \cap Renamed(v) = {}
  BY <1>1 DEF Renamed
<1> QED BY <1>2 DEF Registered

LEMMA DomainOfIsolated ==
  ASSUME NEW v \in Volumes, NEW isolated \in isolateConfigRemotes(v)
  PROVE  DOMAIN isolated = Renamed(v)
  BY DEF isolateConfigRemotes

(* SetValue adds sections and overwrites values, and touches nothing else. *)
LEMMA SetValuesDomain ==
  ASSUME NEW new, NEW old
  PROVE  DOMAIN SetValues(new, old) = DOMAIN new \cup DOMAIN old
  BY DEF SetValues, Over

LEMMA SetValuesNew ==
  ASSUME NEW new, NEW old, NEW s \in DOMAIN new, NEW k \in DOMAIN new[s]
  PROVE  /\ k \in DOMAIN SetValues(new, old)[s]
         /\ SetValues(new, old)[s][k] = new[s][k]
  BY DEF SetValues, Over

LEMMA SetValuesOld ==
  ASSUME NEW new, NEW old, NEW s \in DOMAIN old \ DOMAIN new
  PROVE  SetValues(new, old)[s] = old[s]
  BY DEF SetValues, Over

LEMMA SetValuesFresh ==
  ASSUME NEW new, NEW old, NEW s \in DOMAIN new \ DOMAIN old
  PROVE  SetValues(new, old)[s] = new[s]
  BY DEF SetValues, Over

LEMMA RestrictKeeps ==
  ASSUME NEW f, NEW S
  PROVE  /\ DOMAIN Restrict(f, S) = S
         /\ \A s \in S : Restrict(f, S)[s] = f[s]
  BY DEF Restrict

(* What a load that fails half way has set.                                *)
LEMMA HalfLoaded ==
  ASSUME NEW v \in Volumes, LoadConfigFails(v)
  PROVE  \E set, d :
           /\ d \subseteq Renamed(v) /\ DOMAIN set = d
           /\ loaded' = SetValues(set, loaded)
           /\ leaked' = leaked \cup d
<1>0. PICK isolated \in isolateConfigRemotes(v), s \in Renamed(v) :
        \E done \in SUBSET (Renamed(v) \ {s}), keys \in SUBSET DOMAIN isolated[s] :
        /\ loaded' = SetValues([r \in done \cup {s} |->
                       IF r = s THEN Restrict(isolated[s], keys) ELSE isolated[r]], loaded)
        /\ leaked' = leaked \cup done \cup {s}
  BY DEF LoadConfigFails
<1>1. PICK done \in SUBSET (Renamed(v) \ {s}), keys \in SUBSET DOMAIN isolated[s] :
        /\ loaded' = SetValues([r \in done \cup {s} |->
                       IF r = s THEN Restrict(isolated[s], keys) ELSE isolated[r]], loaded)
        /\ leaked' = leaked \cup done \cup {s}
  BY <1>0
<1> DEFINE set == [r \in done \cup {s} |-> IF r = s THEN Restrict(isolated[s], keys) ELSE isolated[r]]
<1>2. DOMAIN set = done \cup {s} /\ done \cup {s} \subseteq Renamed(v)
  OBVIOUS
<1>3. loaded' = SetValues(set, loaded) /\ leaked' = leaked \cup (done \cup {s})
  BY <1>1
<1> HIDE DEF set
<1> QED BY <1>2, <1>3

LEMMA AccountedStep ==
  Configured /\ Registered /\ SectionsAccounted /\ [Next]_vars => SectionsAccounted'
<1> SUFFICES ASSUME Configured, Registered, SectionsAccounted, [Next]_vars
             PROVE  SectionsAccounted'
  OBVIOUS
<1> USE DEF SectionsAccounted
<1>1. ASSUME NEW v \in Volumes, VolumeStep(v) PROVE SectionsAccounted'
  <2>1. \A u \in Volumes : u # v => remotes'[u] = remotes[u]
    BY <1>1, OtherVolumes
  <2>2. CASE LoadConfig(v)
    <3>1. DOMAIN loaded' = Renamed(v) \cup DOMAIN loaded
      <4>1. PICK isolated \in isolateConfigRemotes(v) : loaded' = SetValues(isolated, loaded)
        BY <2>2 DEF LoadConfig
      <4>2. DOMAIN SetValues(isolated, loaded) = DOMAIN isolated \cup DOMAIN loaded
        BY SetValuesDomain
      <4> QED BY <4>1, <4>2, DomainOfIsolated
    <3>2. remotes[v] = {} /\ remotes'[v] = Renamed(v) /\ leaked' = leaked
      BY <2>2 DEF LoadConfig, Registered, Configured, Goto
    <3> QED BY <2>1, <3>1, <3>2
  <2>3. CASE LoadConfigFails(v)
    <3>1. PICK set, d : /\ DOMAIN set = d
                        /\ loaded' = SetValues(set, loaded)
                        /\ leaked' = leaked \cup d
      BY <2>3, HalfLoaded
    <3>2. DOMAIN loaded' = d \cup DOMAIN loaded
      BY <3>1, SetValuesDomain
    <3>3. remotes' = remotes
      BY <2>3 DEF LoadConfigFails
    <3> QED BY <3>1, <3>2, <3>3
  <2>4. CASE MountFails(v) \/ Unmount(v)
    <3>1. /\ loaded' = Restrict(loaded, DOMAIN loaded \ remotes[v])
          /\ remotes'[v] = {} /\ leaked' = leaked \ remotes[v]
      BY <2>4 DEF MountFails, Unmount, Cleanup, Configured
    <3>2. DOMAIN loaded' = DOMAIN loaded \ remotes[v]
      BY <3>1, RestrictKeeps
    <3>3. ASSUME NEW u \in Volumes, u # v PROVE remotes[u] \cap remotes[v] = {}
      BY <3>3, <2>4, Apart DEF Registered, MountFails, Unmount, Goto
    <3>4. UNION {remotes'[u] : u \in Volumes} = (UNION {remotes[u] : u \in Volumes}) \ remotes[v]
      <4>1. \A u \in Volumes : remotes'[u] = remotes[u] \ remotes[v]
        BY <2>1, <3>1, <3>3
      <4> QED BY <4>1
    <3> QED BY <3>1, <3>2, <3>4
  <2>5. CASE UNCHANGED <<remotes, loaded, leaked>>
    BY <2>5
  <2> QED BY <1>1, <2>2, <2>3, <2>4, <2>5 DEF VolumeStep, Publish, Remount, MountSucceeds
<1>2. CASE Crash
  BY <1>2 DEF Crash
<1>3. CASE UNCHANGED vars
  BY <1>3 DEF vars
<1> QED BY <1>1, <1>2, <1>3 DEF Next

(* rclone's config holds what was loaded for a volume, and no other key,   *)
(* unless an earlier load had failed half way.                             *)
Holds(isolated) ==
  \A s \in DOMAIN isolated :
    /\ s \in DOMAIN loaded
    /\ \A k \in DOMAIN isolated[s] : k \in DOMAIN loaded[s] /\ loaded[s][k] = isolated[s][k]
    /\ s \notin leaked => DOMAIN loaded[s] = DOMAIN isolated[s]

OwnSections ==
  \A v \in Volumes : phase[v] = "newfs" => \E isolated \in isolateConfigRemotes(v) : Holds(isolated)

(* A section that is loaded and not leaked belongs to a volume that mounts.*)
LEMMA FreshSection ==
  ASSUME Configured, Registered, SectionsAccounted,
         NEW v \in Volumes, phase[v] = "load", NEW s \in Renamed(v) \ leaked
  PROVE  s \notin DOMAIN loaded
<1> SUFFICES ASSUME s \in DOMAIN loaded PROVE FALSE
  OBVIOUS
<1>1. PICK u \in Volumes : s \in remotes[u]
  BY DEF SectionsAccounted
<1>2. phase[u] \in {"newfs", "mounted"}
  BY <1>1 DEF Registered
<1> QED BY <1>1, <1>2, Apart

(* A load leaves its own sections in the config.                           *)
LEMMA LoadHolds ==
  ASSUME Configured, Registered, SectionsAccounted, NEW v \in Volumes, LoadConfig(v),
         NEW isolated \in isolateConfigRemotes(v), loaded' = SetValues(isolated, loaded)
  PROVE  Holds(isolated)'
<1>1. phase[v] = "load" /\ leaked' = leaked
  BY DEF LoadConfig, Goto
<1> SUFFICES ASSUME NEW s \in DOMAIN isolated
             PROVE  /\ s \in DOMAIN loaded'
                    /\ \A k \in DOMAIN isolated[s] :
                         k \in DOMAIN loaded'[s] /\ loaded'[s][k] = isolated[s][k]
                    /\ s \notin leaked' => DOMAIN loaded'[s] = DOMAIN isolated[s]
  BY DEF Holds
<1>2. s \in DOMAIN loaded'
  BY SetValuesDomain
<1>3. ASSUME NEW k \in DOMAIN isolated[s]
      PROVE  k \in DOMAIN loaded'[s] /\ loaded'[s][k] = isolated[s][k]
  BY SetValuesNew
<1>4. ASSUME s \notin leaked' PROVE DOMAIN loaded'[s] = DOMAIN isolated[s]
  <2>1. s \in Renamed(v) \ leaked
    BY <1>1, <1>4, DomainOfIsolated
  <2>2. s \notin DOMAIN loaded
    BY <1>1, <2>1, FreshSection
  <2> QED BY <2>2, SetValuesFresh
<1> QED BY <1>2, <1>3, <1>4

(* What a volume does leaves the sections of another as they are.          *)
LEMMA OthersKept ==
  ASSUME Configured, Registered, NEW u \in Volumes, NEW v \in Volumes, u # v,
         phase[u] = "newfs", VolumeStep(v), NEW s \in Renamed(u) \cap DOMAIN loaded
  PROVE  /\ s \in DOMAIN loaded' /\ loaded'[s] = loaded[s]
         /\ s \in leaked' <=> s \in leaked
<1>1. CASE LoadConfig(v)
  <2>1. PICK isolated \in isolateConfigRemotes(v) : loaded' = SetValues(isolated, loaded)
    BY <1>1 DEF LoadConfig
  <2>2. phase[v] # "none" /\ leaked' = leaked
    BY <1>1 DEF LoadConfig, Goto
  <2>3. s \notin DOMAIN isolated
    BY <2>2, Apart, DomainOfIsolated
  <2>4. DOMAIN SetValues(isolated, loaded) = DOMAIN isolated \cup DOMAIN loaded
    BY SetValuesDomain
  <2>5. SetValues(isolated, loaded)[s] = loaded[s]
    BY <2>3, SetValuesOld
  <2> QED BY <2>1, <2>2, <2>4, <2>5
<1>2. CASE LoadConfigFails(v)
  <2>1. PICK set, d : /\ d \subseteq Renamed(v) /\ DOMAIN set = d
                      /\ loaded' = SetValues(set, loaded)
                      /\ leaked' = leaked \cup d
    BY <1>2, HalfLoaded
  <2>2. phase[v] # "none"
    BY <1>2 DEF LoadConfigFails, Goto
  <2>3. s \notin DOMAIN set /\ s \notin d
    BY <2>1, <2>2, Apart
  <2>4. DOMAIN SetValues(set, loaded) = DOMAIN set \cup DOMAIN loaded
    BY SetValuesDomain
  <2>5. SetValues(set, loaded)[s] = loaded[s]
    BY <2>3, SetValuesOld
  <2> QED BY <2>1, <2>3, <2>4, <2>5
<1>3. CASE MountFails(v) \/ Unmount(v)
  <2>1. /\ phase[v] # "none"
        /\ loaded' = Restrict(loaded, DOMAIN loaded \ remotes[v])
        /\ leaked' = leaked \ remotes[v]
    BY <1>3 DEF MountFails, Unmount, Cleanup, Goto
  <2>2. s \notin remotes[v]
    BY <2>1, Apart
  <2> QED BY <2>1, <2>2, RestrictKeeps
<1>4. CASE UNCHANGED <<loaded, leaked>>
  BY <1>4
<1> QED BY <1>1, <1>2, <1>3, <1>4 DEF VolumeStep, Publish, Remount, MountSucceeds

LEMMA OwnStep ==
  Configured /\ Registered /\ SectionsAccounted /\ OwnSections /\ [Next]_vars => OwnSections'
<1> SUFFICES ASSUME Configured, Registered, SectionsAccounted, OwnSections, [Next]_vars,
                    NEW u \in Volumes, phase'[u] = "newfs"
             PROVE  \E isolated \in isolateConfigRemotes(u)' : Holds(isolated)'
  BY DEF OwnSections
<1>1. ASSUME NEW v \in Volumes, VolumeStep(v)
      PROVE  \E isolated \in isolateConfigRemotes(u)' : Holds(isolated)'
  <2>1. CASE u = v
    <3>1. LoadConfig(v)
      BY <1>1, <2>1 DEF VolumeStep, Publish, Remount, LoadConfigFails, MountSucceeds,
         MountFails, Unmount, Goto, Configured
    <3>2. isolateConfigRemotes(v)' = isolateConfigRemotes(v)
      BY <3>1, SameNames DEF LoadConfig
    <3>3. PICK isolated \in isolateConfigRemotes(v) : loaded' = SetValues(isolated, loaded)
      BY <3>1 DEF LoadConfig
    <3>4. Holds(isolated)'
      BY <3>1, <3>3, LoadHolds
    <3> QED BY <2>1, <3>2, <3>4
  <2>2. CASE u # v
    <3>1. phase[u] = "newfs" /\ isolateConfigRemotes(u)' = isolateConfigRemotes(u)
      BY <1>1, <2>2, OtherVolumes, SameNames
    <3>2. PICK isolated \in isolateConfigRemotes(u) : Holds(isolated)
      BY <3>1 DEF OwnSections
    <3>3. ASSUME NEW s \in DOMAIN isolated
          PROVE  /\ s \in DOMAIN loaded' /\ loaded'[s] = loaded[s]
                 /\ s \in leaked' <=> s \in leaked
      <4>1. s \in Renamed(u) \cap DOMAIN loaded
        BY <3>2, DomainOfIsolated DEF Holds
      <4> QED BY <1>1, <2>2, <3>1, <4>1, OthersKept
    <3>4. Holds(isolated)'
      BY <3>2, <3>3 DEF Holds
    <3> QED BY <3>1, <3>4
  <2> QED BY <2>1, <2>2
<1>2. CASE Crash
  BY <1>2 DEF Crash
<1>3. CASE UNCHANGED vars
  <2>1. isolateConfigRemotes(u)' = isolateConfigRemotes(u)
    BY <1>3, SameNames DEF vars
  <2>2. PICK isolated \in isolateConfigRemotes(u) : Holds(isolated)
    BY <1>3 DEF vars, OwnSections
  <2>3. Holds(isolated)'
    BY <1>3, <2>2 DEF vars, Holds
  <2> QED BY <2>1, <2>3
<1> QED BY <1>1, <1>2, <1>3 DEF Next

-----------------------------------------------------------------------------
(* What the theorems rest on: which request a volume mounts for, that      *)
(* every section that is loaded is registered or leaked, and what those of *)
(* a volume that is about to read them hold.                               *)
IInv == Configured /\ Registered /\ SectionsAccounted /\ OwnSections

LEMMA Invariant == Spec => []IInv
<1>1. Init => IInv
  BY InitConfigured DEF Init, IInv, SectionsAccounted, OwnSections
<1>2. IInv /\ [Next]_vars => IInv'
  BY ConfiguredStep, RegisteredStep, AccountedStep, OwnStep DEF IInv
<1> QED BY <1>1, <1>2, PTL DEF Spec

(* No section outlives its mount, but those of half-failed loads, and none *)
(* goes before it.                                                         *)
THEOREM NothingLeaks == Spec => []SectionsAccounted
<1>1. IInv => SectionsAccounted
  BY DEF IInv
<1> QED BY <1>1, Invariant, PTL

(* No other volume, and nothing left behind, touches what a mount is about *)
(* to read.                                                                *)
THEOREM MountsIsolated == Spec => []SectionsIntact
<1>1. IInv => SectionsIntact
  BY DEF IInv, OwnSections, Holds, SectionsIntact
<1> QED BY <1>1, Invariant, PTL

(* A remount after a restart uses the names of the publish.                *)
THEOREM NamesKept == Spec => []RemountKeepsNames
<1>1. IInv => RemountKeepsNames
  <2> SUFFICES ASSUME IInv, NEW v \in Volumes, phase[v] \in {"newfs", "mounted"}
               PROVE  remotes[v] = {MakeConfigName(remotePrefixForVolume(v, Override[v]) \o n) :
                                      n \in Names(config[v])}
    BY DEF RemountKeepsNames
  <2>1. remotes[v] = Renamed(v) /\ override[v] = Override[v]
    BY DEF IInv, Configured, Registered
  <2> QED BY <2>1 DEF Renamed, Rename, RenameMap, Prefix
<1> QED BY <1>1, Invariant, PTL

-----------------------------------------------------------------------------
LEMMA TypeStep ==
  Configured /\ SectionsAccounted' /\ Registered' /\ TypeOK /\ [Next]_vars => TypeOK'
<1> SUFFICES ASSUME Configured, SectionsAccounted', Registered', Configured', TypeOK, [Next]_vars
             PROVE  TypeOK'
  BY ConfiguredStep
<1>1. /\ phase' \in [Volumes -> {"none", "load", "newfs", "mounted"}]
      /\ boot' \subseteq {v \in Volumes : saved'[v] # NoConfig}
      /\ \A v \in Volumes : phase'[v] # "none" => config'[v] # NoConfig /\ override'[v] = Override[v]
  BY NoConfigAssumption DEF Configured
<1>2. \A v \in Volumes : phase'[v] \in {"none", "load"} => remotes'[v] = {}
  BY DEF Registered
<1>3. leaked' \subseteq DOMAIN loaded'
  BY DEF SectionsAccounted
<1>4. /\ config' \in [Volumes -> Configs \cup {NoConfig}]
      /\ \A v \in Volumes : override'[v] \in {NoOverride, Override[v]}
  <2> USE DEF TypeOK, Configured, Goto, Drop
  <2>1. CASE Crash
    BY <2>1 DEF Crash
  <2>2. ASSUME NEW v \in Volumes, NEW c \in Configs, Publish(v, c)
        PROVE  /\ config' \in [Volumes -> Configs \cup {NoConfig}]
               /\ \A u \in Volumes : override'[u] \in {NoOverride, Override[u]}
    BY <2>2 DEF Publish
  <2>3. ASSUME NEW v \in Volumes, Remount(v)
        PROVE  /\ config' \in [Volumes -> Configs \cup {NoConfig}]
               /\ \A u \in Volumes : override'[u] \in {NoOverride, Override[u]}
    BY <2>3 DEF Remount
  <2>4. ASSUME NEW v \in Volumes, LoadConfigFails(v) \/ MountFails(v) \/ Unmount(v)
        PROVE  /\ config' \in [Volumes -> Configs \cup {NoConfig}]
               /\ \A u \in Volumes : override'[u] \in {NoOverride, Override[u]}
    BY <2>4 DEF LoadConfigFails, MountFails, Unmount
  <2>5. CASE UNCHANGED <<config, override>>
    BY <2>5
  <2> QED BY <2>1, <2>2, <2>3, <2>4, <2>5 DEF Next, VolumeStep, LoadConfig, MountSucceeds, vars
<1>5. crashes' \in 0 .. MaxCrashes /\ halves' \in 0 .. MaxHalves
  BY BoundsAssumption DEF TypeOK, Next, VolumeStep, Crash, Publish, Remount, LoadConfig,
     LoadConfigFails, MountSucceeds, MountFails, Unmount, vars
<1> QED BY <1>1, <1>2, <1>3, <1>4, <1>5 DEF TypeOK

(* Every variable keeps its type.                                          *)
THEOREM TypeCorrect == Spec => []TypeOK
<1>1. Init => TypeOK
  BY BoundsAssumption DEF Init, TypeOK
<1>2. IInv /\ IInv' /\ TypeOK /\ [Next]_vars => TypeOK'
  BY TypeStep DEF IInv
<1> QED BY <1>1, <1>2, Invariant, PTL DEF Spec

-----------------------------------------------------------------------------
(* The rewriting of one config, on its own: every reference to a section   *)
(* of the config leads to the section's new name, every other stays.       *)
Followed(rename, refs) ==
  [i \in DOMAIN refs |->
     IF refs[i].to \in DOMAIN rename THEN [refs[i] EXCEPT !.to = rename[@]] ELSE refs[i]]

RewritesRight ==
  \A v \in Volumes, c \in Configs : \A n \in Names(c) : \A k \in DOMAIN c.sections[n] \cap RefKeys :
    LET rename == RenameMap(remotePrefixForVolume(v, Override[v]), Names(c))
        refs   == c.sections[n][k]
    IN  rewriteRemoteReferences(rename, Text(refs)) = Text(Followed(rename, refs))

(* Then a section is rewritten as its user meant it.                       *)
LEMMA RewrittenAsMeant ==
  ASSUME RewritesRight, Configured, NEW v \in Volumes, phase[v] # "none", NEW n \in Names(config[v])
  PROVE  Rewritten(v, n) = Meant(v, n)
<1>1. /\ config[v] \in Configs
      /\ Rename(v) = RenameMap(remotePrefixForVolume(v, Override[v]), Names(config[v]))
  BY DEF Configured, Rename, Prefix
<1>2. DOMAIN Rename(v) = Names(config[v])
  BY <1>1 DEF RenameMap
<1> DEFINE section == config[v].sections[n]
<1>3. ASSUME NEW k \in DOMAIN section, k \in RefKeys
      PROVE  rewriteRemoteReferences(Rename(v), Text(section[k])) = Text(Followed(Rename(v), section[k]))
  BY <1>1, <1>3 DEF RewritesRight
<1>4. Meant(v, n) = [k \in DOMAIN section |->
        IF k \in RefKeys THEN Text(Followed(Rename(v), section[k])) ELSE section[k]]
  BY <1>2 DEF Meant, Followed
<1> QED BY <1>3, <1>4 DEF Rewritten

(* A section whose new name is its own is the one found under it.          *)
LEMMA FoundUnderItsName ==
  ASSUME NEW v \in Volumes, NEW n \in Names(config[v]), KeepsApart(v, n),
         NEW isolated \in isolateConfigRemotes(v)
  PROVE  Rename(v)[n] \in DOMAIN isolated /\ isolated[Rename(v)[n]] = Rewritten(v, n)
<1>1. PICK from \in Origins(v) : isolated = [s \in Renamed(v) |-> Rewritten(v, from[s])]
  BY DEF isolateConfigRemotes
<1>2. Rename(v)[n] \in Renamed(v)
  BY DEF Renamed
<1>3. from[Rename(v)[n]] = n
  BY <1>2 DEF Origins, KeepsApart
<1> QED BY <1>1, <1>2, <1>3

(* If the rewriting is right for each config on its own, then every mount  *)
(* reads the config it was meant to read, and no other key but those of an *)
(* earlier load that failed half way; only sections that become one with   *)
(* another of their config may be lost (isolateConfigRemotes,              *)
(* loadRcloneConfig, cleanupConfigRemotes).                                *)
THEOREM MountsReadTheirConfig ==
  ASSUME RewritesRight PROVE Spec => []ReadsOwnConfig
<1>1. IInv => ReadsOwnConfig
  <2> SUFFICES ASSUME IInv, NEW v \in Volumes, phase[v] = "newfs",
                      NEW n \in Names(config[v]), KeepsApart(v, n)
               PROVE  LET s == Rename(v)[n]
                          meant == Meant(v, n)
                      IN  /\ \A k \in DOMAIN meant : k \in DOMAIN loaded[s] /\ loaded[s][k] = meant[k]
                          /\ s \notin leaked => DOMAIN loaded[s] = DOMAIN meant
    BY DEF ReadsOwnConfig
  <2>1. PICK isolated \in isolateConfigRemotes(v) : Holds(isolated)
    BY DEF IInv, OwnSections
  <2>2. Rename(v)[n] \in DOMAIN isolated /\ isolated[Rename(v)[n]] = Meant(v, n)
    BY FoundUnderItsName, RewrittenAsMeant DEF IInv
  <2> QED BY <2>1, <2>2 DEF Holds
<1> QED BY <1>1, Invariant, PTL
=============================================================================
