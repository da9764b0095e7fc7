---------------------------- MODULE StartupProofs ----------------------------
(***************************************************************************)
(* Startup for every configuration: the process serves exactly the valid   *)
(* ones, and what it then offers is what they say.                         *)
(*                                                                         *)
(* The checks look at one entry at a time and compare it with what the     *)
(* loops have built so far; the argument is that what they have built is   *)
(* the image of the entries before it.                                     *)
(***************************************************************************)
EXTENDS Startup, FiniteSetTheorems, SequenceTheorems, WellFoundedInduction, TLAPS

-----------------------------------------------------------------------------
(* What is valid, entry by entry *)

GoodCluster(c) == trim[c.name] # Empty /\ trim[c.url] # Empty

GoodGroup(g) ==
  /\ trim[g.name] # Empty /\ g.usecases # <<>>
  /\ \A j \in DOMAIN g.usecases :
       trim[g.usecases[j].usecase] # Empty /\ g.usecases[j].targets # <<>>

(* The first n clusters, or groups, are good and have names of their own;  *)
(* they are what was built.                                                *)
ClustersDone(n) ==
  /\ Len(cfg.clusters) = n
  /\ \A j \in 1 .. n :
       cfg.clusters[j].name = trim[clusters[j].name] /\ GoodCluster(clusters[j])
  /\ \A i, j \in 1 .. n : trim[clusters[i].name] = trim[clusters[j].name] => i = j

GroupsDone(n) ==
  /\ Len(cfg.groups) = n
  /\ \A j \in 1 .. n :
       /\ cfg.groups[j].name = trim[groups[j].name]
       /\ cfg.groups[j].cluster = trim[groups[j].cluster]
       /\ GoodGroup(groups[j])
  /\ \A i, j \in 1 .. n : trim[groups[i].name] = trim[groups[j].name] => i = j

(* The clusters of the first n groups are configured. *)
Placed(n) ==
  \A j \in 1 .. n :
    \E i \in 1 .. Len(clusters) : trim[groups[j].cluster] = trim[clusters[i].name]

-----------------------------------------------------------------------------
(* The inductive invariant *)

LoadedCluster == {[name |-> trim[c.name], url |-> trim[c.url]] : c \in RawCluster}
LoadedGroup == {Loaded(g) : g \in RawGroup}

Typed ==
  /\ clusters \in Seq(RawCluster) /\ groups \in Seq(RawGroup)
  /\ k \in Nat /\ k >= 1
  /\ cfg \in [clusters : Seq(LoadedCluster), groups : Seq(LoadedGroup)]
  /\ pc \in {"clusters", "groups", "register", "group", "serving", "failed",
             "stopped", "fatal"}

InMain == {"register", "group", "serving", "failed", "stopped"}

AtClusters ==
  pc = "clusters" =>
    /\ k <= Len(clusters) + 1 /\ ClustersDone(k - 1) /\ cfg.groups = <<>>
    /\ k > 1 => "clusters" \notin broken

ClustersRead ==
  pc = "groups" \/ pc \in InMain =>
    ClustersDone(Len(clusters)) /\ clusters # <<>> /\ broken \cap {"clusters", "groups"} = {}

AtGroups == pc = "groups" => k <= Len(groups) + 1 /\ GroupsDone(k - 1)

GroupsRead == pc \in InMain => GroupsDone(Len(groups)) /\ ValidEnv

AtRegister ==
  /\ pc \in {"clusters", "groups"} => DOMAIN registry.members = {}
  /\ pc = "register" =>
       /\ k <= Len(clusters) + 1
       /\ DOMAIN registry.members = {cfg.clusters[j].name : j \in 1 .. k - 1}

Registered ==
  pc \in InMain \ {"register"} =>
    DOMAIN registry.members = {cfg.clusters[j].name : j \in 1 .. Len(clusters)}

AtGroup ==
  /\ pc = "group" => k <= Len(groups) + 1 /\ Placed(k - 1)
  /\ Serving => Placed(Len(groups))

FatalJustified ==
  pc = "fatal" => ~ValidClusters \/ ~ValidGroups \/ (env.read /\ ~ValidEnv)

IInv ==
  /\ Typed /\ AtClusters /\ ClustersRead /\ AtGroups /\ GroupsRead
  /\ AtRegister /\ Registered /\ AtGroup /\ FatalJustified

-----------------------------------------------------------------------------
(* The two readings of valid agree *)

(* The clusters file is valid when each cluster is good and no two have a  *)
(* name in common.                                                         *)
LEMMA ClustersMeaning ==
  ASSUME clusters \in Seq(RawCluster)
  PROVE  ValidClusters <=>
           /\ "clusters" \notin broken /\ clusters # <<>>
           /\ \A j \in 1 .. Len(clusters) : GoodCluster(clusters[j])
           /\ \A i, j \in 1 .. Len(clusters) :
                trim[clusters[i].name] = trim[clusters[j].name] => i = j
<1>1. DOMAIN clusters = 1 .. Len(clusters)
  BY LenProperties
<1>2. DOMAIN ClusterNames = 1 .. Len(clusters)
      /\ \A j \in 1 .. Len(clusters) : ClusterNames[j] = trim[clusters[j].name]
  BY <1>1 DEF ClusterNames
<1>3. IsInjective(ClusterNames) <=>
        \A i, j \in 1 .. Len(clusters) :
          trim[clusters[i].name] = trim[clusters[j].name] => i = j
  BY <1>2 DEF IsInjective
<1>4. Empty \notin ToSet(ClusterNames) <=>
        \A j \in 1 .. Len(clusters) : trim[clusters[j].name] # Empty
  BY <1>2 DEF ToSet
<1> QED
  BY <1>1, <1>3, <1>4 DEF ValidClusters, GoodCluster

(* The groups file is valid when each group is good and in a configured    *)
(* cluster, and no two have a name in common.                              *)
LEMMA GroupsMeaning ==
  ASSUME clusters \in Seq(RawCluster), groups \in Seq(RawGroup)
  PROVE  ValidGroups <=>
           /\ "groups" \notin broken /\ Placed(Len(groups))
           /\ \A j \in 1 .. Len(groups) : GoodGroup(groups[j])
           /\ \A i, j \in 1 .. Len(groups) :
                trim[groups[i].name] = trim[groups[j].name] => i = j
<1>1. DOMAIN groups = 1 .. Len(groups) /\ DOMAIN clusters = 1 .. Len(clusters)
  BY LenProperties
<1>2. DOMAIN GroupNames = 1 .. Len(groups)
      /\ \A j \in 1 .. Len(groups) : GroupNames[j] = trim[groups[j].name]
  BY <1>1 DEF GroupNames
<1>3. IsInjective(GroupNames) <=>
        \A i, j \in 1 .. Len(groups) :
          trim[groups[i].name] = trim[groups[j].name] => i = j
  <2>1. IsInjective(GroupNames) <=>
          \A i, j \in 1 .. Len(groups) : GroupNames[i] = GroupNames[j] => i = j
    BY <1>2 DEF IsInjective
  <2> QED
    BY <1>2, <2>1
<1>4. Empty \notin ToSet(GroupNames) <=>
        \A j \in 1 .. Len(groups) : trim[groups[j].name] # Empty
  BY <1>2 DEF ToSet
<1>5. ToSet(ClusterNames) = {trim[clusters[i].name] : i \in 1 .. Len(clusters)}
  BY <1>1 DEF ToSet, ClusterNames
<1>6. Placed(Len(groups)) <=>
        \A j \in 1 .. Len(groups) : trim[groups[j].cluster] \in ToSet(ClusterNames)
  BY <1>5 DEF Placed
<1>7. \A j \in 1 .. Len(groups) :
        (\A uc \in ToSet(groups[j].usecases) : trim[uc.usecase] # Empty /\ uc.targets # <<>>)
        <=> \A u \in DOMAIN groups[j].usecases :
              /\ trim[groups[j].usecases[u].usecase] # Empty
              /\ groups[j].usecases[u].targets # <<>>
  BY DEF ToSet
<1> QED
  BY <1>1, <1>3, <1>4, <1>6, <1>7 DEF ValidGroups, GoodGroup

-----------------------------------------------------------------------------
(* Load *)

(* Only the clusters' prefix grows by one good entry. *)
LEMMA LoadClusterKeeps ==
  ASSUME IInv, LoadCluster, ~BadCluster(clusters[k])
  PROVE  IInv'
<1> DEFINE c == clusters[k]
           new == [name |-> trim[c.name], url |-> trim[c.url]]
<1>1. /\ pc = "clusters" /\ pc' = pc /\ k' = k + 1 /\ k \in 1 .. Len(clusters)
      /\ "clusters" \notin broken /\ cfg.groups = <<>> /\ ClustersDone(k - 1)
      /\ cfg' = [cfg EXCEPT !.clusters = Append(cfg.clusters, new)]
      /\ UNCHANGED <<clusters, groups, broken, env, registry>>
  <2>1. /\ pc = "clusters" /\ pc' = pc /\ k' = k + 1 /\ k <= Len(clusters)
        /\ "clusters" \notin broken
        /\ cfg' = [cfg EXCEPT !.clusters = Append(cfg.clusters, new)]
        /\ UNCHANGED <<clusters, groups, broken, env, registry>>
    BY DEF LoadCluster, NextTurn
  <2>2. k \in Nat /\ k >= 1 /\ Len(clusters) \in Nat
    BY LenProperties DEF IInv, Typed
  <2>3. cfg.groups = <<>> /\ ClustersDone(k - 1)
    BY <2>1 DEF IInv, AtClusters
  <2> HIDE DEF new
  <2> QED
    BY <2>1, <2>2, <2>3
<1>2. c \in RawCluster /\ new \in LoadedCluster
  BY <1>1, ElementOfSeq DEF IInv, Typed, LoadedCluster
<1>3. /\ cfg'.clusters = Append(cfg.clusters, new) /\ cfg'.groups = cfg.groups
      /\ cfg' \in [clusters : Seq(LoadedCluster), groups : Seq(LoadedGroup)]
  BY <1>1, <1>2, AppendProperties DEF IInv, Typed
<1>4. /\ Len(cfg.clusters) = k - 1 /\ Len(cfg'.clusters) = k /\ cfg'.clusters[k] = new
      /\ \A j \in 1 .. k - 1 : cfg'.clusters[j] = cfg.clusters[j]
  <2>1. /\ cfg.clusters \in Seq(LoadedCluster) /\ Len(cfg.clusters) = k - 1
        /\ k \in Nat /\ k - 1 + 1 = k
    BY <1>1 DEF IInv, Typed, ClustersDone
  <2> HIDE DEF new
  <2> QED
    BY <1>2, <1>3, <2>1, AppendProperties
<1>5. GoodCluster(c) /\ \A j \in 1 .. k - 1 : trim[clusters[j].name] # trim[c.name]
  <2>1. DOMAIN cfg.clusters = 1 .. k - 1
    BY <1>3, <1>4, LenProperties DEF IInv, Typed
  <2>2. \A j \in 1 .. k - 1 : cfg.clusters[j].name = trim[clusters[j].name]
    BY <1>1 DEF ClustersDone
  <2> QED
    BY <2>1, <2>2 DEF BadCluster, GoodCluster, Names
<1>6. /\ \A j \in 1 .. k : cfg'.clusters[j].name = trim[clusters[j].name] /\ GoodCluster(clusters[j])
      /\ \A i, j \in 1 .. k : trim[clusters[i].name] = trim[clusters[j].name] => i = j
  <2>1. /\ \A j \in 1 .. k - 1 :
             cfg.clusters[j].name = trim[clusters[j].name] /\ GoodCluster(clusters[j])
        /\ \A i, j \in 1 .. k - 1 : trim[clusters[i].name] = trim[clusters[j].name] => i = j
    BY <1>1 DEF ClustersDone
  <2>2. k \in Nat /\ \A j \in 1 .. k : j = k \/ j \in 1 .. k - 1
    BY <1>1 DEF IInv, Typed
  <2>3. cfg'.clusters[k].name = trim[clusters[k].name]
    BY <1>4
  <2>4. ASSUME NEW j \in 1 .. k
        PROVE  cfg'.clusters[j].name = trim[clusters[j].name] /\ GoodCluster(clusters[j])
    BY <1>4, <1>5, <2>1, <2>2, <2>3
  <2>5. ASSUME NEW i \in 1 .. k, NEW j \in 1 .. k,
               trim[clusters[i].name] = trim[clusters[j].name]
        PROVE  i = j
    BY <1>5, <2>1, <2>2, <2>5
  <2> QED
    BY <2>4, <2>5
<1> HIDE DEF new
<1>7. Typed' /\ k' - 1 = k /\ k' <= Len(clusters) + 1
  <2>1. k \in Nat /\ Len(clusters) \in Nat
    BY LenProperties DEF IInv, Typed
  <2>2. k' \in Nat /\ k' >= 1 /\ k' - 1 = k /\ k' <= Len(clusters) + 1
    BY <1>1, <2>1
  <2> QED
    BY <1>1, <1>3, <2>2 DEF IInv, Typed
<1>8. ClustersDone(k - 1)'
  BY <1>1, <1>4, <1>6, <1>7 DEF ClustersDone, GoodCluster
<1>9. AtClusters'
  BY <1>1, <1>3, <1>7, <1>8 DEF AtClusters
<1> QED
  BY <1>1, <1>7, <1>9
  DEF IInv, ClustersRead, AtGroups, GroupsRead, AtRegister, Registered, AtGroup,
      Serving, FatalJustified, InMain

(* Whatever stops Load is wrong with the files as they are. *)
LEMMA FatalKeeps ==
  ASSUME IInv, Fatal, ~ValidClusters \/ ~ValidGroups
  PROVE  IInv'
<1>1. pc' = "fatal" /\ UNCHANGED <<clusters, groups, broken, env, k, cfg, registry>>
  BY DEF Fatal
<1>2. Typed'
  BY <1>1 DEF IInv, Typed
<1>3. FatalJustified'
  BY <1>1 DEF FatalJustified, ValidClusters, ValidGroups, ClusterNames, GroupNames
<1> QED
  BY <1>1, <1>2, <1>3
  DEF IInv, AtClusters, ClustersRead, AtGroups, GroupsRead, AtRegister, Registered,
      AtGroup, Serving, InMain

(* A cluster that Load refuses makes the file invalid. *)
LEMMA BadClusterInvalid ==
  ASSUME IInv, pc = "clusters", k \in 1 .. Len(clusters), BadCluster(clusters[k])
  PROVE  ~ValidClusters
<1>1. cfg.clusters \in Seq(LoadedCluster) /\ ClustersDone(k - 1) /\ k \in Nat
  BY DEF IInv, Typed, AtClusters
<1>2. DOMAIN cfg.clusters = 1 .. k - 1
  BY <1>1, LenProperties DEF ClustersDone
<1>3. CASE trim[clusters[k].name] \in Names(cfg.clusters)
  <2>1. PICK j \in 1 .. k - 1 : cfg.clusters[j].name = trim[clusters[k].name]
    BY <1>2, <1>3 DEF Names
  <2>2. trim[clusters[j].name] = trim[clusters[k].name] /\ j # k /\ j \in 1 .. Len(clusters)
    BY <1>1, <2>1, LenProperties DEF ClustersDone
  <2> QED
    BY <2>2, ClustersMeaning DEF IInv, Typed
<1>4. CASE ~GoodCluster(clusters[k])
  BY <1>4, ClustersMeaning DEF IInv, Typed
<1> QED
  BY <1>3, <1>4 DEF BadCluster, GoodCluster

(* The clusters are all loaded when the groups file is opened. *)
LEMMA OpenGroupsKeeps ==
  ASSUME IInv, OpenGroups
  PROVE  IInv'
<1>1. /\ pc = "clusters" /\ clusters # <<>> /\ k > Len(clusters)
      /\ clusters \in Seq(RawCluster) /\ k \in Nat /\ k >= 1
      /\ k <= Len(clusters) + 1 /\ ClustersDone(k - 1) /\ cfg.groups = <<>>
      /\ k > 1 => "clusters" \notin broken
  BY DEF IInv, Typed, AtClusters, OpenGroups
<1>2. Len(clusters) \in Nat /\ Len(clusters) # 0 /\ k - 1 = Len(clusters) /\ k > 1
  BY <1>1, LenProperties, EmptySeq
<1>3. CASE "groups" \in broken
  <2>1. Fatal /\ ~ValidGroups
    BY <1>3 DEF OpenGroups, ValidGroups
  <2> QED
    BY <2>1, FatalKeeps
<1>4. CASE "groups" \notin broken
  <2>1. /\ groups' \in Seq(RawGroup) /\ pc' = "groups" /\ k' = 1
        /\ UNCHANGED <<clusters, broken, env, cfg, registry>>
    BY <1>4, GroupFilesAssumption DEF OpenGroups, Goto
  <2>2. Typed'
    BY <2>1 DEF IInv, Typed
  <2>3. ClustersRead'
    <3>1. ClustersDone(Len(clusters))'
      BY <1>1, <1>2, <2>1 DEF ClustersDone, GoodCluster
    <3> QED
      BY <1>1, <1>2, <1>4, <2>1, <3>1 DEF ClustersRead
  <2>4. AtGroups'
    <3>1. Len(groups') \in Nat /\ Len(cfg'.groups) = 0 /\ k' - 1 = 0
      BY <1>1, <2>1, LenProperties, EmptySeq
    <3> QED
      BY <2>1, <3>1 DEF AtGroups, GroupsDone
  <2> QED
    BY <1>1, <2>1, <2>2, <2>3, <2>4
    DEF IInv, AtClusters, GroupsRead, AtRegister, Registered, AtGroup, Serving,
        FatalJustified, InMain
<1> QED
  BY <1>3, <1>4

(* The groups' prefix grows by one good entry. *)
LEMMA LoadGroupKeeps ==
  ASSUME IInv, LoadGroup, ~BadGroup(groups[k])
  PROVE  IInv'
<1> DEFINE g == groups[k]
<1>1. /\ pc = "groups" /\ pc' = pc /\ k' = k + 1 /\ k \in 1 .. Len(groups)
      /\ GroupsDone(k - 1)
      /\ cfg' = [cfg EXCEPT !.groups = Append(cfg.groups, Loaded(g))]
      /\ UNCHANGED <<clusters, groups, broken, env, registry>>
  BY LenProperties DEF IInv, Typed, AtGroups, LoadGroup, NextTurn
<1>2. g \in RawGroup /\ Loaded(g) \in LoadedGroup
  BY <1>1, ElementOfSeq DEF IInv, Typed, LoadedGroup
<1>3. /\ cfg'.groups = Append(cfg.groups, Loaded(g)) /\ cfg'.clusters = cfg.clusters
      /\ cfg' \in [clusters : Seq(LoadedCluster), groups : Seq(LoadedGroup)]
  BY <1>1, <1>2, AppendProperties DEF IInv, Typed
<1>4. /\ Len(cfg.groups) = k - 1 /\ Len(cfg'.groups) = k /\ cfg'.groups[k] = Loaded(g)
      /\ \A j \in 1 .. k - 1 : cfg'.groups[j] = cfg.groups[j]
  <2>1. /\ cfg.groups \in Seq(LoadedGroup) /\ Len(cfg.groups) = k - 1
        /\ k \in Nat /\ k - 1 + 1 = k
    BY <1>1 DEF IInv, Typed, GroupsDone
  <2> DEFINE new == Loaded(g)
  <2>2. new \in LoadedGroup /\ cfg'.groups = Append(cfg.groups, new)
    BY <1>2, <1>3
  <2> HIDE DEF new
  <2>3. /\ Len(cfg'.groups) = k /\ cfg'.groups[k] = new
        /\ \A j \in 1 .. k - 1 : cfg'.groups[j] = cfg.groups[j]
    BY <2>1, <2>2, AppendProperties
  <2> QED
    BY <2>1, <2>3 DEF new
<1>5. GoodGroup(g) /\ \A j \in 1 .. k - 1 : trim[groups[j].name] # trim[g.name]
  <2>1. DOMAIN cfg.groups = 1 .. k - 1
    BY <1>3, <1>4, LenProperties DEF IInv, Typed
  <2>2. \A j \in 1 .. k - 1 : cfg.groups[j].name = trim[groups[j].name]
    BY <1>1 DEF GroupsDone
  <2> QED
    BY <2>1, <2>2 DEF BadGroup, GoodGroup, Names
<1>6. /\ \A j \in 1 .. k :
           /\ cfg'.groups[j].name = trim[groups[j].name]
           /\ cfg'.groups[j].cluster = trim[groups[j].cluster]
           /\ GoodGroup(groups[j])
      /\ \A i, j \in 1 .. k : trim[groups[i].name] = trim[groups[j].name] => i = j
  <2>1. /\ \A j \in 1 .. k - 1 :
             /\ cfg.groups[j].name = trim[groups[j].name]
             /\ cfg.groups[j].cluster = trim[groups[j].cluster]
             /\ GoodGroup(groups[j])
        /\ \A i, j \in 1 .. k - 1 : trim[groups[i].name] = trim[groups[j].name] => i = j
    BY <1>1 DEF GroupsDone
  <2>2. k \in Nat /\ \A j \in 1 .. k : j = k \/ j \in 1 .. k - 1
    BY <1>1 DEF IInv, Typed
  <2>3. /\ cfg'.groups[k].name = trim[groups[k].name]
        /\ cfg'.groups[k].cluster = trim[groups[k].cluster]
    BY <1>4 DEF Loaded
  <2>4. ASSUME NEW j \in 1 .. k
        PROVE  /\ cfg'.groups[j].name = trim[groups[j].name]
               /\ cfg'.groups[j].cluster = trim[groups[j].cluster]
               /\ GoodGroup(groups[j])
    <3>1. CASE j = k
      BY <1>5, <2>3, <3>1
    <3>2. CASE j \in 1 .. k - 1
      <4>1. cfg'.groups[j] = cfg.groups[j]
        BY <1>4, <3>2
      <4> QED
        BY <2>1, <3>2, <4>1
    <3> QED
      BY <2>2, <3>1, <3>2
  <2>5. ASSUME NEW i \in 1 .. k, NEW j \in 1 .. k,
               trim[groups[i].name] = trim[groups[j].name]
        PROVE  i = j
    BY <1>5, <2>1, <2>2, <2>5
  <2> QED
    BY <2>4, <2>5
<1>7. Typed' /\ k' - 1 = k /\ k' <= Len(groups) + 1
  <2>1. k \in Nat /\ Len(groups) \in Nat
    BY LenProperties DEF IInv, Typed
  <2>2. k' \in Nat /\ k' >= 1 /\ k' - 1 = k /\ k' <= Len(groups) + 1
    BY <1>1, <2>1
  <2> QED
    BY <1>1, <1>3, <2>2 DEF IInv, Typed
<1>8. GroupsDone(k - 1)'
  BY <1>1, <1>4, <1>6, <1>7 DEF GroupsDone, GoodGroup
<1>9. AtGroups'
  BY <1>1, <1>7, <1>8 DEF AtGroups
<1>10. ClustersRead'
  BY <1>1, <1>3 DEF IInv, ClustersRead, ClustersDone, GoodCluster
<1> QED
  BY <1>1, <1>7, <1>9, <1>10
  DEF IInv, AtClusters, GroupsRead, AtRegister, Registered, AtGroup,
      Serving, FatalJustified, InMain

(* A group that Load refuses makes the file invalid. *)
LEMMA BadGroupInvalid ==
  ASSUME IInv, pc = "groups", k \in 1 .. Len(groups), BadGroup(groups[k])
  PROVE  ~ValidClusters \/ ~ValidGroups
<1>1. cfg.groups \in Seq(LoadedGroup) /\ GroupsDone(k - 1) /\ k \in Nat
  BY DEF IInv, Typed, AtGroups
<1>2. DOMAIN cfg.groups = 1 .. k - 1
  BY <1>1, LenProperties DEF GroupsDone
<1>3. CASE trim[groups[k].name] \in Names(cfg.groups)
  <2>1. PICK j \in 1 .. k - 1 : cfg.groups[j].name = trim[groups[k].name]
    BY <1>2, <1>3 DEF Names
  <2>2. trim[groups[j].name] = trim[groups[k].name] /\ j # k /\ j \in 1 .. Len(groups)
    BY <1>1, <2>1, LenProperties DEF GroupsDone
  <2> QED
    BY <2>2, GroupsMeaning DEF IInv, Typed
<1>4. CASE ~GoodGroup(groups[k])
  BY <1>4, GroupsMeaning DEF IInv, Typed
<1>5. CASE trim[groups[k].cluster] = Empty
  <2>1. SUFFICES ASSUME ValidClusters
                 PROVE  ~Placed(Len(groups))
    BY GroupsMeaning DEF IInv, Typed
  <2>2. \A i \in 1 .. Len(clusters) : trim[clusters[i].name] # Empty
    BY <2>1, ClustersMeaning DEF IInv, Typed, GoodCluster
  <2> QED
    BY <1>5, <2>2 DEF Placed
<1> QED
  BY <1>3, <1>4, <1>5 DEF BadGroup, GoodGroup

(* Credentials come in pairs, and a platform has to have its own. *)
LEMMA ReadEnvKeeps ==
  ASSUME IInv, ReadEnv
  PROVE  IInv'
<1>1. /\ pc = "groups" /\ k > Len(groups) /\ GroupsDone(k - 1) /\ k <= Len(groups) + 1
      /\ k \in Nat /\ Len(groups) \in Nat /\ env' \in Env /\ k' = 1
      /\ pc' = IF env'.parses /\ Platforms(env') THEN "register" ELSE "fatal"
      /\ UNCHANGED <<clusters, groups, broken, cfg, registry>>
  BY LenProperties DEF IInv, Typed, AtGroups, ReadEnv, Goto
<1>2. ValidEnv' <=> env'.parses /\ Platforms(env')
  BY <1>1 DEF Env, ValidEnv, Platforms
<1>3. env'.read
  BY <1>1 DEF Env
<1>4. Typed'
  BY <1>1 DEF IInv, Typed
<1>5. ClustersRead'
  BY <1>1 DEF IInv, ClustersRead, ClustersDone, GoodCluster
<1>6. GroupsRead'
  <2>1. k - 1 = Len(groups)
    BY <1>1
  <2>2. GroupsDone(Len(groups))'
    BY <1>1, <2>1 DEF GroupsDone, GoodGroup
  <2> QED
    BY <1>1, <1>2, <2>2 DEF GroupsRead, InMain
<1>7. FatalJustified'
  BY <1>1, <1>2, <1>3 DEF FatalJustified
<1>8. AtRegister'
  <2>1. k' <= Len(clusters') + 1
    BY <1>1, LenProperties DEF IInv, Typed
  <2>2. DOMAIN registry.members = {}
    BY <1>1 DEF IInv, AtRegister
  <2>3. {cfg'.clusters[j].name : j \in 1 .. k' - 1} = {}
    BY <1>1
  <2> QED
    BY <1>1, <2>1, <2>2, <2>3 DEF AtRegister
<1> QED
  BY <1>1, <1>4, <1>5, <1>6, <1>7, <1>8
  DEF IInv, AtClusters, AtGroups, Registered, AtGroup, Serving, InMain

-----------------------------------------------------------------------------
(* main *)

(* What a step that leaves the files and what was loaded of them alone     *)
(* need not be concerned with.                                             *)
LEMMA LoadedKept ==
  ASSUME IInv, pc \in InMain, UNCHANGED <<clusters, groups, broken, env, cfg>>
  PROVE  /\ ClustersDone(Len(clusters)) /\ GroupsDone(Len(groups))
         /\ pc' \in InMain => ClustersRead' /\ GroupsRead'
<1>1. ClustersDone(Len(clusters)) /\ clusters # <<>> /\ broken \cap {"clusters", "groups"} = {}
  BY DEF IInv, ClustersRead
<1>2. GroupsDone(Len(groups)) /\ ValidEnv
  BY DEF IInv, GroupsRead
<1>3. ClustersDone(Len(clusters))'
  BY <1>1 DEF ClustersDone, GoodCluster
<1>4. GroupsDone(Len(groups))'
  BY <1>2 DEF GroupsDone, GoodGroup
<1>5. ClustersRead'
  BY <1>1, <1>3 DEF ClustersRead
<1>6. GroupsRead'
  BY <1>2, <1>4 DEF GroupsRead, ValidEnv
<1> QED
  BY <1>1, <1>2, <1>5, <1>6

(* One more cluster is registered, under a name of its own. *)
LEMMA RegisterClusterKeeps ==
  ASSUME IInv, RegisterCluster
  PROVE  IInv'
<1> DEFINE name == cfg.clusters[k].name
<1>1. /\ pc = "register" /\ pc' = pc /\ k' = k + 1 /\ k <= Len(cfg.clusters)
      /\ registry' = Add(registry, name, cfg.clusters[k].url)
      /\ UNCHANGED <<clusters, groups, broken, env, cfg>>
  BY DEF RegisterCluster, NextTurn
<1>2. /\ ClustersDone(Len(clusters)) /\ ClustersRead' /\ GroupsRead'
      /\ Len(cfg.clusters) = Len(clusters)
  BY <1>1, LoadedKept DEF InMain, ClustersDone
<1>3. /\ k \in Nat /\ k >= 1 /\ Len(clusters) \in Nat
      /\ DOMAIN registry.members = {cfg.clusters[j].name : j \in 1 .. k - 1}
  BY <1>1, LenProperties DEF IInv, Typed, AtRegister
<1>4. DOMAIN registry'.members = DOMAIN registry.members \cup {name}
  BY <1>1 DEF Add
<1>5. {cfg.clusters[j].name : j \in 1 .. k} = {cfg.clusters[j].name : j \in 1 .. k - 1} \cup {name}
  <2>1. 1 .. k = (1 .. k - 1) \cup {k}
    BY <1>3
  <2> QED
    BY <2>1
<1>6. k' - 1 = k /\ k' <= Len(clusters') + 1 /\ k' \in Nat /\ k' >= 1
  BY <1>1, <1>2, <1>3
<1>7. AtRegister'
  BY <1>1, <1>3, <1>4, <1>5, <1>6 DEF AtRegister
<1>8. Typed'
  BY <1>1, <1>6 DEF IInv, Typed
<1> QED
  BY <1>1, <1>2, <1>7, <1>8
  DEF IInv, AtClusters, AtGroups, Registered, AtGroup, Serving, FatalJustified, InMain

(* All the clusters are registered when the groups' turn comes. *)
LEMMA ClustersRegisteredKeeps ==
  ASSUME IInv, ClustersRegistered
  PROVE  IInv'
<1>1. /\ pc = "register" /\ pc' = "group" /\ k' = 1 /\ k > Len(cfg.clusters)
      /\ UNCHANGED <<clusters, groups, broken, env, cfg, registry>>
  BY DEF ClustersRegistered, Goto
<1>2. ClustersDone(Len(clusters)) /\ ClustersRead' /\ GroupsRead'
  BY <1>1, LoadedKept DEF InMain
<1>3. k - 1 = Len(clusters) /\ Len(groups) \in Nat
  BY <1>1, <1>2, LenProperties DEF IInv, Typed, AtRegister, ClustersDone
<1>4. Registered'
  BY <1>1, <1>3 DEF IInv, AtRegister, Registered
<1>5. AtGroup'
  BY <1>1, <1>3 DEF AtGroup, Placed, Serving
<1>6. Typed'
  BY <1>1 DEF IInv, Typed
<1> QED
  BY <1>1, <1>2, <1>4, <1>5, <1>6
  DEF IInv, AtClusters, AtGroups, AtRegister, FatalJustified, InMain

(* The cluster of the next group is one of those configured, or not. *)
LEMMA ClusterKnown ==
  ASSUME IInv, pc = "group", k \in 1 .. Len(groups)
  PROVE  cfg.groups[k].cluster \in DOMAIN registry.members <=>
           \E i \in 1 .. Len(clusters) : trim[groups[k].cluster] = trim[clusters[i].name]
<1>1. /\ cfg.groups[k].cluster = trim[groups[k].cluster]
      /\ \A i \in 1 .. Len(clusters) : cfg.clusters[i].name = trim[clusters[i].name]
      /\ DOMAIN registry.members = {cfg.clusters[i].name : i \in 1 .. Len(clusters)}
  BY DEF IInv, ClustersRead, GroupsRead, Registered, ClustersDone, GroupsDone, InMain
<1> QED
  BY <1>1

(* A group is added only to a cluster that is configured. *)
LEMMA AddGroupKeeps ==
  ASSUME IInv, AddGroup
  PROVE  IInv'
<1>1. /\ pc = "group" /\ k \in 1 .. Len(groups) /\ k \in Nat /\ Placed(k - 1)
      /\ Len(groups) \in Nat
  <2>1. /\ pc = "group" /\ k <= Len(cfg.groups)
    BY DEF AddGroup
  <2>2. Len(cfg.groups) = Len(groups)
    BY <2>1 DEF IInv, GroupsRead, GroupsDone, InMain
  <2> QED
    BY <2>1, <2>2, LenProperties DEF IInv, Typed, AtGroup
<1>2. CASE cfg.groups[k].cluster \notin DOMAIN registry.members
  <2>1. Fatal
    BY <1>2 DEF AddGroup
  <2>2. ~Placed(Len(groups))
    BY <1>1, <1>2, ClusterKnown DEF Placed
  <2>3. ~ValidGroups
    BY <2>2, GroupsMeaning DEF IInv, Typed
  <2> QED
    BY <2>1, <2>3, FatalKeeps
<1>3. CASE cfg.groups[k].cluster \in DOMAIN registry.members
  <2>1. /\ pc' = pc /\ k' = k + 1
        /\ UNCHANGED <<clusters, groups, broken, env, cfg, registry>>
    BY <1>3 DEF AddGroup, NextTurn
  <2>2. ClustersRead' /\ GroupsRead'
    BY <1>1, <2>1, LoadedKept DEF InMain
  <2>3. Placed(k)
    <3>1. \A j \in 1 .. k : j = k \/ j \in 1 .. k - 1
      BY <1>1
    <3>2. \E i \in 1 .. Len(clusters) : trim[groups[k].cluster] = trim[clusters[i].name]
      BY <1>1, <1>3, ClusterKnown
    <3> QED
      BY <1>1, <3>1, <3>2 DEF Placed
  <2>4. k' \in Nat /\ k' >= 1 /\ k' - 1 = k /\ k' <= Len(groups') + 1
    BY <1>1, <2>1
  <2>5. AtGroup'
    BY <1>1, <2>1, <2>3, <2>4 DEF AtGroup, Placed, Serving
  <2>6. Typed'
    BY <2>1, <2>4 DEF IInv, Typed
  <2> QED
    BY <1>1, <2>1, <2>2, <2>5, <2>6
    DEF IInv, AtClusters, AtGroups, AtRegister, Registered, FatalJustified, InMain
<1> QED
  BY <1>2, <1>3

(* A valid environment starts an adapter at least. *)
LEMMA ServeKeeps ==
  ASSUME IInv, Serve
  PROVE  IInv'
<1>1. /\ pc = "group" /\ k > Len(cfg.groups) /\ k' = 1
      /\ UNCHANGED <<clusters, groups, broken, env, cfg, registry>>
      /\ pc' = IF adapters' = <<>> THEN "fatal" ELSE "serving"
      /\ adapters' = (IF env.lark = 2 THEN <<"lark">> ELSE <<>>)
                       \o (IF env.telegram THEN <<"telegram">> ELSE <<>>)
  BY DEF Serve, Goto
<1>2. ValidEnv /\ GroupsDone(Len(groups))
  BY <1>1 DEF IInv, GroupsRead, InMain
<1>3. adapters' # <<>>
  BY <1>1, <1>2 DEF ValidEnv
<1>4. pc' = "serving"
  BY <1>1, <1>3
<1>5. ClustersRead' /\ GroupsRead'
  BY <1>1, <1>4, LoadedKept DEF InMain
<1>6. k - 1 = Len(groups)
  BY <1>1, <1>2, LenProperties DEF IInv, Typed, AtGroup, GroupsDone
<1>7. AtGroup'
  BY <1>1, <1>4, <1>6 DEF IInv, AtGroup, Placed, Serving
<1>8. Typed'
  BY <1>1, <1>4 DEF IInv, Typed
<1> QED
  BY <1>1, <1>4, <1>5, <1>7, <1>8
  DEF IInv, AtClusters, AtGroups, AtRegister, Registered, FatalJustified, InMain

(* The end of the process changes nothing that was built. *)
LEMMA ExitKeeps ==
  ASSUME IInv, Exit
  PROVE  IInv'
<1>1. /\ pc = "serving" /\ pc' \in {"failed", "stopped"}
      /\ UNCHANGED <<clusters, groups, broken, env, k, cfg, registry>>
  BY DEF Exit
<1>2. ClustersRead' /\ GroupsRead'
  BY <1>1, LoadedKept DEF InMain
<1>3. AtGroup'
  BY <1>1 DEF IInv, AtGroup, Placed, Serving
<1> QED
  BY <1>1, <1>2, <1>3
  DEF IInv, Typed, AtClusters, AtGroups, AtRegister, Registered, FatalJustified, InMain

-----------------------------------------------------------------------------
(* The theorems *)

(* What Load and main have built is the image of what they have read, and  *)
(* what they have read is valid.                                           *)
THEOREM Inductive == Spec => []IInv
<1>1. Init => IInv
  <2> SUFFICES ASSUME Init
               PROVE  IInv
    OBVIOUS
  <2>1. /\ pc = "clusters" /\ clusters \in Seq(RawCluster) /\ groups = <<>> /\ k = 1
        /\ cfg = [clusters |-> <<>>, groups |-> <<>>] /\ DOMAIN registry.members = {}
    BY ClusterFilesAssumption DEF Init, NoRegistry
  <2>2. Typed
    BY <2>1, EmptySeq DEF Typed
  <2>3. AtClusters
    BY <2>1, EmptySeq, LenProperties DEF AtClusters, ClustersDone
  <2> QED
    BY <2>1, <2>2, <2>3
    DEF IInv, ClustersRead, AtGroups, GroupsRead, AtRegister, Registered, AtGroup,
        Serving, FatalJustified, InMain
<1>2. IInv /\ [Next]_vars => IInv'
  <2> SUFFICES ASSUME IInv, [Next]_vars
               PROVE  IInv'
    OBVIOUS
  <2>1. CASE NoClusters
    BY <2>1, FatalKeeps DEF NoClusters, ValidClusters
  <2>2. CASE LoadCluster
    <3>1. pc = "clusters" /\ k \in 1 .. Len(clusters)
      BY <2>2, LenProperties DEF LoadCluster, IInv, Typed
    <3>2. BadCluster(clusters[k]) => Fatal
      BY <2>2 DEF LoadCluster
    <3> QED
      BY <2>2, <3>1, <3>2, LoadClusterKeeps, BadClusterInvalid, FatalKeeps
  <2>3. CASE LoadGroup
    <3>1. pc = "groups" /\ k \in 1 .. Len(groups)
      BY <2>3, LenProperties DEF LoadGroup, IInv, Typed
    <3>2. BadGroup(groups[k]) => Fatal
      BY <2>3 DEF LoadGroup
    <3> QED
      BY <2>3, <3>1, <3>2, LoadGroupKeeps, BadGroupInvalid, FatalKeeps
  <2>4. CASE UNCHANGED vars
    <3>1. UNCHANGED <<pc, clusters, groups, broken, env, k, cfg, registry>>
      BY <2>4 DEF vars
    <3>2. Typed' /\ Registered' /\ AtRegister'
      BY <3>1 DEF IInv, Typed, Registered, AtRegister, InMain
    <3>3. AtClusters' /\ ClustersRead'
      BY <3>1 DEF IInv, AtClusters, ClustersRead, ClustersDone, GoodCluster, InMain
    <3>4. AtGroups' /\ GroupsRead'
      BY <3>1 DEF IInv, AtGroups, GroupsRead, GroupsDone, GoodGroup, ValidEnv, InMain
    <3>5. AtGroup'
      BY <3>1 DEF IInv, AtGroup, Placed, Serving
    <3>6. FatalJustified'
      BY <3>1 DEF IInv, FatalJustified, ValidEnv, ValidClusters, ValidGroups,
                  ClusterNames, GroupNames
    <3> QED
      BY <3>2, <3>3, <3>4, <3>5, <3>6 DEF IInv
  <2> QED
    BY <2>1, <2>2, <2>3, <2>4, OpenGroupsKeeps, ReadEnvKeeps, RegisterClusterKeeps,
       ClustersRegisteredKeeps, AddGroupKeeps, ServeKeeps, ExitKeeps DEF Next
<1> QED
  BY <1>1, <1>2, PTL DEF Spec

(* A configuration is served only if it is valid as a whole, and refused   *)
(* only if it is not.                                                      *)
THEOREM OnlyValid == Spec => []ServesOnlyValid
<1>1. IInv => ServesOnlyValid
  <2> SUFFICES ASSUME IInv
               PROVE  ServesOnlyValid
    OBVIOUS
  <2>1. ASSUME Serving
        PROVE  ValidClusters /\ ValidGroups /\ ValidEnv
    <3>1. /\ ClustersDone(Len(clusters)) /\ clusters # <<>>
          /\ "clusters" \notin broken /\ "groups" \notin broken
          /\ GroupsDone(Len(groups)) /\ ValidEnv /\ Placed(Len(groups))
      BY <2>1 DEF IInv, Serving, ClustersRead, GroupsRead, AtGroup, InMain
    <3>2. ValidClusters
      BY <3>1, ClustersMeaning DEF IInv, Typed, ClustersDone
    <3>3. ValidGroups
      BY <3>1, GroupsMeaning DEF IInv, Typed, GroupsDone
    <3> QED
      BY <3>1, <3>2, <3>3
  <2> QED
    BY <2>1 DEF IInv, FatalJustified, ServesOnlyValid
<1> QED
  BY <1>1, Inductive, PTL

-----------------------------------------------------------------------------
(* Loops: facts about what they compute, by induction over their turns *)

(* A set that holds 0 and, with n, n + 1, holds every number: otherwise    *)
(* the least number outside it would have its predecessor inside.          *)
LEMMA Induction ==
  ASSUME NEW S, 0 \in S, \A n \in Nat : n \in S => n + 1 \in S
  PROVE  Nat \subseteq S
<1> DEFINE T == Nat \ S
<1> SUFFICES ASSUME T # {}
             PROVE  FALSE
  OBVIOUS
<1>1. PICK x \in T : \A y \in T : ~ (<<y, x>> \in OpToRel(<, Nat))
  BY NatLessThanWellFounded, WFMin
<1>2. x \in Nat \ {0} /\ x - 1 \in Nat
  OBVIOUS
<1>3. <<x - 1, x>> \in OpToRel(<, Nat)
  BY <1>2 DEF OpToRel
<1>4. x - 1 \in S
  BY <1>1, <1>2, <1>3, Zenon
<1> QED
  BY <1>2, <1>4

(* f[i] is the state of a loop after its turn i. *)
Follows(f, n, first, step) ==
  f[0] = first /\ \A i \in 1 .. n : f[i] = step[<<i, f[i - 1]>>]

(* A loop whose turns keep to a type has such a function, of that type. *)
LEMMA LoopDefined ==
  ASSUME NEW n \in Nat, NEW S, NEW first \in S, NEW step \in [(1 .. n) \X S -> S]
  PROVE  \E f \in [0 .. n -> S] : Follows(f, n, first, step)
<1> DEFINE Upto(m, f) == f[0] = first /\ \A i \in 1 .. m : f[i] = step[<<i, f[i - 1]>>]
           T == {m \in Nat : m <= n => \E f \in [0 .. m -> S] : Upto(m, f)}
<1>1. 0 \in T
  <2>1. [i \in 0 .. 0 |-> first] \in [0 .. 0 -> S] /\ Upto(0, [i \in 0 .. 0 |-> first])
    OBVIOUS
  <2> QED
    BY <2>1
<1>2. ASSUME NEW m \in Nat, m \in T
      PROVE  m + 1 \in T
  <2> SUFFICES ASSUME m + 1 <= n
               PROVE  \E f \in [0 .. m + 1 -> S] : Upto(m + 1, f)
    OBVIOUS
  <2>1. PICK f \in [0 .. m -> S] : Upto(m, f)
    BY <1>2
  <2> DEFINE last == step[<<m + 1, f[m]>>]
             g == [i \in 0 .. m + 1 |-> IF i = m + 1 THEN last ELSE f[i]]
  <2>2. last \in S
    OBVIOUS
  <2>3. g \in [0 .. m + 1 -> S]
    BY <2>2
  <2>4. g[m + 1] = last /\ \A i \in 0 .. m : g[i] = f[i]
    OBVIOUS
  <2> HIDE DEF g
  <2>5. ASSUME NEW i \in 1 .. m + 1
        PROVE  g[i] = step[<<i, g[i - 1]>>]
    <3>1. CASE i = m + 1
      BY <2>4, <3>1
    <3>2. CASE i \in 1 .. m
      BY <2>1, <2>4, <3>2
    <3> QED
      BY <3>1, <3>2
  <2>6. g[0] = first
    BY <2>1, <2>4
  <2> QED
    BY <2>3, <2>5, <2>6
<1>3. n \in T
  <2> HIDE DEF T
  <2>1. Nat \subseteq T
    BY <1>1, <1>2, Induction
  <2> QED
    BY <2>1
<1> QED
  BY <1>3 DEF Follows

(* Two loops start alike, and what is alike before a turn is alike after   *)
(* it; so they agree throughout.                                           *)
Alike(f, g, n) == f[0] = g[0] /\ \A i \in 1 .. n : f[i - 1] = g[i - 1] => f[i] = g[i]
Agree(f, g, n) == \A i \in 0 .. n : f[i] = g[i]

(* Loops that start alike and go on alike are alike. *)
LEMMA LoopSame ==
  ASSUME NEW n \in Nat, NEW one, NEW two, Alike(one, two, n)
  PROVE  Agree(one, two, n)
<1> DEFINE T == {i \in Nat : i <= n => one[i] = two[i]}
<1>1. 0 \in T
  BY DEF Alike
<1>2. ASSUME NEW i \in Nat, i \in T
      PROVE  i + 1 \in T
  <2> SUFFICES ASSUME i + 1 <= n
               PROVE  one[i + 1] = two[i + 1]
    OBVIOUS
  <2>1. i + 1 \in 1 .. n /\ i + 1 - 1 = i
    OBVIOUS
  <2>2. one[i] = two[i]
    BY <1>2
  <2> QED
    BY <2>1, <2>2 DEF Alike
<1>3. Nat \subseteq T
  <2> HIDE DEF T
  <2> QED
    BY <1>1, <1>2, Induction
<1> QED
  BY <1>3 DEF Agree

(* FlattenSeq is the loop that appends one part after the other. *)
LEMMA FlattenLoop ==
  ASSUME NEW S, NEW seqs \in Seq(Seq(S))
  PROVE  \E f \in [0 .. Len(seqs) -> Seq(S)] :
           /\ f[0] = <<>> /\ \A i \in 1 .. Len(seqs) : f[i] = f[i - 1] \o seqs[i]
           /\ FlattenSeq(seqs) = f[Len(seqs)]
<1> DEFINE n == Len(seqs)
           step == [p \in (1 .. n) \X Seq(S) |-> p[2] \o seqs[p[1]]]
<1>1. n \in Nat /\ <<>> \in Seq(S) /\ \A i \in 1 .. n : seqs[i] \in Seq(S)
  BY LenProperties, ElementOfSeq, EmptySeq
<1>2. step \in [(1 .. n) \X Seq(S) -> Seq(S)]
  <2>1. \A i \in 1 .. n, t \in Seq(S) : t \o seqs[i] \in Seq(S)
    BY <1>1, ConcatProperties
  <2> QED
    BY <2>1
<1>3. PICK f \in [0 .. n -> Seq(S)] : Follows(f, n, <<>>, step)
  <2> HIDE DEF step, n
  <2> QED
    BY <1>1, <1>2, LoopDefined
<1>4. ASSUME NEW i \in 1 .. n
      PROVE  f[i] = f[i - 1] \o seqs[i]
  <2>1. f[i - 1] \in Seq(S)
    <3>1. i - 1 \in 0 .. n
      BY <1>1
    <3> HIDE DEF n
    <3> QED
      BY <3>1
  <2>2. <<i, f[i - 1]>> \in (1 .. n) \X Seq(S)
    BY <2>1
  <2>3. step[<<i, f[i - 1]>>] = f[i - 1] \o seqs[i]
    BY <2>2
  <2>4. f[i] = step[<<i, f[i - 1]>>]
    BY <1>3 DEF Follows
  <2> HIDE DEF step
  <2> QED
    BY <2>3, <2>4, Zenon
<1>5. f[0] = <<>>
  BY <1>3 DEF Follows
<1>6. CASE n = 0
  <2>1. seqs = <<>>
    BY <1>6, EmptySeq
  <2> QED
    BY <1>4, <1>5, <1>6, <2>1 DEF FlattenSeq
<1>7. CASE n # 0
  <2> DEFINE P(h) == h = [i \in 1 .. n |-> IF i = 1 THEN seqs[i] ELSE h[i - 1] \o seqs[i]]
             b == CHOOSE h : P(h)
             g == [i \in 1 .. n |-> f[i]]
  <2>1. P(g)
    <3>1. ASSUME NEW i \in 1 .. n
          PROVE  g[i] = IF i = 1 THEN seqs[i] ELSE g[i - 1] \o seqs[i]
      <4>1. CASE i = 1
        <5>1. i - 1 = 0 /\ f[i - 1] = <<>> /\ seqs[i] \in Seq(S)
          BY <1>1, <1>5, <4>1
        <5>2. f[i] = <<>> \o seqs[i]
          BY <1>4, <5>1, Zenon
        <5>3. f[i] = seqs[i]
          BY <5>1, <5>2, ConcatEmptySeq, Zenon
        <5>4. g[i] = f[i]
          OBVIOUS
        <5> HIDE DEF g
        <5> QED
          BY <4>1, <5>3, <5>4, Zenon
      <4>2. CASE i # 1
        <5>1. i - 1 \in 1 .. n /\ g[i - 1] = f[i - 1] /\ g[i] = f[i]
          BY <1>1, <4>2
        <5> HIDE DEF g
        <5> QED
          BY <1>4, <4>2, <5>1, Zenon
      <4> QED
        BY <4>1, <4>2
    <3>2. g = [i \in 1 .. n |-> g[i]]
      OBVIOUS
    <3> HIDE DEF g, n
    <3> QED
      BY <3>1, <3>2
  <2>2. P(b)
    <3>1. \E h : P(h)
      BY <2>1, Zenon
    <3> HIDE DEF P
    <3> QED
      BY <3>1, Zenon
  <2>3. FlattenSeq(seqs) = b[n]
    BY <1>7, Zenon DEF FlattenSeq
  <2> HIDE DEF b, g
  <2>4. ASSUME NEW i \in 1 .. n
        PROVE  /\ i = 1 => b[i] = seqs[i] /\ g[i] = seqs[i]
               /\ i # 1 => b[i] = b[i - 1] \o seqs[i] /\ g[i] = g[i - 1] \o seqs[i]
    <3> HIDE DEF n
    <3>1. /\ b[i] = IF i = 1 THEN seqs[i] ELSE b[i - 1] \o seqs[i]
          /\ g[i] = IF i = 1 THEN seqs[i] ELSE g[i - 1] \o seqs[i]
      BY <2>1, <2>2
    <3>2. CASE i = 1
      BY <3>1, <3>2
    <3>3. CASE i # 1
      BY <3>1, <3>3
    <3> QED
      BY <3>2, <3>3
  <2> DEFINE T == {i \in Nat : i \in 1 .. n => b[i] = g[i]}
  <2>5. \A i \in Nat : i \in T => i + 1 \in T
    <3> SUFFICES ASSUME NEW i \in Nat, i \in T, i + 1 \in 1 .. n
                 PROVE  b[i + 1] = g[i + 1]
      OBVIOUS
    <3> DEFINE j == i + 1
    <3>1. j \in 1 .. n /\ j - 1 = i /\ (j # 1 => b[i] = g[i])
      BY <1>1
    <3> HIDE DEF j, n
    <3>2. /\ j = 1 => b[j] = seqs[j] /\ g[j] = seqs[j]
          /\ j # 1 => b[j] = b[j - 1] \o seqs[j] /\ g[j] = g[j - 1] \o seqs[j]
      BY <2>4, <3>1, Zenon
    <3>3. j = 1 => b[j] = g[j]
      BY <3>2, Zenon
    <3>4. j # 1 => b[j] = g[j]
      BY <3>1, <3>2, Zenon
    <3>5. b[j] = g[j]
      BY <3>3, <3>4, Zenon
    <3> QED
      BY <3>5 DEF j
  <2>6. n \in T
    <3>1. 0 \in T
      OBVIOUS
    <3> HIDE DEF T
    <3> QED
      BY <1>1, <2>5, <3>1, Induction
  <2>7. b[n] = f[n]
    BY <1>1, <1>7, <2>6 DEF g
  <2> QED
    BY <1>4, <1>5, <2>3, <2>7
<1> QED
  BY <1>6, <1>7

-----------------------------------------------------------------------------
(* What main's loops and the registries' compute *)

(* The nested loops of a group's items append use case after use case. *)
LEMMA ItemsAre ==
  ASSUME NEW S, NEW usecases, NEW seqs \in Seq(Seq(S)), Len(usecases) = Len(seqs),
         \A u \in 1 .. Len(seqs) : seqs[u] = ItemsOf(usecases[u])
  PROVE  Items(usecases) = FlattenSeq(seqs)
<1> DEFINE n == Len(seqs)
<1>1. n \in Nat
  BY LenProperties
<1>2. PICK f \in [0 .. n -> Seq(S)] :
        /\ f[0] = <<>> /\ \A i \in 1 .. n : f[i] = f[i - 1] \o seqs[i]
        /\ FlattenSeq(seqs) = f[n]
  BY FlattenLoop
<1> DEFINE P(h) == h = [i \in 0 .. n |-> IF i = 0 THEN <<>>
                                          ELSE h[i - 1] \o ItemsOf(usecases[i])]
           b == CHOOSE h : P(h)
<1>3. ASSUME NEW i \in 1 .. n
      PROVE  f[i] = f[i - 1] \o ItemsOf(usecases[i])
  BY <1>2, Zenon
<1>4. P(f)
  <2>1. ASSUME NEW i \in 0 .. n
        PROVE  f[i] = IF i = 0 THEN <<>> ELSE f[i - 1] \o ItemsOf(usecases[i])
    <3>1. CASE i = 0
      BY <1>2, <3>1
    <3>2. CASE i # 0
      <4>1. i \in 1 .. n
        BY <1>1, <3>2
      <4> QED
        BY <1>3, <3>2, <4>1, Zenon
    <3> QED
      BY <3>1, <3>2
  <2>2. f = [i \in 0 .. n |-> f[i]]
    BY <1>2
  <2> HIDE DEF n
  <2> QED
    BY <2>1, <2>2, Zenon
<1>5. P(b)
  <2>1. \E h : P(h)
    BY <1>4, Zenon
  <2> HIDE DEF P
  <2> QED
    BY <2>1, Zenon
<1>6. Items(usecases) = b[n]
  BY Zenon DEF Items
<1> HIDE DEF b
<1>7. b[0] = <<>> /\ \A i \in 1 .. n : b[i] = b[i - 1] \o ItemsOf(usecases[i])
  <2>1. \A i \in 0 .. n : b[i] = IF i = 0 THEN <<>> ELSE b[i - 1] \o ItemsOf(usecases[i])
    BY <1>5, Zenon
  <2>2. \A i \in 1 .. n : i \in 0 .. n /\ i # 0
    BY <1>1
  <2>3. 0 \in 0 .. n
    BY <1>1
  <2> QED
    BY <2>1, <2>2, <2>3, Zenon
<1>8. Agree(b, f, n)
  <2>1. b[0] = f[0]
    BY <1>2, <1>7
  <2>2. Alike(b, f, n)
    BY <1>3, <1>7, <2>1, Zenon DEF Alike
  <2> HIDE DEF n
  <2> QED
    BY <1>1, <2>2, LoopSame, Zenon
<1> QED
  BY <1>1, <1>2, <1>6, <1>8 DEF Agree

(* What ForCluster has picked after i groups. *)
Picks(f, i, cluster) ==
  f[i] = IF groupReg.members[groupReg.order[i]].cluster = cluster
         THEN Append(f[i - 1], groupReg.order[i]) ELSE f[i - 1]

(* ForCluster is the last state of its loop. *)
LEMMA ForClusterLoop ==
  ASSUME NEW S, groupReg.order \in Seq(S), NEW cluster
  PROVE  \E f \in [0 .. Len(groupReg.order) -> Seq(S)] :
           /\ f[0] = <<>> /\ \A i \in 1 .. Len(groupReg.order) : Picks(f, i, cluster)
           /\ ForCluster(cluster) = f[Len(groupReg.order)]
<1> DEFINE order == groupReg.order
           n == Len(order)
           B(i, x) == IF groupReg.members[order[i]].cluster = cluster
                      THEN Append(x, order[i]) ELSE x
           step == [p \in (1 .. n) \X Seq(S) |-> B(p[1], p[2])]
<1>1. n \in Nat /\ \A i \in 1 .. n : order[i] \in S
  BY LenProperties, ElementOfSeq
<1>2. step \in [(1 .. n) \X Seq(S) -> Seq(S)]
  <2>1. \A i \in 1 .. n, x \in Seq(S) : B(i, x) \in Seq(S)
    BY <1>1, AppendProperties
  <2> HIDE DEF B, n
  <2> QED
    BY <2>1
<1>3. <<>> \in Seq(S)
  BY EmptySeq
<1>4. PICK f \in [0 .. n -> Seq(S)] : Follows(f, n, <<>>, step)
  <2> HIDE DEF step, n
  <2> QED
    BY <1>1, <1>2, <1>3, LoopDefined
<1> HIDE DEF B
<1>5. f[0] = <<>> /\ \A i \in 1 .. n : f[i] = B(i, f[i - 1])
  <2>1. ASSUME NEW i \in 1 .. n
        PROVE  f[i] = B(i, f[i - 1])
    <3>1. i - 1 \in 0 .. n
      BY <1>1
    <3>2. f[i - 1] \in Seq(S)
      BY <3>1
    <3>3. step[<<i, f[i - 1]>>] = B(i, f[i - 1])
      BY <3>2
    <3> HIDE DEF step
    <3> QED
      BY <1>4, <3>3 DEF Follows
  <2> QED
    BY <1>4, <2>1 DEF Follows
<1> DEFINE P(h) == h = [i \in 0 .. n |-> IF i = 0 THEN <<>> ELSE B(i, h[i - 1])]
           b == CHOOSE h : P(h)
<1>6. P(f)
  <2>1. ASSUME NEW i \in 0 .. n
        PROVE  f[i] = IF i = 0 THEN <<>> ELSE B(i, f[i - 1])
    <3>1. i = 0 \/ i \in 1 .. n
      BY <1>1
    <3> QED
      BY <1>5, <3>1
  <2>2. f = [i \in 0 .. n |-> f[i]]
    BY <1>4
  <2> HIDE DEF n
  <2> QED
    BY <2>1, <2>2, Zenon
<1>7. P(b)
  <2>1. \E h : P(h)
    BY <1>6, Zenon
  <2> HIDE DEF P
  <2> QED
    BY <2>1, Zenon
<1>8. ForCluster(cluster) = b[n]
  BY Zenon DEF ForCluster, B
<1> HIDE DEF b
<1>9. b[0] = <<>> /\ \A i \in 1 .. n : b[i] = B(i, b[i - 1])
  <2>1. \A i \in 0 .. n : b[i] = IF i = 0 THEN <<>> ELSE B(i, b[i - 1])
    BY <1>7, Zenon
  <2>2. \A i \in 1 .. n : i \in 0 .. n /\ i # 0
    BY <1>1
  <2>3. 0 \in 0 .. n
    BY <1>1
  <2> QED
    BY <2>1, <2>2, <2>3, Zenon
<1>10. Agree(b, f, n)
  <2>1. b[0] = f[0]
    BY <1>5, <1>9
  <2>2. Alike(b, f, n)
    BY <1>5, <1>9, <2>1, Zenon DEF Alike
  <2> HIDE DEF n
  <2> QED
    BY <1>1, <2>2, LoopSame, Zenon
<1>11. ForCluster(cluster) = f[n]
  BY <1>1, <1>8, <1>10 DEF Agree
<1>12. \A i \in 1 .. n : Picks(f, i, cluster)
  BY <1>5, Zenon DEF Picks, B
<1> QED
  BY <1>5, <1>11, <1>12

(* Total is the sum it is meant to be: nothing, and then one count more at *)
(* a time.                                                                 *)
LEMMA TotalLoop ==
  ASSUME NEW U, NEW counts \in Seq([usecase : U, targets : Nat])
  PROVE  \E f \in [0 .. Len(counts) -> Nat] :
           /\ f[0] = 0 /\ \A i \in 1 .. Len(counts) : f[i] = f[i - 1] + counts[i].targets
           /\ Total(counts) = f[Len(counts)]
<1> DEFINE n == Len(counts)
           B(i, x) == x + counts[i].targets
           step == [p \in (1 .. n) \X Nat |-> B(p[1], p[2])]
<1>1. n \in Nat /\ \A i \in 1 .. n : counts[i].targets \in Nat
  <2>1. n \in Nat
    BY LenProperties
  <2>2. ASSUME NEW i \in 1 .. n
        PROVE  counts[i].targets \in Nat
    <3>1. counts[i] \in [usecase : U, targets : Nat]
      BY ElementOfSeq
    <3> QED
      BY <3>1
  <2> QED
    BY <2>1, <2>2
<1>2. step \in [(1 .. n) \X Nat -> Nat]
  <2>1. \A i \in 1 .. n, x \in Nat : B(i, x) \in Nat
    BY <1>1
  <2> HIDE DEF B, n
  <2> QED
    BY <2>1
<1>3. PICK f \in [0 .. n -> Nat] : Follows(f, n, 0, step)
  <2>1. 0 \in Nat
    OBVIOUS
  <2> HIDE DEF step, n
  <2> QED
    BY <1>1, <1>2, <2>1, LoopDefined
<1>4. f[0] = 0 /\ \A i \in 1 .. n : f[i] = B(i, f[i - 1])
  <2>1. ASSUME NEW i \in 1 .. n
        PROVE  f[i] = B(i, f[i - 1])
    <3>1. i - 1 \in 0 .. n
      BY <1>1
    <3>2. f[i - 1] \in Nat
      BY <3>1
    <3>3. step[<<i, f[i - 1]>>] = B(i, f[i - 1])
      BY <3>2
    <3> HIDE DEF step
    <3> QED
      BY <1>3, <3>3 DEF Follows
  <2> QED
    BY <1>3, <2>1 DEF Follows
<1> HIDE DEF B
<1> DEFINE P(h) == h = [i \in 0 .. n |-> IF i = 0 THEN 0 ELSE B(i, h[i - 1])]
           b == CHOOSE h : P(h)
<1>5. P(f)
  <2>1. ASSUME NEW i \in 0 .. n
        PROVE  f[i] = IF i = 0 THEN 0 ELSE B(i, f[i - 1])
    <3>1. i = 0 \/ i \in 1 .. n
      BY <1>1
    <3> QED
      BY <1>4, <3>1
  <2>2. f = [i \in 0 .. n |-> f[i]]
    BY <1>3
  <2> HIDE DEF n
  <2> QED
    BY <2>1, <2>2, Zenon
<1>6. P(b)
  <2>1. \E h : P(h)
    BY <1>5, Zenon
  <2> HIDE DEF P
  <2> QED
    BY <2>1, Zenon
<1>7. Total(counts) = b[n]
  BY Zenon DEF Total, B
<1> HIDE DEF b
<1>8. b[0] = 0 /\ \A i \in 1 .. n : b[i] = B(i, b[i - 1])
  <2>1. \A i \in 0 .. n : b[i] = IF i = 0 THEN 0 ELSE B(i, b[i - 1])
    BY <1>6, Zenon
  <2>2. \A i \in 1 .. n : i \in 0 .. n /\ i # 0
    BY <1>1
  <2>3. 0 \in 0 .. n
    BY <1>1
  <2> QED
    BY <2>1, <2>2, <2>3, Zenon
<1>9. Agree(b, f, n)
  <2>1. b[0] = f[0]
    BY <1>4, <1>8
  <2>2. Alike(b, f, n)
    BY <1>4, <1>8, <2>1, Zenon DEF Alike
  <2> HIDE DEF n
  <2> QED
    BY <1>1, <2>2, LoopSame, Zenon
<1>10. Total(counts) = f[n]
  BY <1>1, <1>7, <1>9 DEF Agree
<1> QED
  BY <1>4, <1>10 DEF B

(* One count more, and the sum is greater by it. *)
LEMMA TotalOfAppend ==
  ASSUME NEW U, NEW counts \in Seq([usecase : U, targets : Nat]),
         NEW c \in [usecase : U, targets : Nat]
  PROVE  Total(Append(counts, c)) = Total(counts) + c.targets
<1> DEFINE n == Len(counts)
           more == Append(counts, c)
<1>1. /\ n \in Nat /\ more \in Seq([usecase : U, targets : Nat]) /\ Len(more) = n + 1
      /\ more[n + 1] = c /\ \A i \in 1 .. n : more[i] = counts[i]
  BY LenProperties, AppendProperties
<1>2. PICK f \in [0 .. n -> Nat] :
        /\ f[0] = 0 /\ \A i \in 1 .. n : f[i] = f[i - 1] + counts[i].targets
        /\ Total(counts) = f[n]
  BY TotalLoop
<1> HIDE DEF more
<1>3. PICK g \in [0 .. Len(more) -> Nat] :
        /\ g[0] = 0 /\ \A i \in 1 .. Len(more) : g[i] = g[i - 1] + more[i].targets
        /\ Total(more) = g[Len(more)]
  BY <1>1, TotalLoop
<1>4. Agree(g, f, n)
  <2>1. ASSUME NEW i \in 1 .. n, g[i - 1] = f[i - 1]
        PROVE  g[i] = f[i]
    <3>1. i \in 1 .. Len(more) /\ more[i] = counts[i]
      BY <1>1
    <3>2. g[i] = g[i - 1] + more[i].targets /\ f[i] = f[i - 1] + counts[i].targets
      BY <1>2, <1>3, <3>1
    <3> QED
      BY <2>1, <3>1, <3>2
  <2>2. g[0] = f[0]
    BY <1>2, <1>3
  <2>3. Alike(g, f, n)
    BY <2>1, <2>2 DEF Alike
  <2>4. n \in Nat
    BY <1>1
  <2> QED
    BY <2>3, <2>4, LoopSame, Zenon
<1>5. g[n + 1] = g[n] + c.targets
  <2>1. n + 1 \in 1 .. Len(more) /\ n + 1 - 1 = n
    BY <1>1
  <2>2. g[n + 1] = g[n + 1 - 1] + more[n + 1].targets
    BY <1>3, <2>1
  <2> QED
    BY <1>1, <2>1, <2>2
<1> QED
  BY <1>1, <1>2, <1>3, <1>4, <1>5 DEF more, Agree

(* One count is greater by one, and so is the sum. *)
LEMMA TotalOfOneMore ==
  ASSUME NEW U, NEW c \in Seq([usecase : U, targets : Nat]),
         NEW d \in Seq([usecase : U, targets : Nat]), Len(d) = Len(c),
         NEW j \in 1 .. Len(c), d[j].targets = c[j].targets + 1,
         \A i \in 1 .. Len(c) : i # j => d[i] = c[i]
  PROVE  Total(d) = Total(c) + 1
<1> DEFINE n == Len(c)
<1>1. n \in Nat /\ \A i \in 1 .. n : c[i].targets \in Nat /\ d[i].targets \in Nat
  <2>1. n \in Nat
    BY LenProperties
  <2>2. ASSUME NEW i \in 1 .. n
        PROVE  c[i].targets \in Nat /\ d[i].targets \in Nat
    <3>1. c[i] \in [usecase : U, targets : Nat] /\ d[i] \in [usecase : U, targets : Nat]
      BY ElementOfSeq
    <3> QED
      BY <3>1
  <2> QED
    BY <2>1, <2>2
<1>2. PICK f \in [0 .. n -> Nat] :
        /\ f[0] = 0 /\ \A i \in 1 .. n : f[i] = f[i - 1] + c[i].targets
        /\ Total(c) = f[n]
  BY TotalLoop
<1>3. PICK g \in [0 .. n -> Nat] :
        /\ g[0] = 0 /\ \A i \in 1 .. n : g[i] = g[i - 1] + d[i].targets
        /\ Total(d) = g[n]
  BY TotalLoop
<1> DEFINE h == [i \in 0 .. n |-> IF i < j THEN f[i] ELSE f[i] + 1]
<1>4. Agree(g, h, n)
  <2>1. ASSUME NEW i \in 1 .. n, g[i - 1] = h[i - 1]
        PROVE  g[i] = h[i]
    <3>1. i \in 0 .. n /\ i - 1 \in 0 .. n /\ i \in Int /\ j \in Int
      BY <1>1
    <3>2. /\ h[i] = IF i < j THEN f[i] ELSE f[i] + 1
          /\ h[i - 1] = IF i - 1 < j THEN f[i - 1] ELSE f[i - 1] + 1
      BY <3>1
    <3>3. g[i] = g[i - 1] + d[i].targets /\ f[i] = f[i - 1] + c[i].targets
      BY <1>2, <1>3
    <3>4. f[i - 1] \in Nat /\ f[i] \in Nat /\ c[i].targets \in Nat /\ d[i].targets \in Nat
      BY <1>1, <3>1
    <3> HIDE DEF h
    <3> DEFINE x == f[i - 1]
               y == c[i].targets
    <3>5. /\ x \in Nat /\ y \in Nat /\ f[i] = x + y
          /\ x + (y + 1) = x + y + 1 /\ x + 1 + y = x + y + 1
      <4>1. x \in Nat /\ y \in Nat
        BY <3>4
      <4>2. f[i] = x + y
        BY <3>3
      <4> HIDE DEF x, y
      <4> QED
        BY <4>1, <4>2
    <3>6. CASE i = j
      <4>1. d[i].targets = c[i].targets + 1
        BY <3>6
      <4>2. h[i] = f[i] + 1 /\ h[i - 1] = x
        BY <3>1, <3>2, <3>6
      <4>3. g[i] = x + (y + 1)
        BY <2>1, <3>3, <4>1, <4>2
      <4> HIDE DEF x, y
      <4> QED
        BY <3>5, <4>2, <4>3
    <3>7. CASE i # j
      <4>1. d[i].targets = c[i].targets
        BY <3>7
      <4>2. i < j <=> i - 1 < j
        BY <3>1, <3>7
      <4>3. CASE i < j
        BY <2>1, <3>2, <3>3, <4>1, <4>2, <4>3
      <4>4. CASE ~(i < j)
        <5>1. h[i] = f[i] + 1 /\ g[i] = x + 1 + y
          BY <2>1, <3>2, <3>3, <4>1, <4>2, <4>4
        <5> HIDE DEF x, y
        <5> QED
          BY <3>5, <5>1
      <4> QED
        BY <4>3, <4>4
    <3> QED
      BY <3>6, <3>7
  <2> HIDE DEF h
  <2>2. g[0] = h[0]
    BY <1>1, <1>2, <1>3 DEF h
  <2>3. Alike(g, h, n)
    BY <2>1, <2>2 DEF Alike
  <2>4. n \in Nat
    BY <1>1
  <2> QED
    BY <2>3, <2>4, LoopSame, Zenon
<1> QED
  BY <1>1, <1>2, <1>3, <1>4 DEF Agree

(* The counts have a use case each. *)
Unique(counts) ==
  \A i, j \in 1 .. Len(counts) : counts[i].usecase = counts[j].usecase => i = j

(* One turn of UseCaseCounts counts one target, under one name. *)
LEMMA CountOneCounts ==
  ASSUME NEW U, NEW u \in U, NEW counts \in Seq([usecase : U, targets : Nat]),
         Unique(counts)
  PROVE  /\ CountOne(counts, u) \in Seq([usecase : U, targets : Nat])
         /\ Unique(CountOne(counts, u))
         /\ Total(CountOne(counts, u)) = Total(counts) + 1
<1> DEFINE n == Len(counts)
           d == CountOne(counts, u)
<1>1. n \in Nat /\ DOMAIN counts = 1 .. n
  BY LenProperties
<1>2. \A i \in 1 .. n : counts[i] \in [usecase : U, targets : Nat]
  BY ElementOfSeq
<1>3. CASE \E j \in 1 .. n : counts[j].usecase = u
  <2>1. PICK j \in 1 .. n : counts[j].usecase = u
    BY <1>3
  <2>2. d = [i \in 1 .. n |-> IF counts[i].usecase = u
                               THEN [usecase |-> u, targets |-> counts[i].targets + 1]
                               ELSE counts[i]]
    BY <1>1, <1>3 DEF CountOne
  <2>3. ASSUME NEW i \in 1 .. n
        PROVE  /\ counts[i].usecase = u =>
                    d[i] = [usecase |-> u, targets |-> counts[i].targets + 1]
               /\ counts[i].usecase # u => d[i] = counts[i]
    BY <2>2
  <2> HIDE DEF d
  <2>4. ASSUME NEW i \in 1 .. n
        PROVE  d[i] \in [usecase : U, targets : Nat] /\ d[i].usecase = counts[i].usecase
    <3>1. counts[i] \in [usecase : U, targets : Nat]
      BY <1>2
    <3>2. CASE counts[i].usecase = u
      <4> DEFINE t == counts[i].targets + 1
      <4>1. t \in Nat
        BY <3>1
      <4>2. d[i] = [usecase |-> u, targets |-> t]
        BY <2>3, <3>2
      <4> HIDE DEF t
      <4> QED
        BY <3>2, <4>1, <4>2
    <3>3. CASE counts[i].usecase # u
      BY <2>3, <3>1, <3>3
    <3> QED
      BY <3>2, <3>3
  <2>5. d \in Seq([usecase : U, targets : Nat]) /\ Len(d) = n
    <3>1. d = [i \in 1 .. n |-> d[i]]
      BY <2>2, Zenon
    <3>2. d \in [1 .. n -> [usecase : U, targets : Nat]]
      BY <2>4, <3>1
    <3>3. d \in Seq([usecase : U, targets : Nat])
      <4> DEFINE R == [usecase : U, targets : Nat]
      <4>1. d \in [1 .. n -> R]
        BY <3>2
      <4> HIDE DEF R
      <4>2. d \in Seq(R)
        BY <1>1, <4>1, SeqDef
      <4> QED
        BY <4>2 DEF R
    <3> QED
      BY <1>1, <3>2, <3>3, LenProperties
  <2>7. Unique(d)
    BY <2>4, <2>5 DEF Unique
  <2>8. \A i \in 1 .. n : i # j => counts[i].usecase # u
    BY <2>1 DEF Unique
  <2>9. d[j].targets = counts[j].targets + 1 /\ \A i \in 1 .. n : i # j => d[i] = counts[i]
    <3>1. d[j] = [usecase |-> u, targets |-> counts[j].targets + 1]
      BY <2>1, <2>3
    <3>2. \A i \in 1 .. n : i # j => d[i] = counts[i]
      BY <2>3, <2>8
    <3> QED
      BY <3>1, <3>2
  <2>10. Total(d) = Total(counts) + 1
    BY <2>5, <2>9, TotalOfOneMore
  <2> QED
    BY <2>5, <2>7, <2>10 DEF d
<1>4. CASE ~ \E j \in 1 .. n : counts[j].usecase = u
  <2> DEFINE c == [usecase |-> u, targets |-> 1]
  <2>1. d = Append(counts, c)
    BY <1>1, <1>4 DEF CountOne
  <2>2. c \in [usecase : U, targets : Nat] /\ c.usecase = u /\ c.targets = 1
    OBVIOUS
  <2> HIDE DEF d, c
  <2>3. /\ d \in Seq([usecase : U, targets : Nat]) /\ Len(d) = n + 1
        /\ d[n + 1] = c /\ \A i \in 1 .. n : d[i] = counts[i]
    BY <2>1, <2>2, AppendProperties
  <2>4. Unique(d)
    <3> SUFFICES ASSUME NEW i \in 1 .. n + 1, NEW j \in 1 .. n + 1,
                        d[i].usecase = d[j].usecase
                 PROVE  i = j
      BY <2>3 DEF Unique
    <3>1. i \in 1 .. n \/ i = n + 1
      BY <1>1
    <3>2. j \in 1 .. n \/ j = n + 1
      BY <1>1
    <3> QED
      BY <1>4, <2>2, <2>3, <3>1, <3>2 DEF Unique
  <2>5. Total(d) = Total(counts) + 1
    BY <2>1, <2>2, TotalOfAppend
  <2> QED
    BY <2>3, <2>4, <2>5 DEF d
<1> QED
  BY <1>3, <1>4

(* The counts name each use case once, and add up to the items. *)
LEMMA CountsAddUp ==
  ASSUME NEW U, NEW V, NEW items \in Seq([usecase : U, inputs : V])
  PROVE  /\ UseCaseCounts(items) \in Seq([usecase : U, targets : Nat])
         /\ Unique(UseCaseCounts(items)) /\ Total(UseCaseCounts(items)) = Len(items)
<1> DEFINE n == Len(items)
           S == {c \in Seq([usecase : U, targets : Nat]) : Unique(c)}
           B(i, x) == CountOne(x, items[i].usecase)
           step == [p \in (1 .. n) \X S |-> B(p[1], p[2])]
<1>1. n \in Nat
  BY LenProperties
<1>2. ASSUME NEW i \in 1 .. n, NEW x \in S
      PROVE  B(i, x) \in S /\ Total(B(i, x)) = Total(x) + 1
  <2>1. items[i] \in [usecase : U, inputs : V]
    BY ElementOfSeq
  <2>2. items[i].usecase \in U
    BY <2>1
  <2> QED
    BY <2>2, CountOneCounts
<1>3. <<>> \in S /\ Total(<<>>) = 0
  <2>1. <<>> \in Seq([usecase : U, targets : Nat]) /\ Len(<<>>) = 0
    BY EmptySeq
  <2>2. PICK f \in [0 .. Len(<<>>) -> Nat] : f[0] = 0 /\ Total(<<>>) = f[Len(<<>>)]
    BY <2>1, TotalLoop
  <2> QED
    BY <2>1, <2>2 DEF Unique
<1> HIDE DEF B, S
<1>4. step \in [(1 .. n) \X S -> S]
  <2> HIDE DEF n
  <2> QED
    BY <1>2
<1>5. PICK f \in [0 .. n -> S] : Follows(f, n, <<>>, step)
  <2> HIDE DEF step, n
  <2> QED
    BY <1>1, <1>3, <1>4, LoopDefined
<1>6. ASSUME NEW i \in 1 .. n
      PROVE  f[i] = B(i, f[i - 1]) /\ f[i - 1] \in S
  <2>1. i - 1 \in 0 .. n
    BY <1>1
  <2> HIDE DEF n
  <2>2. f[i - 1] \in S
    BY <2>1
  <2>3. step[<<i, f[i - 1]>>] = B(i, f[i - 1])
    BY <2>2
  <2> HIDE DEF step
  <2> QED
    BY <1>5, <2>2, <2>3 DEF Follows
<1>7. f[0] = <<>>
  BY <1>5 DEF Follows
<1> DEFINE P(h) == h = [i \in 0 .. n |-> IF i = 0 THEN <<>> ELSE B(i, h[i - 1])]
           b == CHOOSE h : P(h)
<1>8. P(f)
  <2>1. ASSUME NEW i \in 0 .. n
        PROVE  f[i] = IF i = 0 THEN <<>> ELSE B(i, f[i - 1])
    <3>1. i = 0 \/ i \in 1 .. n
      BY <1>1
    <3> QED
      BY <1>6, <1>7, <3>1
  <2>2. f = [i \in 0 .. n |-> f[i]]
    BY <1>5
  <2> HIDE DEF n
  <2> QED
    BY <2>1, <2>2, Zenon
<1>9. P(b)
  <2>1. \E h : P(h)
    BY <1>8, Zenon
  <2> HIDE DEF P
  <2> QED
    BY <2>1, Zenon
<1>10. UseCaseCounts(items) = b[n]
  BY Zenon DEF UseCaseCounts, B
<1> HIDE DEF b
<1>11. b[0] = <<>> /\ \A i \in 1 .. n : b[i] = B(i, b[i - 1])
  <2>1. \A i \in 0 .. n : b[i] = IF i = 0 THEN <<>> ELSE B(i, b[i - 1])
    BY <1>9, Zenon
  <2>2. \A i \in 1 .. n : i \in 0 .. n /\ i # 0
    BY <1>1
  <2>3. 0 \in 0 .. n
    BY <1>1
  <2> QED
    BY <2>1, <2>2, <2>3, Zenon
<1>12. Agree(b, f, n)
  <2>1. b[0] = f[0]
    BY <1>7, <1>11
  <2>2. Alike(b, f, n)
    BY <1>6, <1>11, <2>1, Zenon DEF Alike
  <2> HIDE DEF n
  <2> QED
    BY <1>1, <2>2, LoopSame, Zenon
<1>13. UseCaseCounts(items) = f[n] /\ f[n] \in S
  BY <1>1, <1>10, <1>12 DEF Agree
<1> DEFINE sums == [i \in 0 .. n |-> Total(f[i])]
           turns == [i \in 0 .. n |-> i]
<1>14. Agree(sums, turns, n)
  <2>1. ASSUME NEW i \in 1 .. n, sums[i - 1] = turns[i - 1]
        PROVE  sums[i] = turns[i]
    <3>1. i \in 0 .. n /\ i - 1 \in 0 .. n /\ i \in Nat
      BY <1>1
    <3>2. Total(f[i - 1]) = i - 1
      BY <2>1, <3>1
    <3>3. Total(f[i]) = Total(f[i - 1]) + 1
      BY <1>2, <1>6
    <3>4. Total(f[i]) = i
      BY <3>1, <3>2, <3>3
    <3> QED
      BY <3>1, <3>4
  <2>2. sums[0] = turns[0]
    BY <1>1, <1>3, <1>7
  <2> HIDE DEF sums, turns
  <2>3. Alike(sums, turns, n)
    BY <2>1, <2>2, Zenon DEF Alike
  <2> HIDE DEF n
  <2> QED
    BY <1>1, <2>3, LoopSame, Zenon
<1>15. Total(f[n]) = n
  BY <1>1, <1>14 DEF Agree
<1> QED
  BY <1>13, <1>15 DEF S

(* The groups of a cluster, by their places in the registry. *)
InCluster(cluster) ==
  {j \in 1 .. Len(groupReg.order) : groupReg.members[groupReg.order[j]].cluster = cluster}

(* A picker lists the groups of its cluster, each once. *)
LEMMA ForClusterPicks ==
  ASSUME NEW S, groupReg.order \in Seq(S), NEW cluster
  PROVE  /\ ForCluster(cluster) \in Seq(S)
         /\ Len(ForCluster(cluster)) = Cardinality(InCluster(cluster))
         /\ \A j \in InCluster(cluster) : groupReg.order[j] \in ToSet(ForCluster(cluster))
<1> DEFINE order == groupReg.order
           n == Len(order)
           In(i) == {j \in 1 .. i : groupReg.members[order[j]].cluster = cluster}
<1>1. n \in Nat /\ \A i \in 1 .. n : order[i] \in S
  BY LenProperties, ElementOfSeq
<1>2. PICK f \in [0 .. n -> Seq(S)] :
        /\ f[0] = <<>> /\ \A i \in 1 .. n : Picks(f, i, cluster)
        /\ ForCluster(cluster) = f[n]
  BY ForClusterLoop
<1> DEFINE Holds(i) ==
             /\ IsFiniteSet(In(i)) /\ Len(f[i]) = Cardinality(In(i))
             /\ \A j \in In(i) : order[j] \in ToSet(f[i])
           T == {i \in Nat : i <= n => Holds(i)}
<1>3. 0 \in T
  <2>1. In(0) = {}
    OBVIOUS
  <2> HIDE DEF In
  <2>2. Holds(0)
    BY <1>2, <2>1, EmptySeq, FS_EmptySet
  <2> QED
    BY <2>2
<1>4. ASSUME NEW m \in Nat, m \in T
      PROVE  m + 1 \in T
  <2> SUFFICES ASSUME m + 1 <= n
               PROVE  Holds(m + 1)
    OBVIOUS
  <2> DEFINE i == m + 1
             g == order[i]
  <2>1. i \in 1 .. n /\ i - 1 = m /\ m \in 0 .. n /\ i \in 0 .. n /\ Holds(m)
    BY <1>1, <1>4
  <2>2. f[m] \in Seq(S) /\ g \in S
    <3> HIDE DEF n, i
    <3> QED
      BY <1>1, <2>1
  <2>3. CASE groupReg.members[g].cluster = cluster
    <3>1. In(i) = In(m) \cup {i} /\ i \notin In(m)
      BY <2>3
    <3>2. f[i] = Append(f[m], g)
      BY <1>2, <2>1, <2>3 DEF Picks
    <3> HIDE DEF In, i, g, order, n
    <3>3. IsFiniteSet(In(i)) /\ Cardinality(In(i)) = Cardinality(In(m)) + 1
      <4>1. IsFiniteSet(In(m))
        BY <2>1
      <4> QED
        BY <3>1, <4>1, FS_AddElement
    <3>4. Len(f[i]) = Cardinality(In(i))
      BY <2>1, <2>2, <3>2, <3>3, AppendProperties
    <3>5. ToSet(f[i]) = ToSet(f[m]) \cup {g}
      <4>1. /\ f[i] \in Seq(S) /\ Len(f[i]) = Len(f[m]) + 1 /\ Len(f[m]) \in Nat
            /\ \A j \in 1 .. Len(f[m]) : f[i][j] = f[m][j]
            /\ f[i][Len(f[m]) + 1] = g
        BY <2>2, <3>2, AppendProperties, LenProperties
      <4>2. DOMAIN f[i] = 1 .. Len(f[m]) + 1 /\ DOMAIN f[m] = 1 .. Len(f[m])
        BY <2>2, <4>1, LenProperties
      <4> DEFINE l == Len(f[m])
      <4>3. 1 .. l + 1 = (1 .. l) \cup {l + 1} /\ l \in Nat
        BY <4>1
      <4>4. ToSet(f[i]) = {f[i][j] : j \in 1 .. l + 1}
        BY <4>2 DEF ToSet
      <4>5. ToSet(f[m]) = {f[m][j] : j \in 1 .. l}
        BY <4>2 DEF ToSet
      <4>6. {f[i][j] : j \in 1 .. l} = {f[m][j] : j \in 1 .. l}
        BY <4>1
      <4>7. f[i][l + 1] = g
        BY <4>1
      <4> HIDE DEF l
      <4> QED
        BY <4>3, <4>4, <4>5, <4>6, <4>7
    <3>6. \A j \in In(i) : order[j] \in ToSet(f[i])
      BY <2>1, <3>1, <3>5 DEF g
    <3> QED
      BY <3>3, <3>4, <3>6 DEF i
  <2>4. CASE groupReg.members[g].cluster # cluster
    <3>1. In(i) = In(m)
      BY <2>4
    <3>2. f[i] = f[m]
      BY <1>2, <2>1, <2>4 DEF Picks
    <3> HIDE DEF In, n
    <3> QED
      BY <2>1, <3>1, <3>2
  <2> QED
    BY <2>3, <2>4
<1>5. n \in T
  <2> HIDE DEF T
  <2>1. Nat \subseteq T
    BY <1>3, <1>4, Induction
  <2> QED
    BY <1>1, <2>1
<1>6. Holds(n) /\ f[n] \in Seq(S)
  <2>1. n \in 0 .. n /\ n <= n
    BY <1>1
  <2> HIDE DEF n, Holds
  <2> QED
    BY <1>5, <2>1
<1>7. In(n) = InCluster(cluster)
  BY DEF InCluster
<1> QED
  BY <1>2, <1>6, <1>7

(* The pickers share the groups out: every group is in the picker of its   *)
(* cluster and in no other.                                                *)
LEMMA PickersPartition ==
  ASSUME NEW S, groupReg.order \in Seq(S), NEW names, NEW seqs \in Seq(Seq(S)),
         \A i \in 1 .. Len(seqs) : seqs[i] = ForCluster(names[i]),
         \A i, j \in 1 .. Len(seqs) : names[i] = names[j] => i = j,
         \A j \in 1 .. Len(groupReg.order) :
           \E i \in 1 .. Len(seqs) : groupReg.members[groupReg.order[j]].cluster = names[i]
  PROVE  Len(FlattenSeq(seqs)) = Len(groupReg.order)
<1> DEFINE n == Len(seqs)
           all == 1 .. Len(groupReg.order)
           in(j) == groupReg.members[groupReg.order[j]].cluster
           In(i) == {j \in all : \E m \in 1 .. i : in(j) = names[m]}
<1>1. n \in Nat /\ Len(groupReg.order) \in Nat
  BY LenProperties
<1>2. PICK f \in [0 .. n -> Seq(S)] :
        /\ f[0] = <<>> /\ \A i \in 1 .. n : f[i] = f[i - 1] \o seqs[i]
        /\ FlattenSeq(seqs) = f[n]
  BY FlattenLoop
<1>3. IsFiniteSet(all) /\ Cardinality(all) = Len(groupReg.order)
  <2> DEFINE l == Len(groupReg.order)
  <2>1. l \in Nat /\ l - 1 + 1 = l /\ 1 \in Int /\ l \in Int
    BY <1>1
  <2> HIDE DEF l
  <2>2. IsFiniteSet(1 .. l) /\ Cardinality(1 .. l) = IF 1 > l THEN 0 ELSE l - 1 + 1
    BY <2>1, FS_Interval
  <2>3. Cardinality(1 .. l) = l
    BY <2>1, <2>2
  <2> QED
    BY <2>2, <2>3 DEF l
<1> DEFINE Holds(i) == Len(f[i]) = Cardinality(In(i))
           T == {i \in Nat : i <= n => Holds(i)}
<1>4. \A i \in Nat : IsFiniteSet(In(i))
  BY <1>3, FS_Subset
<1>5. \A c : IsFiniteSet(InCluster(c)) /\ InCluster(c) = {j \in all : in(j) = c}
  BY <1>3, FS_Subset DEF InCluster
<1>6. 0 \in T
  <2>1. In(0) = {}
    OBVIOUS
  <2> HIDE DEF In
  <2>2. Holds(0)
    BY <1>2, <2>1, EmptySeq, FS_EmptySet
  <2> QED
    BY <2>2
<1>7. ASSUME NEW m \in Nat, m \in T
      PROVE  m + 1 \in T
  <2> SUFFICES ASSUME m + 1 <= n
               PROVE  Holds(m + 1)
    OBVIOUS
  <2> DEFINE i == m + 1
             c == names[i]
  <2>1. i \in 1 .. n /\ i - 1 = m /\ m \in 0 .. n /\ Holds(m)
    BY <1>1, <1>7
  <2>2. f[m] \in Seq(S) /\ seqs[i] = ForCluster(c) /\ f[i] = f[m] \o seqs[i]
    <3>1. f[i] = f[i - 1] \o seqs[i]
      BY <1>2, <2>1, Zenon
    <3>2. f[m] \in Seq(S)
      <4> HIDE DEF n
      <4> QED
        BY <2>1
    <3>3. seqs[i] = ForCluster(c)
      BY <2>1
    <3> HIDE DEF i, c
    <3> QED
      BY <2>1, <3>1, <3>2, <3>3
  <2>3. /\ seqs[i] \in Seq(S) /\ Len(seqs[i]) = Cardinality(InCluster(c))
    <3>1. ForCluster(c) \in Seq(S) /\ Len(ForCluster(c)) = Cardinality(InCluster(c))
      BY ForClusterPicks
    <3> QED
      BY <2>2, <3>1
  <2>4. In(i) = In(m) \cup InCluster(c) /\ In(m) \cap InCluster(c) = {}
    <3>1. 1 .. i = (1 .. m) \cup {i}
      OBVIOUS
    <3>2. \A l \in 1 .. m : names[l] # c
      <4>1. ASSUME NEW l \in 1 .. m, names[l] = names[i]
            PROVE  FALSE
        <5>1. l \in 1 .. Len(seqs) /\ i \in 1 .. Len(seqs) /\ l # i
          BY <1>1, <2>1
        <5> QED
          BY <4>1, <5>1
      <4> QED
        BY <4>1
    <3> HIDE DEF i, in, all
    <3> QED
      BY <1>5, <3>1, <3>2 DEF c
  <2>5. Cardinality(In(i)) = Cardinality(In(m)) + Cardinality(InCluster(c))
    <3>1. IsFiniteSet(In(m)) /\ IsFiniteSet(InCluster(c))
      BY <1>4, <1>5
    <3> HIDE DEF In, i, c
    <3>2. Cardinality(In(i)) =
            Cardinality(In(m)) + Cardinality(InCluster(c)) - Cardinality({})
      BY <2>4, <3>1, FS_Union
    <3>3. Cardinality(In(m)) \in Nat /\ Cardinality(InCluster(c)) \in Nat
      BY <3>1, FS_CardinalityType
    <3> QED
      BY <3>2, <3>3, FS_EmptySet
  <2>6. Len(f[i]) = Len(f[m]) + Len(seqs[i])
    <3> DEFINE x == f[m]
               y == seqs[i]
    <3>1. f[i] = x \o y /\ x \in Seq(S) /\ y \in Seq(S)
      BY <2>2, <2>3
    <3> HIDE DEF x, y
    <3>2. Len(x \o y) = Len(x) + Len(y)
      BY <3>1, ConcatProperties
    <3>3. Len(f[i]) = Len(x) + Len(y)
      BY <3>1, <3>2
    <3> QED
      BY <3>3 DEF x, y
  <2> HIDE DEF In
  <2> QED
    BY <2>1, <2>3, <2>5, <2>6
<1>8. n \in T
  <2> HIDE DEF T
  <2>1. Nat \subseteq T
    BY <1>6, <1>7, Induction
  <2> QED
    BY <1>1, <2>1
<1>9. In(n) = all
  OBVIOUS
<1> HIDE DEF In, all
<1> QED
  BY <1>1, <1>2, <1>3, <1>8, <1>9

-----------------------------------------------------------------------------
(* The registries hold what Load returned, in its order *)

Trimmed == {trim[r] : r \in Raw}

(* What main registers for a group. *)
Offer(g) ==
  [cluster |-> Loaded(g).cluster, concurrency |-> Loaded(g).concurrency,
   items |-> Items(Loaded(g).usecases)]

ClustersOffered(n) ==
  /\ registry.order \in Seq(Trimmed) /\ Len(registry.order) = n
  /\ \A j \in 1 .. n : registry.order[j] = trim[clusters[j].name]

GroupsOffered(n) ==
  /\ groupReg.order \in Seq(Trimmed) /\ Len(groupReg.order) = n
  /\ DOMAIN groupReg.members = {trim[groups[j].name] : j \in 1 .. n}
  /\ \A j \in 1 .. n :
       /\ groupReg.order[j] = trim[groups[j].name]
       /\ groupReg.members[trim[groups[j].name]] = Offer(groups[j])

GroupsLoaded(n) == \A j \in 1 .. n : cfg.groups[j] = Loaded(groups[j])

AfterRegister == InMain \ {"register"}

AsLoaded ==
  /\ pc = "groups" => GroupsLoaded(k - 1)
  /\ pc \in InMain => GroupsLoaded(Len(groups))

NothingYet ==
  /\ pc \in {"clusters", "groups"} => registry.order = <<>>
  /\ pc \in {"clusters", "groups", "register"} => groupReg = NoRegistry

InOrder ==
  /\ pc = "register" => ClustersOffered(k - 1)
  /\ pc \in AfterRegister => ClustersOffered(Len(clusters))

Offered ==
  /\ pc = "group" => GroupsOffered(k - 1)
  /\ Serving => GroupsOffered(Len(groups))

RegInv == registry = gateway /\ AsLoaded /\ NothingYet /\ InOrder /\ Offered

(* Fatal and the turns of Load before main change no registry. *)
LEMMA FatalOffers ==
  ASSUME RegInv, Fatal
  PROVE  RegInv'
BY DEF Fatal, RegInv, AsLoaded, NothingYet, InOrder, Offered, InMain, AfterRegister, Serving

(* Load registers nothing; what it makes of a group is the group, trimmed. *)
LEMMA LoadOffers ==
  ASSUME IInv, RegInv, LoadCluster \/ OpenGroups \/ LoadGroup
  PROVE  RegInv'
<1>1. CASE LoadCluster
  <2>1. CASE Fatal
    BY <2>1, FatalOffers
  <2>2. CASE ~Fatal
    <3>1. pc = "clusters" /\ pc' = pc /\ UNCHANGED <<registry, gateway, groupReg>>
      BY <1>1, <2>2 DEF LoadCluster, NextTurn
    <3> QED
      BY <3>1 DEF RegInv, AsLoaded, NothingYet, InOrder, Offered, InMain, AfterRegister, Serving
  <2> QED
    BY <2>1, <2>2
<1>2. CASE OpenGroups
  <2>1. CASE Fatal
    BY <2>1, FatalOffers
  <2>2. CASE ~Fatal
    <3>1. /\ pc = "clusters" /\ pc' = "groups" /\ k' = 1
          /\ UNCHANGED <<registry, gateway, groupReg>>
      BY <1>2, <2>2 DEF OpenGroups, Goto
    <3>2. GroupsLoaded(k - 1)'
      BY <3>1 DEF GroupsLoaded
    <3> QED
      BY <3>1, <3>2
      DEF RegInv, AsLoaded, NothingYet, InOrder, Offered, InMain, AfterRegister, Serving
  <2> QED
    BY <2>1, <2>2
<1>3. CASE LoadGroup
  <2>1. CASE Fatal
    BY <2>1, FatalOffers
  <2>2. CASE ~Fatal
    <3>1. /\ pc = "groups" /\ pc' = pc /\ k' = k + 1 /\ k \in 1 .. Len(groups)
          /\ cfg' = [cfg EXCEPT !.groups = Append(cfg.groups, Loaded(groups[k]))]
          /\ UNCHANGED <<groups, registry, gateway, groupReg>>
      BY <1>3, <2>2, LenProperties DEF LoadGroup, NextTurn, IInv, Typed
    <3>2. /\ cfg.groups \in Seq(LoadedGroup) /\ Len(cfg.groups) = k - 1
          /\ GroupsLoaded(k - 1) /\ k \in Nat
          /\ cfg'.groups = Append(cfg.groups, Loaded(groups[k]))
      BY <3>1 DEF IInv, Typed, AtGroups, GroupsDone, RegInv, AsLoaded
    <3>3. Loaded(groups[k]) \in LoadedGroup
      <4>1. groups[k] \in RawGroup
        BY <3>1, ElementOfSeq DEF IInv, Typed
      <4> QED
        BY <4>1 DEF LoadedGroup
    <3>4. /\ cfg'.groups[k] = Loaded(groups[k])
          /\ \A j \in 1 .. k - 1 : cfg'.groups[j] = cfg.groups[j]
      BY <3>2, <3>3, AppendProperties
    <3>5. \A j \in 1 .. k : j = k \/ j \in 1 .. k - 1
      BY <3>2
    <3>6. \A j \in 1 .. k : cfg'.groups[j] = Loaded(groups[j])
      BY <3>2, <3>4, <3>5 DEF GroupsLoaded
    <3>7. k' - 1 = k
      BY <3>1, <3>2
    <3>8. GroupsLoaded(k - 1)'
      BY <3>1, <3>6, <3>7 DEF GroupsLoaded, Loaded
    <3> QED
      BY <3>1, <3>8
      DEF RegInv, AsLoaded, NothingYet, InOrder, Offered, InMain, AfterRegister, Serving
  <2> QED
    BY <2>1, <2>2
<1> QED
  BY <1>1, <1>2, <1>3

(* The groups are all loaded when main begins. *)
LEMMA ReadEnvOffers ==
  ASSUME IInv, RegInv, ReadEnv
  PROVE  RegInv'
<1>1. /\ pc = "groups" /\ pc' \in {"register", "fatal"} /\ k' = 1 /\ k > Len(groups)
      /\ UNCHANGED <<clusters, groups, cfg, registry, gateway, groupReg>>
  BY DEF ReadEnv, Goto
<1>2. GroupsLoaded(k - 1) /\ k - 1 = Len(groups)
  <2>1. k \in Nat /\ Len(groups) \in Nat /\ k <= Len(groups) + 1
    BY <1>1, LenProperties DEF IInv, Typed, AtGroups
  <2> QED
    BY <1>1, <2>1 DEF RegInv, AsLoaded
<1>3. GroupsLoaded(Len(groups))'
  BY <1>1, <1>2 DEF GroupsLoaded, Loaded
<1>4. ClustersOffered(k - 1)'
  <2>1. registry'.order = <<>> /\ k' - 1 = 0
    BY <1>1 DEF RegInv, NothingYet
  <2> QED
    BY <2>1, EmptySeq DEF ClustersOffered
<1> QED
  BY <1>1, <1>3, <1>4
  DEF RegInv, AsLoaded, NothingYet, InOrder, Offered, InMain, AfterRegister, Serving

(* The next cluster is new to both registries, and goes to the end. *)
LEMMA RegisterClusterOffers ==
  ASSUME IInv, RegInv, RegisterCluster
  PROVE  RegInv'
<1> DEFINE name == trim[clusters[k].name]
<1>1. /\ pc = "register" /\ pc' = pc /\ k' = k + 1 /\ k <= Len(cfg.clusters)
      /\ registry' = Add(registry, cfg.clusters[k].name, cfg.clusters[k].url)
      /\ gateway' = Add(gateway, cfg.clusters[k].name, cfg.clusters[k].url)
      /\ UNCHANGED <<clusters, groups, cfg, groupReg>>
  BY DEF RegisterCluster, NextTurn
<1>2. /\ k \in Nat /\ k \in 1 .. Len(clusters) /\ ClustersDone(Len(clusters))
      /\ DOMAIN registry.members = {cfg.clusters[j].name : j \in 1 .. k - 1}
      /\ ClustersOffered(k - 1) /\ clusters \in Seq(RawCluster)
  BY <1>1, LenProperties
  DEF IInv, Typed, ClustersRead, ClustersDone, AtRegister, InMain, RegInv, InOrder
<1>3. /\ cfg.clusters[k].name = name
      /\ \A j \in 1 .. k - 1 :
           cfg.clusters[j].name = trim[clusters[j].name] /\ trim[clusters[j].name] # name
  BY <1>2 DEF ClustersDone
<1>4. name \notin DOMAIN registry.members
  BY <1>2, <1>3
<1>5. name \in Trimmed
  <2>1. clusters[k] \in RawCluster
    BY <1>2, ElementOfSeq
  <2> QED
    BY <2>1 DEF RawCluster, Trimmed
<1>6. registry'.order = Append(registry.order, name)
  BY <1>1, <1>3, <1>4 DEF Add
<1> HIDE DEF name
<1>7. /\ registry'.order \in Seq(Trimmed) /\ Len(registry'.order) = k
      /\ registry'.order[k] = name
      /\ \A j \in 1 .. k - 1 : registry'.order[j] = registry.order[j]
  BY <1>2, <1>5, <1>6, AppendProperties DEF ClustersOffered
<1>8. \A j \in 1 .. k : registry'.order[j] = trim[clusters[j].name]
  <2>1. \A j \in 1 .. k : j = k \/ j \in 1 .. k - 1
    BY <1>2
  <2> QED
    BY <1>2, <1>7, <2>1 DEF ClustersOffered, name
<1>9. k' - 1 = k
  BY <1>1, <1>2
<1>10. ClustersOffered(k - 1)'
  BY <1>1, <1>7, <1>8, <1>9 DEF ClustersOffered
<1>11. GroupsLoaded(Len(groups))'
  BY <1>1 DEF RegInv, AsLoaded, InMain, GroupsLoaded, Loaded
<1> QED
  BY <1>1, <1>10, <1>11
  DEF RegInv, AsLoaded, NothingYet, InOrder, Offered, InMain, AfterRegister, Serving

(* All the clusters are registered, and no group is. *)
LEMMA ClustersRegisteredOffers ==
  ASSUME IInv, RegInv, ClustersRegistered
  PROVE  RegInv'
<1>1. /\ pc = "register" /\ pc' = "group" /\ k' = 1 /\ k > Len(cfg.clusters)
      /\ UNCHANGED <<clusters, groups, cfg, registry, gateway, groupReg>>
  BY DEF ClustersRegistered, Goto
<1>2. k - 1 = Len(clusters) /\ ClustersOffered(k - 1) /\ groupReg = NoRegistry
      /\ GroupsLoaded(Len(groups))
  BY <1>1, LenProperties
  DEF IInv, Typed, AtRegister, ClustersRead, ClustersDone, InMain, RegInv, InOrder,
      NothingYet, AsLoaded
<1>3. ClustersOffered(Len(clusters))'
  BY <1>1, <1>2 DEF ClustersOffered
<1>4. GroupsOffered(k - 1)'
  <2>1. k' - 1 = 0 /\ groupReg'.order = <<>> /\ DOMAIN groupReg'.members = {}
    BY <1>1, <1>2, EmptySeq, LenProperties DEF NoRegistry
  <2> QED
    BY <2>1, EmptySeq DEF GroupsOffered
<1>5. GroupsLoaded(Len(groups))'
  BY <1>1, <1>2 DEF GroupsLoaded, Loaded
<1> QED
  BY <1>1, <1>3, <1>4, <1>5
  DEF RegInv, AsLoaded, NothingYet, InOrder, Offered, InMain, AfterRegister, Serving

(* The next group is new to the registry, goes to the end, and is offered  *)
(* as it was loaded.                                                       *)
LEMMA AddGroupOffers ==
  ASSUME IInv, RegInv, AddGroup
  PROVE  RegInv'
<1> DEFINE name == trim[groups[k].name]
<1>1. CASE cfg.groups[k].cluster \notin DOMAIN registry.members
  <2>1. Fatal
    BY <1>1 DEF AddGroup
  <2> QED
    BY <2>1, FatalOffers
<1>2. CASE cfg.groups[k].cluster \in DOMAIN registry.members
  <2>1. /\ pc = "group" /\ pc' = pc /\ k' = k + 1 /\ k <= Len(cfg.groups)
        /\ groupReg' = Add(groupReg, cfg.groups[k].name,
             [cluster |-> cfg.groups[k].cluster, concurrency |-> cfg.groups[k].concurrency,
              items |-> Items(cfg.groups[k].usecases)])
        /\ UNCHANGED <<clusters, groups, cfg, registry, gateway>>
    BY <1>2 DEF AddGroup, NextTurn
  <2>2. /\ k \in Nat /\ k \in 1 .. Len(groups) /\ GroupsDone(Len(groups))
        /\ groups \in Seq(RawGroup) /\ GroupsOffered(k - 1) /\ GroupsLoaded(Len(groups))
    BY <2>1, LenProperties
    DEF IInv, Typed, GroupsRead, GroupsDone, InMain, RegInv, Offered, AsLoaded
  <2>3. cfg.groups[k] = Loaded(groups[k]) /\ cfg.groups[k].name = name
    BY <2>2 DEF GroupsLoaded, GroupsDone
  <2>4. \A j \in 1 .. k - 1 : trim[groups[j].name] # name
    BY <2>2 DEF GroupsDone
  <2>5. name \in Trimmed
    <3>1. groups[k] \in RawGroup
      BY <2>2, ElementOfSeq
    <3> QED
      BY <3>1 DEF RawGroup, Trimmed
  <2>6. groupReg' = Add(groupReg, name, Offer(groups[k]))
    BY <2>1, <2>3 DEF Offer
  <2> HIDE DEF name
  <2>7. name \notin DOMAIN groupReg.members
    BY <2>2, <2>4 DEF GroupsOffered
  <2>8. /\ groupReg'.order = Append(groupReg.order, name)
        /\ DOMAIN groupReg'.members = DOMAIN groupReg.members \cup {name}
        /\ groupReg'.members[name] = Offer(groups[k])
        /\ \A m \in DOMAIN groupReg.members : groupReg'.members[m] = groupReg.members[m]
    BY <2>6, <2>7 DEF Add
  <2>9. /\ groupReg'.order \in Seq(Trimmed) /\ Len(groupReg'.order) = k
        /\ groupReg'.order[k] = name
        /\ \A j \in 1 .. k - 1 : groupReg'.order[j] = groupReg.order[j]
    BY <2>2, <2>5, <2>8, AppendProperties DEF GroupsOffered
  <2>10. 1 .. k = (1 .. k - 1) \cup {k}
    BY <2>2
  <2>11. DOMAIN groupReg'.members = {trim[groups[j].name] : j \in 1 .. k}
    BY <2>2, <2>8, <2>10 DEF GroupsOffered, name
  <2>12. ASSUME NEW j \in 1 .. k
         PROVE  /\ groupReg'.order[j] = trim[groups[j].name]
                /\ groupReg'.members[trim[groups[j].name]] = Offer(groups[j])
    <3>1. CASE j = k
      BY <2>8, <2>9, <3>1 DEF name
    <3>2. CASE j \in 1 .. k - 1
      <4>1. /\ groupReg.order[j] = trim[groups[j].name]
            /\ groupReg.members[trim[groups[j].name]] = Offer(groups[j])
            /\ trim[groups[j].name] \in DOMAIN groupReg.members
        BY <2>2, <3>2 DEF GroupsOffered
      <4> QED
        BY <2>8, <2>9, <3>2, <4>1
    <3> QED
      BY <2>10, <3>1, <3>2
  <2>13. k' - 1 = k
    BY <2>1, <2>2
  <2>14. GroupsOffered(k - 1)'
    <3>1. groups' = groups
      BY <2>1
    <3>2. /\ (groupReg.order \in Seq(Trimmed))' /\ (Len(groupReg.order) = k - 1)'
          /\ (DOMAIN groupReg.members = {trim[groups[j].name] : j \in 1 .. k - 1})'
      BY <2>9, <2>11, <2>13, <3>1
    <3>3. (\A j \in 1 .. k - 1 :
             /\ groupReg.order[j] = trim[groups[j].name]
             /\ groupReg.members[trim[groups[j].name]] = Offer(groups[j]))'
      BY <2>12, <2>13, <3>1 DEF Offer, Loaded
    <3> QED
      BY <3>2, <3>3 DEF GroupsOffered
  <2>15. ClustersOffered(Len(clusters))' /\ GroupsLoaded(Len(groups))'
    BY <2>1, <2>2 DEF RegInv, InOrder, ClustersOffered, GroupsLoaded, Loaded, AfterRegister, InMain
  <2> QED
    BY <2>1, <2>14, <2>15
    DEF RegInv, AsLoaded, NothingYet, InOrder, Offered, InMain, AfterRegister, Serving
<1> QED
  BY <1>1, <1>2

(* Every group is registered when the adapters start. *)
LEMMA ServeOffers ==
  ASSUME IInv, RegInv, Serve
  PROVE  RegInv'
<1>1. /\ pc = "group" /\ pc' \in {"serving", "fatal"} /\ k > Len(cfg.groups)
      /\ UNCHANGED <<clusters, groups, cfg, registry, gateway, groupReg>>
  BY DEF Serve, Goto
<1>2. k - 1 = Len(groups)
  BY <1>1, LenProperties DEF IInv, Typed, AtGroup, GroupsRead, GroupsDone, InMain
<1>3. GroupsOffered(Len(groups)) /\ GroupsLoaded(Len(groups)) /\ ClustersOffered(Len(clusters))
  BY <1>1, <1>2 DEF RegInv, Offered, AsLoaded, InOrder, AfterRegister, InMain
<1>4. /\ GroupsOffered(Len(groups))' /\ GroupsLoaded(Len(groups))'
      /\ ClustersOffered(Len(clusters))'
  BY <1>1, <1>3 DEF GroupsOffered, GroupsLoaded, ClustersOffered, Offer, Loaded
<1> QED
  BY <1>1, <1>4
  DEF RegInv, AsLoaded, NothingYet, InOrder, Offered, InMain, AfterRegister, Serving

(* The registries are filled with what is configured. *)
THEOREM RegistriesInductive == Spec => [](IInv /\ RegInv)
<1>1. Init => RegInv
  BY DEF Init, RegInv, AsLoaded, NothingYet, InOrder, Offered, InMain, AfterRegister,
         Serving, NoRegistry
<1>2. IInv /\ RegInv /\ [Next]_vars => RegInv'
  <2> SUFFICES ASSUME IInv, RegInv, [Next]_vars
               PROVE  RegInv'
    OBVIOUS
  <2>1. CASE NoClusters
    BY <2>1, FatalOffers DEF NoClusters
  <2>2. CASE Exit
    <3>1. /\ pc = "serving" /\ pc' \in {"failed", "stopped"}
          /\ UNCHANGED <<clusters, groups, cfg, registry, gateway, groupReg>>
      BY <2>2 DEF Exit
    <3>2. /\ GroupsOffered(Len(groups))' /\ GroupsLoaded(Len(groups))'
          /\ ClustersOffered(Len(clusters))'
      BY <3>1 DEF RegInv, Offered, AsLoaded, InOrder, AfterRegister, InMain, Serving,
                  GroupsOffered, GroupsLoaded, ClustersOffered, Offer, Loaded
    <3> QED
      BY <3>1, <3>2
      DEF RegInv, AsLoaded, NothingYet, InOrder, Offered, InMain, AfterRegister, Serving
  <2>3. CASE UNCHANGED vars
    <3>1. UNCHANGED <<pc, k, clusters, groups, cfg, registry, gateway, groupReg>>
      BY <2>3 DEF vars
    <3>2. AsLoaded' /\ NothingYet'
      BY <3>1 DEF RegInv, AsLoaded, NothingYet, GroupsLoaded, Loaded
    <3>3. InOrder' /\ Offered'
      BY <3>1 DEF RegInv, InOrder, Offered, ClustersOffered, GroupsOffered, Offer, Loaded, Serving
    <3> QED
      BY <3>1, <3>2, <3>3 DEF RegInv
  <2> QED
    BY <2>1, <2>2, <2>3, LoadOffers, ReadEnvOffers, RegisterClusterOffers,
       ClustersRegisteredOffers, AddGroupOffers, ServeOffers DEF Next
<1>3. Spec => []IInv
  BY Inductive
<1> QED
  BY <1>1, <1>2, <1>3, PTL DEF Spec

(* A group's items are its targets, use case by use case. *)
LEMMA OfferedItems ==
  ASSUME NEW g \in RawGroup
  PROVE  /\ Offer(g).items = FlattenSeq([u \in DOMAIN g.usecases |->
              [i \in DOMAIN g.usecases[u].targets |->
                 [usecase |-> trim[g.usecases[u].usecase],
                  inputs |-> g.usecases[u].targets[i]]]])
         /\ Offer(g).items \in Seq([usecase : Trimmed, inputs : Target])
<1> DEFINE ucs == g.usecases
           S == [usecase : Trimmed, inputs : Target]
           part(u) == [i \in DOMAIN ucs[u].targets |->
                         [usecase |-> trim[ucs[u].usecase], inputs |-> ucs[u].targets[i]]]
           seqs == [u \in DOMAIN ucs |-> part(u)]
           loaded == Loaded(g).usecases
<1>1. ucs \in Seq(RawUseCase)
  BY DEF RawGroup
<1>2. DOMAIN ucs = 1 .. Len(ucs) /\ Len(ucs) \in Nat
  BY <1>1, LenProperties
<1>3. ASSUME NEW u \in 1 .. Len(ucs)
      PROVE  part(u) \in Seq(S) /\ part(u) = ItemsOf(loaded[u])
  <2>1. ucs[u] \in [usecase : Raw, targets : Seq(Target)]
    BY <1>1, ElementOfSeq DEF RawUseCase
  <2>2. ucs[u].targets \in Seq(Target) /\ trim[ucs[u].usecase] \in Trimmed
    BY <2>1 DEF Trimmed
  <2> DEFINE l == Len(ucs[u].targets)
  <2>3. l \in Nat /\ DOMAIN ucs[u].targets = 1 .. l
    BY <2>2, LenProperties
  <2>4. \A i \in 1 .. l : ucs[u].targets[i] \in Target
    BY <2>2, ElementOfSeq
  <2>5. part(u) \in [1 .. l -> S]
    BY <2>2, <2>3, <2>4
  <2>6. part(u) \in Seq(S)
    BY <2>3, <2>5, SeqDef
  <2>7. loaded[u] = [ucs[u] EXCEPT !.usecase = trim[ucs[u].usecase]]
    BY <1>2 DEF Loaded
  <2>8. loaded[u].usecase = trim[ucs[u].usecase] /\ loaded[u].targets = ucs[u].targets
    BY <2>1, <2>7
  <2>9. part(u) = ItemsOf(loaded[u])
    BY <2>8 DEF ItemsOf
  <2> QED
    BY <2>6, <2>9
<1>4. seqs \in Seq(Seq(S)) /\ Len(seqs) = Len(ucs)
  <2>1. seqs \in [1 .. Len(ucs) -> Seq(S)]
    <3> HIDE DEF part, S
    <3> QED
      BY <1>2, <1>3
  <2> HIDE DEF seqs, S
  <2>2. seqs \in Seq(Seq(S))
    BY <1>2, <2>1, SeqDef
  <2> QED
    BY <1>2, <2>1, <2>2, LenProperties
<1>5. Len(loaded) = Len(ucs)
  <2>1. DOMAIN loaded = 1 .. Len(ucs)
    BY <1>2 DEF Loaded
  <2>2. loaded = [u \in 1 .. Len(ucs) |-> loaded[u]]
    BY <1>2 DEF Loaded
  <2> HIDE DEF loaded
  <2>3. loaded \in Seq({loaded[u] : u \in 1 .. Len(ucs)})
    <3>1. loaded \in [1 .. Len(ucs) -> {loaded[u] : u \in 1 .. Len(ucs)}]
      BY <2>1, <2>2
    <3> QED
      BY <1>2, <3>1, SeqDef
  <2> QED
    BY <1>2, <2>1, <2>3, LenProperties
<1>6. \A u \in 1 .. Len(seqs) : seqs[u] = ItemsOf(loaded[u])
  <2>1. ASSUME NEW u \in 1 .. Len(ucs)
        PROVE  seqs[u] = ItemsOf(loaded[u])
    <3>1. seqs[u] = part(u)
      BY <1>2
    <3> QED
      BY <1>3, <3>1, Zenon
  <2> HIDE DEF seqs, loaded
  <2> QED
    BY <1>4, <2>1
<1> HIDE DEF loaded
<1>7. Items(loaded) = FlattenSeq(seqs)
  <2> HIDE DEF seqs, S
  <2> QED
    BY <1>4, <1>5, <1>6, ItemsAre
<1>8. FlattenSeq(seqs) \in Seq(S)
  <2> HIDE DEF seqs, S
  <2>1. PICK f \in [0 .. Len(seqs) -> Seq(S)] : FlattenSeq(seqs) = f[Len(seqs)]
    BY <1>4, FlattenLoop
  <2> QED
    BY <1>2, <1>4, <2>1
<1>9. Offer(g).items = Items(loaded)
  BY DEF Offer, loaded
<1> QED
  BY <1>7, <1>8, <1>9

(* Once the process serves, the front doors and the chats have the         *)
(* clusters in the file's order, the pickers share the groups out, and a   *)
(* group's items and counts are its targets, none lost or doubled.         *)
THEOREM ConfigurationServed == Spec => []ServesConfiguration
<1>1. IInv /\ RegInv => ServesConfiguration
  <2> SUFFICES ASSUME IInv, RegInv, Serving
               PROVE  ServesConfiguration
    BY DEF ServesConfiguration
  <2> DEFINE n == Len(clusters)
             m == Len(groups)
             order == groupReg.order
             seqs == [j \in DOMAIN clusters |-> ForCluster(ClusterNames[j])]
  <2>1. /\ registry = gateway /\ ClustersOffered(n) /\ GroupsOffered(m)
        /\ ClustersDone(n) /\ GroupsDone(m) /\ Placed(m)
        /\ clusters \in Seq(RawCluster) /\ groups \in Seq(RawGroup)
    BY DEF IInv, RegInv, Serving, InMain, AfterRegister, Typed, ClustersRead, GroupsRead,
           AtGroup, InOrder, Offered
  <2>2. /\ n \in Nat /\ m \in Nat /\ DOMAIN clusters = 1 .. n /\ DOMAIN groups = 1 .. m
    BY <2>1, LenProperties
  <2>3. /\ ClusterNames = [j \in 1 .. n |-> trim[clusters[j].name]]
        /\ \A j \in 1 .. m : GroupNames[j] = trim[groups[j].name]
    BY <2>2 DEF ClusterNames, GroupNames
  <2>4. registry.order = ClusterNames
    <3>1. /\ registry.order \in Seq(Trimmed) /\ Len(registry.order) = n
          /\ \A j \in 1 .. n : registry.order[j] = trim[clusters[j].name]
      BY <2>1 DEF ClustersOffered
    <3>2. registry.order \in [1 .. n -> Trimmed]
      BY <3>1, LenProperties
    <3>3. registry.order = [j \in 1 .. n |-> registry.order[j]]
      BY <3>2
    <3> HIDE DEF n
    <3> QED
      BY <2>3, <3>1, <3>3
  <2>5. /\ order \in Seq(Trimmed) /\ Len(order) = m
        /\ \A j \in 1 .. m : /\ order[j] = trim[groups[j].name]
                             /\ groupReg.members[order[j]] = Offer(groups[j])
    BY <2>1 DEF GroupsOffered
  <2>6. \A j \in 1 .. m : groupReg.members[order[j]].cluster = trim[groups[j].cluster]
    <3>1. \A g : Offer(g).cluster = trim[g.cluster]
      BY DEF Offer, Loaded
    <3> HIDE DEF order, m
    <3> QED
      BY <2>5, <3>1
  <2>7. Len(FlattenSeq(seqs)) = m
    <3>1. seqs \in [1 .. n -> Seq(Trimmed)]
      <4>1. \A j \in 1 .. n : ForCluster(ClusterNames[j]) \in Seq(Trimmed)
        BY <2>5, ForClusterPicks
      <4> QED
        BY <2>2, <4>1
    <3>2. \A j \in 1 .. n : seqs[j] = ForCluster(ClusterNames[j])
      BY <2>2
    <3> HIDE DEF seqs, n, m, order
    <3>3. seqs \in Seq(Seq(Trimmed)) /\ Len(seqs) = n
      <4>1. seqs \in Seq(Seq(Trimmed))
        BY <2>2, <3>1, SeqDef
      <4> QED
        BY <2>2, <3>1, <4>1, LenProperties
    <3>4. \A i, j \in 1 .. Len(seqs) : ClusterNames[i] = ClusterNames[j] => i = j
      BY <2>1, <2>3, <3>3 DEF ClustersDone
    <3>5. \A j \in 1 .. Len(groupReg.order) :
            \E i \in 1 .. Len(seqs) :
              groupReg.members[groupReg.order[j]].cluster = ClusterNames[i]
      BY <2>1, <2>3, <2>5, <2>6, <3>3 DEF Placed, n, order
    <3>6. groupReg.order \in Seq(Trimmed) /\ Len(groupReg.order) = m
      BY <2>5 DEF order
    <3>7. \A i \in 1 .. Len(seqs) : seqs[i] = ForCluster(ClusterNames[i])
      BY <3>2, <3>3
    <3>8. Len(FlattenSeq(seqs)) = Len(groupReg.order)
      BY <3>3, <3>4, <3>5, <3>6, <3>7, PickersPartition
    <3> QED
      BY <3>6, <3>8
  <2>8. ASSUME NEW j \in 1 .. m
        PROVE  LET g == groupReg.members[GroupNames[j]]
                   ucs == groups[j].usecases
                   counts == UseCaseCounts(g.items)
               IN  /\ GroupNames[j] \in ToSet(ForCluster(trim[groups[j].cluster]))
                   /\ g.items = FlattenSeq([u \in DOMAIN ucs |-> [i \in DOMAIN ucs[u].targets |->
                        [usecase |-> trim[ucs[u].usecase], inputs |-> ucs[u].targets[i]]]])
                   /\ Total(counts) = Len(g.items)
                   /\ IsInjective([i \in DOMAIN counts |-> counts[i].usecase])
    <3> DEFINE g == groupReg.members[GroupNames[j]]
               counts == UseCaseCounts(g.items)
    <3>1. GroupNames[j] = order[j] /\ g = Offer(groups[j]) /\ groups[j] \in RawGroup
      BY <2>1, <2>3, <2>5, ElementOfSeq
    <3>2. GroupNames[j] \in ToSet(ForCluster(trim[groups[j].cluster]))
      <4>1. j \in InCluster(trim[groups[j].cluster])
        BY <2>5, <2>6 DEF InCluster
      <4> QED
        BY <2>5, <3>1, <4>1, ForClusterPicks
    <3> HIDE DEF g
    <3>3. /\ g.items = FlattenSeq([u \in DOMAIN groups[j].usecases |->
                [i \in DOMAIN groups[j].usecases[u].targets |->
                   [usecase |-> trim[groups[j].usecases[u].usecase],
                    inputs |-> groups[j].usecases[u].targets[i]]]])
          /\ g.items \in Seq([usecase : Trimmed, inputs : Target])
      BY <3>1, OfferedItems
    <3>4. /\ counts \in Seq([usecase : Trimmed, targets : Nat])
          /\ Unique(counts) /\ Total(counts) = Len(g.items)
      BY <3>3, CountsAddUp
    <3> HIDE DEF counts
    <3>5. IsInjective([i \in DOMAIN counts |-> counts[i].usecase])
      BY <3>4, LenProperties DEF IsInjective, Unique
    <3> QED
      BY <3>2, <3>3, <3>4, <3>5 DEF g, counts
  <2> HIDE DEF n, m, seqs
  <2> QED
    BY <2>1, <2>2, <2>4, <2>7, <2>8, Zenon DEF ServesConfiguration, seqs, m
<1> QED
  BY <1>1, RegistriesInductive, PTL
=============================================================================
