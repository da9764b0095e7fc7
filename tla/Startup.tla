------------------------------ MODULE Startup ------------------------------
(***************************************************************************)
(* From the configuration to a serving process: config.Load with           *)
(* loadClusters and loadGroups, the wiring in cmd/kato-bot/main.go, the    *)
(* registries it fills, and how the process ends.  One turn of a loop is   *)
(* one action; a log.Fatalf ends the process.                              *)
(*                                                                         *)
(* Texts are abstracted to members of Raw, some of which trim to the same  *)
(* name and some to the empty one.                                         *)
(***************************************************************************)
EXTENDS Integers, Sequences, SequencesExt

CONSTANTS
  Raw,           \* texts a file can hold
  trim,          \* strings.TrimSpace: Raw -> a name
  Target,        \* a target's inputs
  EmptyTarget,   \* the one without any
  ClusterFiles,  \* what the clusters file can list
  GroupFiles     \* what the groups file can list

Empty == ""
defaultGroupConcurrency == 5

(* A use case of a group with its targets, a cluster, a group, as they are *)
(* written in the files.                                                   *)
RawUseCase == [usecase : Raw, targets : Seq(Target)]
RawCluster == [name : Raw, url : Raw]
RawGroup == [name : Raw, cluster : Raw, concurrency : Int, usecases : Seq(RawUseCase)]

ASSUME TrimAssumption == DOMAIN trim = Raw /\ EmptyTarget \in Target
ASSUME ClusterFilesAssumption == ClusterFiles \subseteq Seq(RawCluster)
ASSUME GroupFilesAssumption == GroupFiles \subseteq Seq(RawGroup)

VARIABLES
  pc,        \* how far main has come
  clusters,  \* the clusters file's list
  groups,    \* the groups file's list
  broken,    \* the files that cannot be read or parsed
  env,       \* the environment's variables
  k,         \* the loop's index
  cfg,       \* [clusters, groups]: what Load returns
  registry,  \* core.Registry: [order, clients]
  gateway,   \* gateway.Gateway: the same
  groupReg,  \* core.GroupRegistry: [order, byName]
  adapters   \* the platforms that are started

vars == <<pc, clusters, groups, broken, env, k, cfg, registry, gateway, groupReg, adapters>>

(* How many of Lark's two credentials are set, whether Telegram's is, and  *)
(* whether every duration, number and id that is set parses.               *)
Env == [read : {TRUE}, lark : 0 .. 2, telegram : BOOLEAN, parses : BOOLEAN]
NotRead == [read |-> FALSE, lark |-> 0, telegram |-> FALSE, parses |-> TRUE]

NoRegistry == [order |-> <<>>, members |-> <<>>]

Init ==
  /\ pc = "clusters"
  /\ clusters \in ClusterFiles
  /\ groups = <<>>
  /\ broken \in SUBSET {"clusters", "groups"}
  /\ env = NotRead
  /\ k = 1
  /\ cfg = [clusters |-> <<>>, groups |-> <<>>]
  /\ registry = NoRegistry /\ gateway = NoRegistry /\ groupReg = NoRegistry
  /\ adapters = <<>>

-----------------------------------------------------------------------------
(* config.Load *)

Names(list) == {list[j].name : j \in DOMAIN list}

(* log.Fatalf: nothing is served. *)
Fatal ==
  /\ pc' = "fatal"
  /\ UNCHANGED <<clusters, groups, broken, env, k, cfg, registry, gateway, groupReg, adapters>>

(* The next turn of a loop, or of main. *)
Goto(place) == pc' = place /\ k' = 1
NextTurn == pc' = pc /\ k' = k + 1

(* The clusters file cannot be read or parsed, or lists nothing. *)
NoClusters == pc = "clusters" /\ ("clusters" \in broken \/ clusters = <<>>) /\ Fatal

(* Mutant: names are compared as they are written. *)
BadClusterUntrimmed(c) ==
  \/ trim[c.name] = Empty \/ trim[c.url] = Empty
  \/ \E j \in 1 .. k - 1 : clusters[j].name = c.name

(* A blank name or url, or a name that an earlier cluster has. *)
BadCluster(c) ==
  trim[c.name] = Empty \/ trim[c.url] = Empty \/ trim[c.name] \in Names(cfg.clusters)

(* loadClusters, one cluster. *)
LoadCluster ==
  /\ pc = "clusters" /\ "clusters" \notin broken /\ k <= Len(clusters)
  /\ IF BadCluster(clusters[k]) THEN Fatal
     ELSE /\ cfg' = [cfg EXCEPT !.clusters =
                       Append(@, [name |-> trim[clusters[k].name], url |-> trim[clusters[k].url]])]
          /\ NextTurn
          /\ UNCHANGED <<clusters, groups, broken, env, registry, gateway, groupReg, adapters>>

(* The groups file: unreadable is fatal, missing means no groups. *)
OpenGroups ==
  /\ pc = "clusters" /\ clusters # <<>> /\ k > Len(clusters)
  /\ IF "groups" \in broken THEN Fatal
     ELSE /\ groups' \in GroupFiles
          /\ Goto("groups")
          /\ UNCHANGED <<clusters, broken, env, cfg, registry, gateway, groupReg, adapters>>

BadGroup(g) ==
  \/ trim[g.name] = Empty \/ trim[g.name] \in Names(cfg.groups)
  \/ trim[g.cluster] = Empty
  \/ g.usecases = <<>>
  \/ \E j \in DOMAIN g.usecases :
       trim[g.usecases[j].usecase] = Empty \/ g.usecases[j].targets = <<>>

Loaded(g) ==
  [name |-> trim[g.name], cluster |-> trim[g.cluster],
   concurrency |-> IF g.concurrency < 1 THEN defaultGroupConcurrency ELSE g.concurrency,
   usecases |-> [j \in DOMAIN g.usecases |-> [g.usecases[j] EXCEPT !.usecase = trim[@]]]]

(* loadGroups, one group. *)
LoadGroup ==
  /\ pc = "groups" /\ k <= Len(groups)
  /\ IF BadGroup(groups[k]) THEN Fatal
     ELSE /\ cfg' = [cfg EXCEPT !.groups = Append(@, Loaded(groups[k]))]
          /\ NextTurn
          /\ UNCHANGED <<clusters, groups, broken, env, registry, gateway, groupReg, adapters>>

(* The rest of Load: at least one platform, Lark's credentials together. *)
Platforms(e) == e.lark # 1 /\ (e.lark = 2 \/ e.telegram)

ReadEnv ==
  /\ pc = "groups" /\ k > Len(groups)
  /\ env' \in Env
  /\ Goto(IF env'.parses /\ Platforms(env') THEN "register" ELSE "fatal")
  /\ UNCHANGED <<clusters, groups, broken, cfg, registry, gateway, groupReg, adapters>>

-----------------------------------------------------------------------------
(* main *)

(* Registry.Add, Gateway.Add and GroupRegistry.Add: a duplicate replaces   *)
(* the member and keeps its place.  (GroupRegistry's list would keep the   *)
(* group it had; Load lets no duplicate through.)                          *)
Add(reg, name, member) ==
  [order |-> IF name \in DOMAIN reg.members THEN reg.order ELSE Append(reg.order, name),
   members |-> [n \in DOMAIN reg.members \cup {name} |->
                  IF n = name THEN member ELSE reg.members[n]]]

RegisterCluster ==
  /\ pc = "register" /\ k <= Len(cfg.clusters)
  /\ LET c == cfg.clusters[k]
     IN  /\ registry' = Add(registry, c.name, c.url)
         /\ gateway' = Add(gateway, c.name, c.url)
  /\ NextTurn
  /\ UNCHANGED <<clusters, groups, broken, env, cfg, groupReg, adapters>>

ClustersRegistered ==
  /\ pc = "register" /\ k > Len(cfg.clusters)
  /\ Goto("group")
  /\ UNCHANGED <<clusters, groups, broken, env, cfg, registry, gateway, groupReg, adapters>>

(* Mutant: only a use case's first target becomes an item. *)
ItemsFirstOnly(usecases) ==
  [u \in DOMAIN usecases |-> [usecase |-> usecases[u].usecase, inputs |-> usecases[u].targets[1]]]

(* The items of a use case's targets: the inner loop. *)
ItemsOf(uc) ==
  [i \in DOMAIN uc.targets |-> [usecase |-> uc.usecase, inputs |-> uc.targets[i]]]

(* The two nested loops that flatten a group into work items. *)
Items(usecases) ==
  LET items[n \in 0 .. Len(usecases)] ==
        IF n = 0 THEN <<>> ELSE items[n - 1] \o ItemsOf(usecases[n])
  IN  items[Len(usecases)]

(* A group has to be in a configured cluster. *)
AddGroup ==
  /\ pc = "group" /\ k <= Len(cfg.groups)
  /\ LET g == cfg.groups[k]
     IN  IF g.cluster \notin DOMAIN registry.members THEN Fatal
         ELSE /\ groupReg' = Add(groupReg, g.name,
                   [cluster |-> g.cluster, concurrency |-> g.concurrency, items |-> Items(g.usecases)])
              /\ NextTurn
              /\ UNCHANGED <<clusters, groups, broken, env, cfg, registry, gateway, adapters>>

(* lark.New and telegram.New are nil for a platform that is not            *)
(* configured; NonNil keeps the rest.                                      *)
Serve ==
  /\ pc = "group" /\ k > Len(cfg.groups)
  /\ adapters' = (IF env.lark = 2 THEN <<"lark">> ELSE <<>>)
                   \o (IF env.telegram THEN <<"telegram">> ELSE <<>>)
  /\ Goto(IF adapters' = <<>> THEN "fatal" ELSE "serving")
  /\ UNCHANGED <<clusters, groups, broken, env, cfg, registry, gateway, groupReg>>

(* A server that cannot listen, an adapter that fails, or a signal. *)
Exit ==
  /\ pc = "serving"
  /\ pc' \in {"failed", "stopped"}
  /\ UNCHANGED <<clusters, groups, broken, env, k, cfg, registry, gateway, groupReg, adapters>>

Next ==
  \/ NoClusters \/ LoadCluster \/ OpenGroups \/ LoadGroup
  \/ ReadEnv \/ RegisterCluster \/ ClustersRegistered \/ AddGroup \/ Serve \/ Exit

Spec == Init /\ [][Next]_vars

-----------------------------------------------------------------------------
(* What the registries offer *)

(* One more target of a use case, which may be the first. *)
CountOne(counts, usecase) ==
  IF \E j \in DOMAIN counts : counts[j].usecase = usecase
  THEN [j \in DOMAIN counts |->
          IF counts[j].usecase = usecase
          THEN [usecase |-> usecase, targets |-> counts[j].targets + 1] ELSE counts[j]]
  ELSE Append(counts, [usecase |-> usecase, targets |-> 1])

(* Group.UseCaseCounts, for the pickers and the group list. *)
UseCaseCounts(items) ==
  LET counts[n \in 0 .. Len(items)] ==
        IF n = 0 THEN <<>> ELSE CountOne(counts[n - 1], items[n].usecase)
  IN  counts[Len(items)]

(* GroupRegistry.ForCluster, the groups in a cluster's picker. *)
ForCluster(cluster) ==
  LET picked[n \in 0 .. Len(groupReg.order)] ==
        IF n = 0 THEN <<>>
        ELSE IF groupReg.members[groupReg.order[n]].cluster = cluster
             THEN Append(picked[n - 1], groupReg.order[n])
             ELSE picked[n - 1]
  IN  picked[Len(groupReg.order)]

-----------------------------------------------------------------------------
(* Properties *)

Serving == pc \in {"serving", "failed", "stopped"}

ClusterNames == [j \in DOMAIN clusters |-> trim[clusters[j].name]]
GroupNames == [j \in DOMAIN groups |-> trim[groups[j].name]]

ValidClusters ==
  /\ "clusters" \notin broken /\ clusters # <<>>
  /\ Empty \notin ToSet(ClusterNames) /\ IsInjective(ClusterNames)
  /\ \A j \in DOMAIN clusters : trim[clusters[j].url] # Empty

ValidGroups ==
  /\ "groups" \notin broken
  /\ Empty \notin ToSet(GroupNames) /\ IsInjective(GroupNames)
  /\ \A j \in DOMAIN groups :
       /\ trim[groups[j].cluster] \in ToSet(ClusterNames)
       /\ groups[j].usecases # <<>>
       /\ \A uc \in ToSet(groups[j].usecases) : trim[uc.usecase] # Empty /\ uc.targets # <<>>

ValidEnv == env.parses /\ env.lark \in {0, 2} /\ (env.lark = 2 \/ env.telegram)

(* The process serves only a configuration that is valid as a whole, and   *)
(* refuses none that is: Load's and main's checks, each made on one entry  *)
(* with what the loops have built so far, together mean just that.         *)
ServesOnlyValid ==
  /\ Serving => ValidClusters /\ ValidGroups /\ ValidEnv
  /\ pc = "fatal" => ~ValidClusters \/ ~ValidGroups \/ (env.read /\ ~ValidEnv)

(* The sum of the counts. *)
Total(counts) ==
  LET sum[n \in 0 .. Len(counts)] == IF n = 0 THEN 0 ELSE sum[n - 1] + counts[n].targets
  IN  sum[Len(counts)]

(* Once it serves, chats and front doors know the same clusters in the     *)
(* file's order; every configured group is in the picker of exactly one    *)
(* cluster, and its items are its targets, use case by use case, none lost *)
(* or doubled, also when a use case is listed twice; the counts shown for  *)
(* it add up.                                                              *)
ServesConfiguration ==
  Serving =>
    /\ registry = gateway /\ registry.order = ClusterNames
    /\ Len(FlattenSeq([j \in DOMAIN clusters |-> ForCluster(ClusterNames[j])])) = Len(groups)
    /\ \A j \in DOMAIN groups :
         LET g == groupReg.members[GroupNames[j]]
             ucs == groups[j].usecases
             counts == UseCaseCounts(g.items)
         IN  /\ GroupNames[j] \in ToSet(ForCluster(trim[groups[j].cluster]))
             /\ g.items = FlattenSeq([u \in DOMAIN ucs |-> [i \in DOMAIN ucs[u].targets |->
                  [usecase |-> trim[ucs[u].usecase], inputs |-> ucs[u].targets[i]]]])
             /\ Total(counts) = Len(g.items)
             /\ IsInjective([i \in DOMAIN counts |-> counts[i].usecase])

-----------------------------------------------------------------------------
(* What the design says and the code does not do; TLC refutes it: "each    *)
(* target a non-empty map" (2026-08-07-group-runs-lark-design.md).         *)
TargetsHaveInputs ==
  Serving => \A n \in DOMAIN groupReg.members :
    \A j \in DOMAIN groupReg.members[n].items :
      groupReg.members[n].items[j].inputs # EmptyTarget
=============================================================================
