-------------------------- MODULE ResourceManager --------------------------
(***************************************************************************)
(* Local reconfiguration: localRobot.Reconfigure (robot/impl/local_robot.go) *)
(* and resourceManager (robot/impl/resource_manager.go) on the resource    *)
(* graph: FilterFromConfig, updateResources with wrapResource, closing     *)
(* what was filtered, and completeConfig, which Reconfigure and the 25s    *)
(* ticker both run under configLock, but FilterFromConfig does not take.   *)
(*                                                                         *)
(* A resource object (the Reconfigurable proxy) is its name and a number.  *)
(* A step is what one hold of the graph's mutex reads or writes, with the  *)
(* local work around it.  FilterFromConfig copies one removed resource     *)
(* after the other, then takes them all out.  completeConfig reads a       *)
(* placeholder, closes and marks each child, collects the dependencies,    *)
(* and adds what the constructor, which takes its time, returns.  Remotes  *)
(* are not here.                                                           *)
(*                                                                         *)
(* A definition directly above a helper, with the same parameters, is a    *)
(* plausible mistake in that helper's code; no action uses it.             *)
(***************************************************************************)
EXTENDS ResourceGraph

CONSTANTS
  Components, Services,  \* names a configuration may have
  Unknown,               \* unknown-type names: one for a dependency not in any config
  unk,                   \* [Components \cup Services -> Unknown]
  Configs,               \* configurations: [names -> [deps, ver]]
  NoConfig,              \* the zero config.Component
  Actions,               \* what UpdateAction may return
  Ticker,                \* does the 25s ticker run
  MaxReconfigure, MaxBuilds, MaxFaults  \* bounds

Configurable == Components \cup Services
Threads == {"main"} \cup (IF Ticker THEN {"ticker"} ELSE {})

ASSUME ManagerConstants ==
  /\ Names = Configurable \cup Unknown
  /\ unk \in [Configurable -> Unknown]
  /\ Actions \subseteq {"none", "reconfigure", "rebuild"}

VARIABLES
  config,      \* r.config
  next,        \* newConfig of the running Reconfigure
  pc,          \* of Reconfigure: "idle", "filter", "update", "close", "complete"
  gone,        \* the removed resources FilterFromConfig has not come to
  filtered,    \* the graph FilterFromConfig fills and returns
  configLock,  \* its holder, or Nil
  todo,        \* what is left of completeConfig's sorted names
  building,    \* what completeConfig does for Head(todo), or Nil
  open,        \* the objects built and not closed
  holds,       \* the objects each object was given as dependencies
  built,       \* history: the config each object has, by object
  failed,      \* history: the objects whose last change failed
  slips,       \* history: which of the three slips below have happened
  builds, reconfigures, faults  \* counters for the bounds

vars == <<graph, config, next, pc, gone, filtered, configLock, todo, building,
          open, holds, built, failed, slips, builds, reconfigures, faults>>

Objects == [of : Configurable, no : 1..MaxBuilds]

(* The values of a node: nil, a *resourcePlaceholder, or an object.         *)
Wrap(real, cfg) == [real |-> real, cfg |-> cfg]
IsObject(g, n) == n \in Nodes(g) /\ g.nodes[n] \in Objects
IsWrap(g, n) == n \in Nodes(g) /\ g.nodes[n] # Nil /\ g.nodes[n] \notin Objects

(* What closing a node's value closes; a placeholder closes its real.       *)
RealOf(v) == IF v = Nil THEN {} ELSE IF v \in Objects THEN {v} ELSE {v.real} \ {Nil}

Init ==
  /\ graph = NewGraph /\ filtered = NewGraph
  /\ config = <<>> /\ next = <<>>
  /\ pc = "idle" /\ gone = <<>>
  /\ configLock = Nil
  /\ todo = <<>>
  /\ building = Nil
  /\ open = {}
  /\ holds = [o \in Objects |-> {}]
  /\ built = [o \in Objects |-> NoConfig]
  /\ failed = {} /\ slips = {}
  /\ builds = [n \in Configurable |-> 0]
  /\ reconfigures = 0 /\ faults = 0

----------------------------------------------------------------------------
(* DiffConfigs.                                                             *)
Added(old, new) == DOMAIN new \ DOMAIN old
Removed(old, new) == DOMAIN old \ DOMAIN new
Modified(old, new) == {n \in DOMAIN old \cap DOMAIN new : old[n] # new[n]}

(* Removed components come before removed services.                         *)
InOrder(S) ==
  LET Put(n, s) == Append(s, n)
  IN  FoldSet(Put, FoldSet(Put, <<>>, S \cap Components), S \cap Services)

(* Reconfigure begins: nothing happens if the configs are the same.         *)
Reconfigure(new) ==
  /\ pc = "idle" /\ new # config
  /\ reconfigures < MaxReconfigure
  /\ reconfigures' = reconfigures + 1
  /\ next' = new
  /\ gone' = InOrder(Removed(config, new))
  /\ pc' = "filter"
  /\ UNCHANGED <<graph, config, filtered, configLock, todo, building,
                 open, holds, built, failed, slips, builds, faults>>

(* FilterFromConfig, which does not take configLock: each removed resource  *)
(* is copied with what depends on it.                                       *)
FilterCopies ==
  /\ pc = "filter" /\ gone # <<>>
  /\ filtered' = FilterOne(filtered, graph, Head(gone))
  /\ gone' = Tail(gone)
  /\ UNCHANGED <<graph, config, next, pc, configLock, todo, building,
                 open, holds, built, failed, slips, builds, reconfigures, faults>>

(* What completeConfig has read and is still to write to the graph.         *)
AtWork == IF building = Nil THEN {}
          ELSE {building.name} \cup {building.left[i] : i \in DOMAIN building.left}

(* Then what was copied is taken out of the graph.                          *)
FilterRemoves ==
  /\ pc = "filter" /\ gone = <<>>
  /\ graph' = MergeRemove(graph, filtered)
  /\ pc' = "update"
  /\ slips' = slips \cup {x \in {"removed at work"} : AtWork \cap Nodes(filtered) # {}}
  /\ UNCHANGED <<config, next, gone, filtered, configLock, todo, building,
                 open, holds, built, failed, builds, reconfigures, faults>>

(* The search function Reconfigure passes: in the current config, then in   *)
(* what is added, else an unknown name.                                     *)
Translate(dep, old, new) ==
  IF dep \in DOMAIN old \cup Added(old, new) THEN dep ELSE unk[dep]

(* wrapResource.  When an unknown-type node is found by the name, it        *)
(* becomes this one; FindNodeByName may meet the known-type node instead,   *)
(* when renaming would fail anyway.                                         *)
Placeholder(g, name, cfg) ==
  IF IsWrap(g, name) THEN Wrap(g.nodes[name].real, cfg)
  ELSE Wrap(IF name \in Nodes(g) THEN g.nodes[name] ELSE Nil, cfg)

KeepOldParents(g, name, parents) == g
DropOldParents(g, name, parents) ==
  FoldSet(LAMBDA k, h : removeChildren(h, name, k), g, getAllParentOf(g, name) \ parents)

wrapResource(g, name, cfg, old, new) ==
  LET wrapper == Placeholder(g, name, cfg)
      renamed == IF unk[name] \in Nodes(g) THEN renameNode(g, unk[name], name).g ELSE g
      node == addNode(renamed, name, wrapper)
      parents == {Translate(d, old, new) : d \in cfg.deps}
      r == LinkAll([g |-> node, ok |-> TRUE],
                   {<<name, p>> : p \in parents \ getAllParentOf(node, name)})
  IN  IF r.ok THEN DropOldParents(r.g, name, parents) ELSE remove(r.g, name)

(* updateResources, under configLock: what was added, then what was         *)
(* modified.                                                                *)
updateResources ==
  LET wrapAll(g, S) == FoldSet(LAMBDA n, h : wrapResource(h, n, next[n], config, next), g, S)
  IN  /\ pc = "update" /\ configLock = Nil
      /\ graph' = wrapAll(wrapAll(graph, Added(config, next)), Modified(config, next))
      /\ pc' = "close"
      /\ UNCHANGED <<config, next, gone, filtered, configLock, todo, building,
                     open, holds, built, failed, slips, builds, reconfigures, faults>>

(* r.config = newConfig; filtered.Close.                                    *)
CloseFiltered ==
  /\ pc = "close"
  /\ config' = next
  /\ open' = open \ UNION {RealOf(filtered.nodes[n]) : n \in Nodes(filtered)}
  /\ filtered' = NewGraph
  /\ pc' = "complete"
  /\ UNCHANGED <<graph, next, gone, configLock, todo, building,
                 holds, built, failed, slips, builds, reconfigures, faults>>

----------------------------------------------------------------------------
(* completeConfig takes configLock and sorts, parents first.                *)
Begin(t) ==
  /\ configLock = Nil
  /\ configLock' = t
  /\ todo' = ReverseTopologicalSort(graph)
  /\ UNCHANGED <<graph, config, next, pc, gone, filtered, building,
                 open, holds, built, failed, slips, builds, reconfigures, faults>>

ReconfigureCompletes == pc = "complete" /\ Begin("main")

NilNode(g) == \E n \in Nodes(g) : g.nodes[n] = Nil
anyResourcesNotConfigured(g) == \E n \in Nodes(g) : ~IsObject(g, n)

TickerCompletes ==
  /\ Ticker
  /\ anyResourcesNotConfigured(graph)
  /\ Begin("ticker")

(* The loop ends; the deferred unlock.                                      *)
completeConfigReturns ==
  /\ configLock # Nil /\ todo = <<>> /\ building = Nil
  /\ configLock' = Nil
  /\ pc' = IF configLock = "main" THEN "idle" ELSE pc
  /\ UNCHANGED <<graph, config, next, gone, filtered, todo, building,
                 open, holds, built, failed, slips, builds, reconfigures, faults>>

r == Head(todo)
Processing == configLock # Nil /\ building = Nil /\ todo # <<>>
Valid == IsWrap(graph, r) /\ graph.nodes[r].cfg # NoConfig
Buildable == Processing /\ Valid

(* Not a placeholder, or one whose config does not validate.                *)
SkipResource ==
  /\ Processing /\ ~Valid
  /\ todo' = Tail(todo)
  /\ UNCHANGED <<graph, config, next, pc, gone, filtered, configLock, building,
                 open, holds, built, failed, slips, builds, reconfigures, faults>>

(* An error: the placeholder keeps it, and the loop goes on.                *)
Fails(b) ==
  /\ building' = Nil
  /\ todo' = Tail(todo)
  /\ failed' = failed \cup ({b.old} \ {Nil})

(* processComponent and processService begin, with the placeholder read     *)
(* from the graph, and left the children markChildrenForUpdate will mark.   *)
Take(act, left) ==
  /\ building' = [name |-> r, cfg |-> graph.nodes[r].cfg, act |-> act, old |-> graph.nodes[r].real,
                  left |-> left, child |-> Nil, deps |-> Nil]
  /\ UNCHANGED <<graph, config, next, pc, gone, filtered, configLock, todo,
                 open, holds, built, failed, slips, builds, reconfigures, faults>>

(* old is nil: newResource or newService.                                   *)
BuildNew ==
  /\ Buildable /\ graph.nodes[r].real = Nil
  /\ Take("build", <<>>)

(* processService with an old one: ReconfigureResource, no children marked. *)
ReconfigureService ==
  /\ Buildable /\ r \in Services /\ graph.nodes[r].real # Nil
  /\ Take("reconfigure", <<>>)

(* config.None: the resource does not change.  (UpdateAction answers for    *)
(* the config the object has.)                                              *)
UnchangedComponent ==
  /\ Buildable /\ r \in Components /\ graph.nodes[r].real # Nil
  /\ "none" \in Actions /\ built[graph.nodes[r].real] = graph.nodes[r].cfg
  /\ Take("none", <<>>)

(* config.Reconfigure and config.Rebuild: markChildrenForUpdate takes the   *)
(* sub-graph of the resource, children first.                               *)
MarkNothing(g, name) == <<>>
ChildrenToMark(g, name) == TopologicalSort(SubGraphFrom(g, name))

UpdateComponent(act) ==
  /\ Buildable /\ r \in Components /\ graph.nodes[r].real # Nil
  /\ act \in Actions \ {"none"}
  /\ Take(act, ChildrenToMark(graph, r))

(* A child that is a placeholder is passed over.                            *)
Marking == building # Nil /\ building.left # <<>> /\ building.child = Nil
x == Head(building.left)

PassOver ==
  /\ Marking /\ IsWrap(graph, x)
  /\ building' = [building EXCEPT !.left = Tail(@)]
  /\ UNCHANGED <<graph, config, next, pc, gone, filtered, configLock, todo,
                 open, holds, built, failed, slips, builds, reconfigures, faults>>

(* Any other is closed, and gets a placeholder with the config that         *)
(* r.config has for it among the components.  It may have left the graph.   *)
EmptyConfig(n) == NoConfig
OriginalConfig(n) == IF n \in Components \cap DOMAIN config THEN config[n] ELSE NoConfig

ObjectsOf(g, ns) == {g.nodes[n] : n \in {m \in ns : IsObject(g, m)}}

CloseChild ==
  /\ Marking /\ ~IsWrap(graph, x)
  /\ open' = open \ ObjectsOf(graph, {x})
  /\ building' = [building EXCEPT !.child = Wrap(Nil, OriginalConfig(x))]
  /\ UNCHANGED <<graph, config, next, pc, gone, filtered, configLock, todo,
                 holds, built, failed, slips, builds, reconfigures, faults>>

MarkChild ==
  /\ building # Nil /\ building.child # Nil
  /\ graph' = addNode(graph, x, building.child)
  /\ building' = [building EXCEPT !.left = Tail(@), !.child = Nil]
  /\ UNCHANGED <<config, next, pc, gone, filtered, configLock, todo,
                 open, holds, built, failed, slips, builds, reconfigures, faults>>

(* Rebuild closes the old object, which is not in the graph, and            *)
(* getDependencies collects the objects of all parents, if all are          *)
(* available.  (Parents that go between GetAllParentsOf and ResourceByName  *)
(* are an error, and so the same as a removal just before.)                 *)
Available(g, name) == \A p \in getAllParentOf(g, name) : IsObject(g, p)
Dependencies(g, name) == ObjectsOf(g, getAllParentOf(g, name))

Marked == building # Nil /\ building.left = <<>> /\ building.deps = Nil /\ building.act # "none"

NoClose(b) == {}
ClosedFirst(b) == IF b.act = "rebuild" THEN {b.old} ELSE {}

getDependencies ==
  /\ Marked /\ Available(graph, r)
  /\ open' = open \ ClosedFirst(building)
  /\ building' = [building EXCEPT !.deps = Dependencies(graph, r)]
  /\ UNCHANGED <<graph, config, next, pc, gone, filtered, configLock, todo,
                 holds, built, failed, slips, builds, reconfigures, faults>>

DependencyNotReady ==
  /\ Marked /\ ~Available(graph, r)
  /\ open' = open \ ClosedFirst(building)
  /\ Fails(building)
  /\ UNCHANGED <<graph, config, next, pc, gone, filtered, configLock,
                 holds, built, slips, builds, reconfigures, faults>>

(* The old object goes back as it is.                                       *)
KeepComponent ==
  /\ building # Nil /\ building.act = "none"
  /\ graph' = addNode(graph, r, building.old)
  /\ todo' = Tail(todo)
  /\ building' = Nil
  /\ slips' = slips \cup {s \in {"kept after a failure"} : building.old \in failed}
  /\ UNCHANGED <<config, next, pc, gone, filtered, configLock,
                 open, holds, built, failed, builds, reconfigures, faults>>

(* The constructor returns: an object, which replaces the placeholder or    *)
(* reconfigures the old object, and AddNode.                                *)
Constructing == building # Nil /\ building.deps # Nil

ConstructorReturns ==
  LET b == building
      new == [of |-> b.name, no |-> builds[b.name] + 1]
      result == IF b.act = "reconfigure" THEN b.old ELSE new
  IN  /\ Constructing /\ builds[b.name] < MaxBuilds
      /\ graph' = addNode(graph, b.name, result)
      /\ open' = open \cup {result}
      /\ holds' = [holds EXCEPT ![result] = b.deps]
      /\ built' = [built EXCEPT ![result] = b.cfg]
      /\ builds' = IF result = new THEN [builds EXCEPT ![b.name] = @ + 1] ELSE builds
      /\ todo' = Tail(todo)
      /\ building' = Nil
      /\ failed' = failed \ {result}
      /\ slips' = slips \cup {s \in {"added while filtered"} :
                                result = new /\ pc = "filter" /\ b.name \in Nodes(filtered)}
      /\ UNCHANGED <<config, next, pc, gone, filtered, configLock, reconfigures, faults>>

(* It fails: the placeholder keeps its old object and gets an error.        *)
ServeOld(g, b) == IF b.old = Nil THEN g ELSE addNode(g, b.name, b.old)
KeepPlaceholder(g, b) == g

ConstructorFails ==
  /\ Constructing /\ faults < MaxFaults
  /\ graph' = KeepPlaceholder(graph, building)
  /\ faults' = faults + 1
  /\ Fails(building)
  /\ UNCHANGED <<config, next, pc, gone, filtered, configLock,
                 open, holds, built, slips, builds, reconfigures>>

(* Closing a child or the old object fails, which ends the update.          *)
CloseFails ==
  /\ \/ Marking /\ IsObject(graph, x)
     \/ Marked /\ building.act = "rebuild"
  /\ faults < MaxFaults
  /\ faults' = faults + 1
  /\ Fails(building)
  /\ UNCHANGED <<graph, config, next, pc, gone, filtered, configLock,
                 open, holds, built, slips, builds, reconfigures>>

ReconfigureSteps ==
  \/ FilterCopies
  \/ FilterRemoves
  \/ updateResources
  \/ CloseFiltered
  \/ ReconfigureCompletes

completeConfigSteps ==
  \/ completeConfigReturns
  \/ SkipResource
  \/ BuildNew
  \/ ReconfigureService
  \/ UnchangedComponent
  \/ \E act \in Actions : UpdateComponent(act)
  \/ PassOver
  \/ CloseChild
  \/ MarkChild
  \/ getDependencies
  \/ DependencyNotReady
  \/ KeepComponent
  \/ ConstructorReturns

Faulty ==
  \/ CloseFails
  \/ ConstructorFails

Next ==
  \/ \E new \in Configs : Reconfigure(new)
  \/ ReconfigureSteps
  \/ TickerCompletes
  \/ completeConfigSteps
  \/ Faulty

Spec == Init /\ [][Next]_vars

(* Weak fairness, with the enabling condition of each written out.          *)
CanReconfigure == pc \in {"filter", "close"} \/ (pc \in {"update", "complete"} /\ configLock = Nil)
CanTick == Ticker /\ configLock = Nil /\ anyResourcesNotConfigured(graph)
CanComplete == configLock # Nil /\ (Constructing => builds[building.name] < MaxBuilds)

FairSpec ==
  /\ Spec
  /\ <>[]CanReconfigure => []<><<ReconfigureSteps>>_vars
  /\ <>[]CanComplete => []<><<completeConfigSteps>>_vars
  /\ <>[]CanTick => []<><<TickerCompletes>>_vars

----------------------------------------------------------------------------
(* The values each variable ranges over.                                    *)
TypeOK ==
  /\ GraphTypeOK
  /\ {config, next} \subseteq Configs
  /\ pc \in {"idle", "filter", "update", "close", "complete"}
  /\ gone \in Seq(Configurable)
  /\ configLock \in Threads \cup {Nil}
  /\ todo \in Seq(Names)
  /\ building # Nil => /\ building.name = Head(todo)
                       /\ building.act = "reconfigure" => building.old \in Objects
                       /\ building.left \in Seq(Names)
                       /\ building.deps # Nil => building.deps \subseteq Objects
  /\ open \subseteq Objects
  /\ holds \in [Objects -> SUBSET Objects]
  /\ builds \in [Configurable -> 0..MaxBuilds]

(* No reconfiguration and no completeConfig is running.                     *)
Quiet == pc = "idle" /\ configLock = Nil

(* Served: what ResourceByName returns.                                     *)
Served(n) == IsObject(graph, n)

(* The child that markChildrenForUpdate has closed and is about to mark.    *)
JustClosed(n) == building # Nil /\ building.child # Nil /\ n = x

(* local_robot.go:745 "will safely reconfigure": a resource that is served  *)
(* is open, unless it is being marked right now.                            *)
NothingServedClosed ==
  \A n \in Nodes(graph) : Served(n) /\ ~JustClosed(n) => graph.nodes[n] \in open

(* The slips: FilterFromConfig takes out a resource that the ticker has     *)
(* read and will write ("removed at work"); the ticker adds a new object    *)
(* for a resource that FilterFromConfig has copied and not yet taken out    *)
(* ("added while filtered"); UpdateAction answers None for a resource whose *)
(* last change failed, perhaps after closing it ("kept after a failure").   *)
Without(S) == slips \cap S = {}

(* resource_manager.go:559-639: a served resource is never one that was     *)
(* closed, by a removal, a rebuild or as a child of a changed resource,     *)
(* however the ticker's steps fall between those of FilterFromConfig, but   *)
(* for a resource removed at work, or kept after a failure.                 *)
ServedIsOpen == Without({"removed at work", "kept after a failure"}) => NothingServedClosed

(* resource_manager.go:559-592, local_robot.go:538-549: between             *)
(* reconfigurations every served resource holds exactly the objects that    *)
(* are now under the names it depends on, and they are open: none was       *)
(* rebuilt or closed under it.                                              *)
DependenciesCurrent ==
  Quiet /\ Without({"removed at work", "kept after a failure"}) =>
    \A n \in Nodes(graph) : Served(n) =>
      /\ holds[graph.nodes[n]] \subseteq open
      /\ holds[graph.nodes[n]] = UNION {RealOf(graph.nodes[p]) : p \in getAllParentOf(graph, n)}

(* resource_manager.go:825-904: between reconfigurations nothing is left of *)
(* a resource that is not configured, but for nil nodes others depend on,   *)
(* unless it was removed at work.                                           *)
Unconfigured == {n \in Nodes(graph) : graph.nodes[n] # Nil} \ DOMAIN config
NothingUnconfigured == Quiet /\ Without({"removed at work"}) => Unconfigured = {}

(* resource_manager.go:644-707: through any sequence of configurations, and *)
(* however dependencies come and go as unknown names, the parents of a      *)
(* resource are the dependencies its configuration gives it.                *)
EdgesMatchConfig ==
  Quiet /\ Without({"removed at work"}) =>
    \A n \in Nodes(graph) \cap Configurable : graph.nodes[n] # Nil =>
      {d \in Configurable : {d, unk[d]} \cap getAllParentOf(graph, n) # {}} = config[n].deps

(* resource_manager.go:340-357, 581, 628: no object stays open that the     *)
(* graph does not hold: whatever is replaced or removed is closed, unless   *)
(* it was added while filtered.                                             *)
Leaked == open \ UNION {RealOf(graph.nodes[n]) : n \in Nodes(graph)}
NothingLeaked == Quiet /\ Without({"added while filtered"}) => Leaked = {}

(* Without their exceptions the two are not so: a resource that is gone     *)
(* from the configuration comes back, and an open object is in no graph.    *)
RemovedStaysRemoved == Quiet => Unconfigured = {}
RemovedIsClosed == Quiet => Leaked = {}

(* config/resource.go:24-25 "all dependencies will be destroyed and         *)
(* recreated": if nothing failed, no resource is left a placeholder, closed *)
(* or never built, when all it depends on is served.                        *)
RecreatedIn(S) ==
  Quiet /\ faults = 0 /\ Without({"removed at work"}) =>
    \A n \in S : IsWrap(graph, n) => ~Available(graph, n)

(* It does so for components,                                               *)
ComponentsRecreated == RecreatedIn(Components)

(* but not for services.                                                    *)
AllRecreated == RecreatedIn(Configurable)

(* resource_manager.go:711 "we should have a complete graph representation  *)
(* of the configuration": a configured resource whose dependencies are all  *)
(* configured is a node of the graph and not nil.                           *)
GraphIsComplete ==
  Quiet => \A n \in DOMAIN config :
             config[n].deps \subseteq DOMAIN config => n \in Nodes(graph) /\ graph.nodes[n] # Nil

(* local_robot.go:442-462: the ticker completes a component that could not  *)
(* be built, unless something it depends on has no configuration.           *)
Unbuildable(m) == graph.nodes[m] = Nil \/ (IsWrap(graph, m) /\ graph.nodes[m].cfg = NoConfig)

Blocked(n) == \E m \in Nodes(graph) : isNodeDependingOn(graph, m, n) /\ Unbuildable(m)

ComponentsEventuallyBuilt ==
  \A n \in Components : IsWrap(graph, n) ~> (~IsWrap(graph, n) \/ Blocked(n))
=============================================================================
