------------------------------ MODULE MCRobot ------------------------------
(***************************************************************************)
(* A robot for TLC: its components with the 25s ticker ("ticker"), its     *)
(* components and a service without it ("services"), or its operations.  A *)
(* behaviour runs one of them, its focus, and the others rest.             *)
(***************************************************************************)
EXTENDS MCResourceManager, OperationManager

VARIABLE focus

robot == <<focus, vars, opsVars>>

RobotInit ==
  focus \in {"ticker", "services", "operations"} /\ Init /\ OpsInit

\* The versions of a resource are interchangeable: the first one is version 1.
FirstIsOne == reconfigures' = 1 => \A n \in DOMAIN next' : next'[n].ver = 1

\* Bounds: beside the ticker no service, and no fault after the last
\* reconfiguration; beside the service no ticker, a b that always depends on a,
\* and a fault costs a reconfiguration.
OnTicker   == /\ FirstIsOne /\ DOMAIN next' \subseteq Components
              /\ faults' # faults => reconfigures < MaxReconfigure
              /\ UNCHANGED <<focus, opsVars>>
OnServices == /\ FirstIsOne /\ configLock' # "ticker"
              /\ "b" \in DOMAIN next' => next'["b"].deps = {"a"}
              /\ reconfigures' + faults' <= MaxReconfigure
              /\ UNCHANGED <<focus, opsVars>>
OnOps      == focus = "operations" /\ UNCHANGED <<focus, vars>>

RobotNext ==
  \/ focus = "ticker" /\ Next /\ OnTicker
  \/ focus = "services" /\ Next /\ OnServices
  \/ OnOps /\ OpsNext

\* The steps that are fair, known by what they change, which spares TLC the work
\* on the graph.  A fault is a step of completeConfig here; there are finitely many.
MainMoves    == /\ pc # "idle" /\ configLock # "main"
                /\ configLock' = "main" \/ <<pc, gone>>' # <<pc, gone>>
BuilderMoves == configLock # Nil /\ <<configLock, todo, building>>' # <<configLock, todo, building>>
TickerMoves  == configLock = Nil /\ configLock' = "ticker"

\* The fairness of ResourceManager (its FairSpec) and of OperationManager.
RobotSpec ==
  /\ RobotInit /\ [][RobotNext]_robot
  /\ <>[](focus = "ticker" /\ CanReconfigure) => []<><<MainMoves>>_robot
  /\ <>[](focus = "ticker" /\ CanComplete) => []<><<BuilderMoves>>_robot
  /\ <>[](focus = "ticker" /\ CanTick) => []<><<TickerMoves>>_robot
  /\ \A q \in Requests : WF_robot(OnOps /\ Run(q))
  /\ \A w \in Waiters : WF_robot(OnOps /\ BlockReturns(w))

-----------------------------------------------------------------------------
(* Properties made up of those of the modules.                             *)

\* Between reconfigurations the graph and what is open follow the configuration
\* (resource_manager.go:644-707, 825-904), but for a resource that
\* FilterFromConfig took out or copied while the ticker was at work on it.
ConfigIsFollowed ==
  NothingUnconfigured /\ EdgesMatchConfig /\ NothingLeaked

\* The ticker completes what could not be built at first.
ComponentsBuilt == focus = "ticker" => ComponentsEventuallyBuilt
=============================================================================
