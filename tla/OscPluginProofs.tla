--------------------------- MODULE OscPluginProofs ---------------------------
(***************************************************************************)
(* What TLAPS proves of the settings, for any number of ports and targets, *)
(* any number of calls, and other processes that take ports at any time.   *)
(***************************************************************************)
EXTENDS OscPlugin, TLAPS

Querying == {"query_stop", "query_start"}

Changing == {"udp_stop", "udp_new", "udp_old"}

PcStates ==
    {"unloaded", "load", "idle", "query_step", "feedback_step"} \cup Querying \cup Changing

Callers == {"load", "osc_apply_port", "osc_apply_settings", "rollback"}

ConfigTypes ==
    /\ config \in Configs /\ next \in Configs /\ old \in Configs
    /\ file \in Files \cup {NoFile}

PortTypes == udp \in 0..MaxPort /\ http \in 0..MaxPort

ControlTypes ==
    /\ pc \in PcStates
    /\ caller \in Callers \cup {"none"}
    /\ pc \in Querying => caller # "none"

HistoryTypes ==
    /\ before \in [config : Configs, udp : 0..MaxPort, http : 0..MaxPort]
    /\ foreign \in [Protocols -> SUBSET (1..MaxPort)]

Types == ConfigTypes /\ PortTypes /\ ControlTypes /\ HistoryTypes

\* An HTTP server at this port is the one that the configuration asks for.
Serves(c, port) ==
    port # 0 => c.query_enabled /\ (HttpPort(c) <= MaxPort => port = HttpPort(c))

\* RunsAsConfigured, at every step of a call.
Running ==
    /\ udp \in {0, config.port}
    /\ pc \in {"unloaded", "load", "udp_new", "udp_old"} => udp = 0
    /\ pc \notin {"unloaded", "load"} => udp_target = config.target
    /\ pc \in {"unloaded", "load", "query_start"} => http = 0
    /\ pc = "query_start" => config.query_enabled
    /\ pc # "query_stop" => Serves(config, http)
    /\ pc # "query_stop" /\ http # 0 /\ config.query_port = 0 => announced = config.port
    /\ pc = "unloaded" => ~hooked

-----------------------------------------------------------------------------
\* A port of 16 bits is bound as it is, or not at all; one that is too large
\* is the kernel's choice.
LEMMA BindMeans ==
  ASSUME NEW protocol, NEW port \in 1..MaxPort + 1, NEW bound, Bind(protocol, port, bound)
  PROVE  /\ bound \in 0..MaxPort
         /\ bound # 0 => bound \notin foreign[protocol]
         /\ bound # 0 /\ port <= MaxPort => bound = port
         /\ bound = 0 /\ port <= MaxPort => port \in foreign[protocol]
         /\ bound = 0 /\ port > MaxPort => 1..MaxPort \subseteq foreign[protocol]
<1>1. MaxPort \in Nat \ {0}
  BY PortsAssumption
<1>2. CASE port = MaxPort + 1
  <2>1. port % (MaxPort + 1) = 0
    BY <1>1, <1>2
  <2> QED
    BY <1>1, <1>2, <2>1 DEF Bind, Bound
<1>3. CASE port \in 1..MaxPort
  <2>1. port % (MaxPort + 1) = port
    BY <1>1, <1>3
  <2> QED
    BY <1>1, <1>3, <2>1 DEF Bind, Bound
<1> QED
  BY <1>1, <1>2, <1>3

LEMMA HttpPortRange ==
  ASSUME NEW c \in Configs
  PROVE  /\ HttpPort(c) \in 1..MaxPort + 1
         /\ c.port \in 1..MaxPort + 1 /\ c.port <= MaxPort
BY PortsAssumption DEF Configs, HttpPort

LEMMA DefaultIsConfig == Default \in Configs
BY PortsAssumption, TargetsAssumption DEF Default, Configs

LEMMA ClampIsConfig ==
  ASSUME NEW f \in Files
  PROVE  Clamp(f) \in Configs
<1>1. ASSUME NEW P, NEW Q, NEW p \in 1..MaxPort, NEW q \in 0..MaxPort,
             f \in [port : P, target : Targets, query_enabled : BOOLEAN, query_port : Q]
      PROVE  [f EXCEPT !.port = p, !.query_port = q] \in Configs
  BY <1>1 DEF Configs
<1>2. /\ (IF f.port \in 1..MaxPort THEN f.port ELSE DefaultPort) \in 1..MaxPort
      /\ (IF f.query_port \in 0..MaxPort THEN f.query_port ELSE 0) \in 0..MaxPort
  BY PortsAssumption
<1> QED
  BY <1>1, <1>2 DEF Clamp, Files

-----------------------------------------------------------------------------
LEMMA RunningInit == Init => Types /\ Running
<1> SUFFICES ASSUME Init PROVE Types /\ Running
  OBVIOUS
<1>1. before \in [config : Configs, udp : 0..MaxPort, http : 0..MaxPort]
  BY DefaultIsConfig, PortsAssumption DEF Init
<1>2. foreign \in [Protocols -> SUBSET (1..MaxPort)]
  BY DEF Init
<1>3. Types
  BY <1>1, <1>2, DefaultIsConfig, PortsAssumption
     DEF Init, Types, ConfigTypes, PortTypes, ControlTypes, HistoryTypes,
         PcStates, Querying, Changing, Callers
<1>4. Running
  BY DEF Init, Running, Serves
<1> QED
  BY <1>3, <1>4

-----------------------------------------------------------------------------
\* What comes of a restart, by its caller.
RolledBack == [config EXCEPT !.query_port = old.query_port, !.query_enabled = old.query_enabled]

Outcome(ok) ==
    \/ caller = "load" /\ pc' = "idle" /\ config' = config /\ result' = result
    \/ caller = "osc_apply_port" /\ pc' = "query_step" /\ config' = config /\ result' = result
    \/ caller = "osc_apply_settings" /\ ok /\ pc' = "feedback_step" /\ config' = config
       /\ result' = result
    \/ caller = "osc_apply_settings" /\ ~ok /\ pc' = "query_stop" /\ config' = RolledBack
       /\ result' = result
    \/ caller = "rollback" /\ pc' = "idle" /\ config' = config
       /\ result' = "query_port_failed"

LEMMA ReturnedOutcome ==
  ASSUME NEW ok \in BOOLEAN, caller \in Callers, Returned(ok)
  PROVE  Outcome(ok)
BY DEF Callers, Returned, RollsBack, Outcome, RolledBack

LEMMA RolledBackIsConfig ==
  ASSUME ConfigTypes
  PROVE  RolledBack \in Configs
BY DEF ConfigTypes, Configs, RolledBack

\* Both steps of a restart, one way or the other.
LEMMA QueryStopOutcome ==
  ASSUME Types, QueryStop
  PROVE  /\ http' = 0 /\ udp' = udp /\ announced' = announced
         /\ \/ config.query_enabled /\ pc' = "query_start" /\ config' = config
               /\ result' = result /\ caller' = caller
            \/ ~config.query_enabled /\ Outcome(TRUE) /\ caller' = caller
<1>1. caller \in Callers
  BY DEF QueryStop, Types, ControlTypes, Querying
<1> QED
  BY <1>1, ReturnedOutcome DEF QueryStop, RollsBack, NextCaller

LEMMA QueryStartOutcome ==
  ASSUME Types, QueryStart
  PROVE  /\ udp' = udp /\ announced' = config.port /\ Bind("tcp", HttpPort(config), http')
         /\ Outcome(http' # 0)
         /\ caller' = IF caller = "osc_apply_settings" /\ http' = 0 THEN "rollback" ELSE caller
<1>1. caller \in Callers
  BY DEF QueryStart, Types, ControlTypes, Querying
<1> QED
  BY <1>1, ReturnedOutcome DEF QueryStart, RollsBack, NextCaller

LEMMA TypesStep ==
  ASSUME Types, [Next]_vars
  PROVE  Types'
<1> USE DEF Types
<1>1. CASE Load
  <2>1. ConfigTypes'
    BY <1>1, ClampIsConfig DEF ConfigTypes, ControlTypes, Load
  <2>2. PortTypes'
    BY <1>1, PortsAssumption DEF PortTypes, Load, servers
  <2>3. ControlTypes'
    BY <1>1 DEF ControlTypes, Load, PcStates, Querying, Changing, Callers
  <2>4. HistoryTypes'
    BY <1>1 DEF HistoryTypes, Load, history
  <2> QED
    BY <2>1, <2>2, <2>3, <2>4
<1>2. CASE LoadUdp
  <2>1. ConfigTypes'
    BY <1>2 DEF ConfigTypes, ControlTypes, LoadUdp
  <2>2. PortTypes'
    BY <1>2, HttpPortRange, BindMeans DEF PortTypes, ConfigTypes, LoadUdp
  <2>3. ControlTypes'
    BY <1>2 DEF ControlTypes, LoadUdp, PcStates, Querying, Changing, Callers
  <2>4. HistoryTypes'
    BY <1>2 DEF HistoryTypes, LoadUdp, history
  <2> QED
    BY <2>1, <2>2, <2>3, <2>4
<1>3. CASE QueryStop
  <2>1. ConfigTypes'
    BY <1>3, QueryStopOutcome, RolledBackIsConfig DEF ConfigTypes, QueryStop, Outcome
  <2>2. PortTypes'
    BY <1>3, PortsAssumption DEF PortTypes, QueryStop, servers
  <2>3. ControlTypes'
    BY <1>3, QueryStopOutcome
       DEF ControlTypes, QueryStop, Outcome, PcStates, Querying, Changing, Callers
  <2>4. HistoryTypes'
    BY <1>3 DEF HistoryTypes, QueryStop, history
  <2> QED
    BY <2>1, <2>2, <2>3, <2>4
<1>4. CASE QueryStart
  <2>1. ConfigTypes'
    BY <1>4, QueryStartOutcome, RolledBackIsConfig DEF ConfigTypes, QueryStart, Outcome
  <2>2. PortTypes'
    BY <1>4, HttpPortRange, BindMeans DEF PortTypes, ConfigTypes, QueryStart
  <2>3. ControlTypes'
    BY <1>4, QueryStartOutcome
       DEF ControlTypes, QueryStart, Outcome, PcStates, Querying, Changing, Callers
  <2>4. HistoryTypes'
    BY <1>4 DEF HistoryTypes, QueryStart, history
  <2> QED
    BY <2>1, <2>2, <2>3, <2>4
<1>5. CASE UdpStop
  <2>1. ConfigTypes'
    BY <1>5 DEF ConfigTypes, ControlTypes, UdpStop
  <2>2. PortTypes'
    BY <1>5, PortsAssumption DEF PortTypes, UdpStop, servers
  <2>3. ControlTypes'
    BY <1>5 DEF ControlTypes, UdpStop, PcStates, Querying, Changing, Callers
  <2>4. HistoryTypes'
    BY <1>5 DEF HistoryTypes, UdpStop, history
  <2> QED
    BY <2>1, <2>2, <2>3, <2>4
<1>6. CASE UdpNew
  <2>1. ConfigTypes'
    BY <1>6 DEF ConfigTypes, ControlTypes, UdpNew, Configs
  <2>2. PortTypes'
    BY <1>6, HttpPortRange, BindMeans DEF PortTypes, ConfigTypes, UdpNew
  <2>3. ControlTypes'
    BY <1>6 DEF ControlTypes, UdpNew, PcStates, Querying, Changing, Callers
  <2>4. HistoryTypes'
    BY <1>6 DEF HistoryTypes, UdpNew, history
  <2> QED
    BY <2>1, <2>2, <2>3, <2>4
<1>7. CASE UdpOld
  <2>1. ConfigTypes'
    BY <1>7 DEF ConfigTypes, ControlTypes, UdpOld
  <2>2. PortTypes'
    BY <1>7, HttpPortRange, BindMeans DEF PortTypes, ConfigTypes, UdpOld
  <2>3. ControlTypes'
    BY <1>7 DEF ControlTypes, UdpOld, PcStates, Querying, Changing, Callers
  <2>4. HistoryTypes'
    BY <1>7 DEF HistoryTypes, UdpOld, history
  <2> QED
    BY <2>1, <2>2, <2>3, <2>4
<1>8. CASE QueryStep
  <2>1. ConfigTypes'
    BY <1>8 DEF ConfigTypes, ControlTypes, QueryStep, Configs
  <2>2. PortTypes'
    BY <1>8, PortsAssumption DEF PortTypes, QueryStep, servers
  <2>3. ControlTypes'
    BY <1>8 DEF ControlTypes, QueryStep, PcStates, Querying, Changing, Callers
  <2>4. HistoryTypes'
    BY <1>8 DEF HistoryTypes, QueryStep, history
  <2> QED
    BY <2>1, <2>2, <2>3, <2>4
<1>9. CASE FeedbackStep
  <2>1. ConfigTypes'
    BY <1>9 DEF ConfigTypes, ControlTypes, FeedbackStep, Configs, Files
  <2>2. PortTypes'
    BY <1>9, PortsAssumption DEF PortTypes, FeedbackStep, servers
  <2>3. ControlTypes'
    BY <1>9 DEF ControlTypes, FeedbackStep, PcStates, Querying, Changing, Callers
  <2>4. HistoryTypes'
    BY <1>9 DEF HistoryTypes, FeedbackStep, history
  <2> QED
    BY <2>1, <2>2, <2>3, <2>4
<1>10. CASE Unload
  <2>1. ConfigTypes'
    BY <1>10, DefaultIsConfig, PortsAssumption DEF ConfigTypes, ControlTypes, Unload, Configs, Files
  <2>2. PortTypes'
    BY <1>10, PortsAssumption DEF PortTypes, Unload, servers
  <2>3. ControlTypes'
    BY <1>10 DEF ControlTypes, Unload, PcStates, Querying, Changing, Callers
  <2>4. HistoryTypes'
    BY <1>10 DEF HistoryTypes, Unload, history
  <2> QED
    BY <2>1, <2>2, <2>3, <2>4
<1>11. CASE Crash
  <2>1. ConfigTypes'
    BY <1>11, DefaultIsConfig DEF ConfigTypes, ControlTypes, Crash
  <2>2. PortTypes'
    BY <1>11, PortsAssumption DEF PortTypes, Crash, servers
  <2>3. ControlTypes'
    BY <1>11 DEF ControlTypes, Crash, PcStates, Querying, Changing, Callers
  <2>4. HistoryTypes'
    BY <1>11 DEF HistoryTypes, Crash, history
  <2> QED
    BY <2>1, <2>2, <2>3, <2>4
<1>12. ASSUME NEW c \in Configs, Apply(c)
      PROVE  Types'
  <2>1. ConfigTypes' /\ PortTypes'
    BY <1>12 DEF ConfigTypes, PortTypes, Apply, servers
  <2>2. ControlTypes'
    BY <1>12 DEF ControlTypes, Apply, PcStates, Querying, Changing, Callers
  <2>3. HistoryTypes'
    BY <1>12 DEF ConfigTypes, PortTypes, HistoryTypes, Apply
  <2> QED
    BY <2>1, <2>2, <2>3
<1>13. ASSUME NEW protocol \in Protocols, NEW port \in 1..MaxPort,
             ForeignBind(protocol, port) \/ ForeignClose(protocol, port)
      PROVE  Types'
  <2>1. ConfigTypes' /\ PortTypes' /\ ControlTypes'
    BY <1>13 DEF ConfigTypes, PortTypes, ControlTypes, ForeignBind, ForeignClose, servers, call
  <2>2. HistoryTypes'
    BY <1>13 DEF HistoryTypes, ForeignBind, ForeignClose
  <2> QED
    BY <2>1, <2>2
<1>14. CASE UNCHANGED vars
  BY <1>14 DEF vars, servers, call, history, ConfigTypes, PortTypes, ControlTypes, HistoryTypes
<1> QED
  BY <1>1, <1>2, <1>3, <1>4, <1>5, <1>6, <1>7, <1>8, <1>9, <1>10, <1>11, <1>12, <1>13, <1>14 DEF Next

-----------------------------------------------------------------------------
\* What serves one configuration serves another that agrees on these fields.
LEMMA ServesSame ==
  ASSUME NEW c \in Configs, NEW d \in Configs, NEW port,
         c.query_enabled = d.query_enabled, c.query_port = d.query_port,
         c.port = d.port \/ c.query_port > 0,
         Serves(c, port)
  PROVE  Serves(d, port)
BY DEF Serves, HttpPort, Configs

LEMMA RunningStep ==
  ASSUME Types, Types', Running, [Next]_vars
  PROVE  Running'
<1>0. config \in Configs /\ next \in Configs /\ old \in Configs /\ config' \in Configs
  BY DEF Types, ConfigTypes
<1>1. CASE Load
  BY <1>1 DEF Load, Running, Serves, servers
<1>2. CASE LoadUdp
  BY <1>0, <1>2, HttpPortRange, BindMeans DEF LoadUdp, Running, Serves
<1>3. CASE QueryStop
  <2>1. config'.port = config.port /\ config'.target = config.target
    BY <1>3, <1>0, QueryStopOutcome DEF Outcome
  <2> QED
    BY <1>3, <2>1, QueryStopOutcome DEF QueryStop, Outcome, Running, Serves
<1>4. CASE QueryStart
  <2>1. config'.port = config.port /\ config'.target = config.target
    BY <1>4, <1>0, QueryStartOutcome DEF Outcome, RolledBack, Configs
  <2>2. http' # 0 => config' = config
    BY <1>4, QueryStartOutcome DEF Outcome
  <2>3. Serves(config, http')
    BY <1>0, <1>4, HttpPortRange, BindMeans, QueryStartOutcome, ZenonT(40) DEF QueryStart, Running, Serves
  <2>4. Serves(config', http')
    BY <2>2, <2>3 DEF Serves
  <2>5. http' # 0 => announced' = config'.port
    BY <1>4, <2>2, QueryStartOutcome
  <2>6. /\ udp' = udp /\ udp_target' = udp_target
        /\ pc' \in {"idle", "query_step", "feedback_step", "query_stop"}
    BY <1>4, QueryStartOutcome DEF QueryStart, Outcome
  <2> QED
    BY <1>4, <2>1, <2>4, <2>5, <2>6 DEF QueryStart, Running
<1>5. CASE UdpStop
  BY <1>5 DEF UdpStop, Running, Serves
<1>6. CASE UdpNew
  <2>1. udp' # 0 => udp' = next.port
    BY <1>0, <1>6, HttpPortRange, BindMeans DEF UdpNew
  <2>2. /\ config'.target = config.target /\ config'.query_port = config.query_port
        /\ config'.query_enabled = config.query_enabled
        /\ config'.port = IF udp' # 0 THEN next.port ELSE config.port
    BY <1>0, <1>6 DEF UdpNew, Configs
  <2>3. pc' # "query_stop" => Serves(config', http)
    <3>1. CASE udp' = 0
      BY <1>6, <3>1 DEF UdpNew, Running
    <3>2. CASE udp' # 0 /\ pc' # "query_stop"
      BY <1>0, <1>6, <2>2, <3>2 DEF UdpNew, Running, DerivesHttpPort, Serves, HttpPort, Configs
    <3> QED
      BY <3>1, <3>2
  <2>4. pc' # "query_stop" /\ http # 0 /\ config'.query_port = 0 => announced = config'.port
    BY <1>0, <1>6, <2>2 DEF UdpNew, Running, DerivesHttpPort, Serves
  <2> QED
    BY <1>6, <2>1, <2>2, <2>3, <2>4 DEF UdpNew, Running
<1>7. CASE UdpOld
  BY <1>0, <1>7, HttpPortRange, BindMeans DEF UdpOld, Running, Serves
<1>8. CASE QueryStep
  <2>1. config'.port = config.port /\ config'.target = config.target
    BY <1>0, <1>8 DEF QueryStep, Configs
  <2> QED
    BY <1>8, <2>1 DEF QueryStep, Running, Serves, servers
<1>9. CASE FeedbackStep
  <2>1. /\ config'.port = config.port /\ config'.target = next.target
        /\ config'.query_port = config.query_port /\ config'.query_enabled = config.query_enabled
    BY <1>0, <1>9 DEF FeedbackStep, Configs
  <2>2. Serves(config', http)
    BY <1>0, <1>9, <2>1 DEF FeedbackStep, Running, Serves, HttpPort
  <2> QED
    BY <1>9, <2>1, <2>2 DEF FeedbackStep, Running, servers
<1>10. CASE Unload
  BY <1>10 DEF Unload, Running, Serves
<1>11. CASE Crash
  BY <1>11 DEF Crash, Running, Serves
<1>12. ASSUME NEW c \in Configs, Apply(c)
      PROVE  Running'
  BY <1>12 DEF Apply, Running, Serves, servers
<1>13. ASSUME NEW protocol \in Protocols, NEW port \in 1..MaxPort,
             ForeignBind(protocol, port) \/ ForeignClose(protocol, port)
      PROVE  Running'
  BY <1>13 DEF ForeignBind, ForeignClose, Running, Serves, servers, call
<1>14. CASE UNCHANGED vars
  BY <1>14 DEF vars, servers, call, history, Running, Serves
<1> QED
  BY <1>1, <1>2, <1>3, <1>4, <1>5, <1>6, <1>7, <1>8, <1>9, <1>10, <1>11, <1>12, <1>13, <1>14 DEF Next

\* At every moment each server is where the configuration says or down, also
\* after any number of failed steps, rollbacks and crashes.
THEOREM RunningAlways == Spec => [](Types /\ Running)
<1>1. Types /\ Running /\ [Next]_vars => Types' /\ Running'
  BY TypesStep, RunningStep
<1> QED
  BY <1>1, RunningInit, PTL DEF Spec

\* When the UI thread is done, what runs is what is configured, for any
\* ports, and whatever other processes take in between.
THEOREM RunsAsConfiguredAlways == Spec => []RunsAsConfigured
<1>1. Types /\ Running => RunsAsConfigured
  BY DEF Running, Serves, RunsAsConfigured
<1> QED
  BY <1>1, RunningAlways, PTL

-----------------------------------------------------------------------------
(***************************************************************************)
(* What an apply has done so far, step by step, against what there was     *)
(* before it: the UDP step, the query step with its restart and rollback,  *)
(* the feedback step.                                                      *)
(***************************************************************************)
SameQuery(c, d) == c.query_port = d.query_port /\ c.query_enabled = d.query_enabled

Restarting(who) == pc \in Querying /\ caller = who

AfterUdp == pc \in {"query_step", "feedback_step"} \/ (pc \in Querying /\ caller # "load")

Progress ==
    /\ pc # "idle" => result = "none"
    /\ before.udp \in {0, before.config.port}
    /\ Serves(before.config, before.http)
    /\ pc \in Changing => config = before.config /\ http = before.http /\ next.port # config.port
    /\ AfterUdp => config.port = next.port /\ config.target = before.config.target
    /\ pc = "query_step" \/ Restarting("osc_apply_port") \/ Restarting("rollback")
          => SameQuery(config, before.config)
    /\ pc = "feedback_step" \/ Restarting("osc_apply_settings") => SameQuery(config, next)
    /\ Restarting("osc_apply_settings") => SameQuery(old, before.config)
    /\ Restarting("osc_apply_settings") \/ Restarting("rollback")
          => ~SameQuery(next, before.config)
    /\ Restarting("osc_apply_port")
          => before.config.query_port = 0 /\ next.port # before.config.port

LEMMA ProgressInit == Init => Progress
BY DEF Init, Progress, Serves, Changing, AfterUdp, Restarting, Querying

LEMMA ProgressStep ==
  ASSUME Types, Types', Running, Progress, [Next]_vars
  PROVE  Progress'
<1>0. /\ config \in Configs /\ next \in Configs /\ old \in Configs /\ config' \in Configs
      /\ before.config \in Configs
  BY DEF Types, ConfigTypes, HistoryTypes
<1> USE DEF Changing, AfterUdp, Restarting, Querying
<1>1. CASE Load
  BY <1>1 DEF Load, Progress, Serves, history
<1>2. CASE LoadUdp
  BY <1>2 DEF LoadUdp, Progress, Serves, history
<1>3. CASE QueryStop
  <2>1. /\ before' = before /\ next' = next /\ old' = old
    BY <1>3 DEF QueryStop, history
  <2>2. CASE pc' = "query_start" /\ config' = config /\ result' = result /\ caller' = caller
    BY <1>3, <2>1, <2>2 DEF QueryStop, Progress, Serves
  <2>3. CASE Outcome(TRUE) /\ caller' = caller
    BY <1>3, <2>1, <2>3 DEF QueryStop, Outcome, Progress, Serves
  <2> QED
    BY <1>3, <2>2, <2>3, QueryStopOutcome
<1>4. CASE QueryStart
  <2>1. /\ before' = before /\ next' = next /\ old' = old
    BY <1>4 DEF QueryStart, history
  <2>2. CASE config' = RolledBack /\ caller = "osc_apply_settings" /\ caller' = "rollback"
             /\ pc' = "query_stop" /\ result' = result
    <3>1. /\ config'.port = config.port /\ config'.target = config.target
          /\ SameQuery(config', old)
      BY <1>0, <2>2 DEF RolledBack, SameQuery, Configs
    <3> QED
      BY <1>4, <2>1, <2>2, <3>1 DEF QueryStart, Progress, Serves, SameQuery
  <2>3. CASE config' = config /\ Outcome(http' # 0) /\ pc' # "query_stop"
    BY <1>4, <2>1, <2>3 DEF QueryStart, Outcome, Progress, Serves
  <2> QED
    BY <1>4, <2>2, <2>3, QueryStartOutcome DEF Outcome
<1>5. CASE UdpStop
  BY <1>5 DEF UdpStop, Progress, Serves, history
<1>6. CASE UdpNew
  <2>1. /\ config'.target = config.target /\ SameQuery(config', config)
        /\ udp' # 0 => config'.port = next.port
        /\ udp' = 0 => config' = config
    BY <1>0, <1>6 DEF UdpNew, Configs, SameQuery
  <2>2. caller' = caller \/ (caller' = "osc_apply_port" /\ config.query_port = 0)
    BY <1>6 DEF UdpNew, DerivesHttpPort
  <2>3. /\ before' = before /\ next' = next /\ old' = old /\ http' = http /\ result' = result
    BY <1>6 DEF UdpNew, history
  <2>4. \/ pc' = "udp_old" /\ udp' = 0
        \/ pc' = "query_stop" /\ udp' # 0 /\ caller' = "osc_apply_port" /\ config.query_port = 0
        \/ pc' = "query_step" /\ udp' # 0
    BY <1>6 DEF UdpNew, DerivesHttpPort
  <2> QED
    BY <1>6, <2>1, <2>3, <2>4 DEF UdpNew, Progress, Serves, SameQuery
<1>7. CASE UdpOld
  BY <1>7 DEF UdpOld, Progress, Serves, history
<1>8. CASE QueryStep
  <2>1. CASE QueryDiffers(next, config)
    <3>1. /\ config'.port = config.port /\ config'.target = config.target
          /\ SameQuery(config', next) /\ old' = config /\ ~SameQuery(next, config)
      BY <1>0, <1>8, <2>1 DEF QueryStep, QueryDiffers, SameQuery, Configs
    <3> QED
      BY <1>8, <2>1, <3>1 DEF QueryStep, Progress, Serves, SameQuery, history
  <2>2. CASE ~QueryDiffers(next, config)
    BY <1>8, <2>2 DEF QueryStep, QueryDiffers, SameQuery, Progress, Serves, history
  <2> QED
    BY <2>1, <2>2
<1>9. CASE FeedbackStep
  BY <1>9 DEF FeedbackStep, Progress, Serves, history
<1>10. CASE Unload
  BY <1>10 DEF Unload, Progress, Serves, history
<1>11. CASE Crash
  BY <1>11 DEF Crash, Progress, Serves, history
<1>12. ASSUME NEW c \in Configs, Apply(c)
      PROVE  Progress'
  <2>1. before' = [config |-> config, udp |-> udp, http |-> http]
    BY <1>12 DEF Apply
  <2>2. before'.udp \in {0, before'.config.port} /\ Serves(before'.config, before'.http)
    BY <1>12, <2>1 DEF Apply, Running
  <2>3. SameQuery(config, before'.config)
    BY <2>1 DEF SameQuery
  <2> QED
    BY <1>12, <2>1, <2>2, <2>3 DEF Apply, Progress, Serves, SameQuery, servers
<1>13. ASSUME NEW protocol \in Protocols, NEW port \in 1..MaxPort,
             ForeignBind(protocol, port) \/ ForeignClose(protocol, port)
      PROVE  Progress'
  BY <1>13 DEF ForeignBind, ForeignClose, Progress, Serves, SameQuery, servers, call
<1>14. CASE UNCHANGED vars
  BY <1>14 DEF vars, servers, call, history, Progress, Serves, SameQuery
<1> QED
  BY <1>1, <1>2, <1>3, <1>4, <1>5, <1>6, <1>7, <1>8, <1>9, <1>10, <1>11, <1>12, <1>13, <1>14 DEF Next

-----------------------------------------------------------------------------
(***************************************************************************)
(* What other processes cannot have taken: a port that is bound, and,      *)
(* since nobody has moved, one that was bound when the apply began.        *)
(***************************************************************************)
Undisturbed ==
    /\ calm \in BOOLEAN
    /\ udp # 0 => udp \notin foreign["udp"]
    /\ http # 0 => http \notin foreign["tcp"]
    /\ calm /\ before.udp # 0 => before.udp \notin foreign["udp"]
    /\ calm /\ before.http # 0 => before.http \notin foreign["tcp"]
    /\ calm /\ AfterUdp /\ (before.udp # 0 \/ next.port # before.config.port) => udp = next.port
    /\ calm /\ pc = "feedback_step" /\ next.query_enabled /\ ~SameQuery(next, before.config)
          => http # 0

LEMMA UndisturbedInit == Init => Undisturbed
BY DEF Init, Undisturbed

LEMMA UndisturbedStep ==
  ASSUME Types, Types', Running, Progress, Progress', Undisturbed, [Next]_vars
  PROVE  Undisturbed'
<1>0. /\ config \in Configs /\ next \in Configs /\ before.config \in Configs
      /\ foreign \in [Protocols -> SUBSET (1..MaxPort)] /\ Protocols = {"udp", "tcp"}
  BY DEF Types, ConfigTypes, HistoryTypes, Protocols
<1> USE DEF AfterUdp, Querying
<1>1. CASE Load
  BY <1>1 DEF Load, Undisturbed, servers, history
<1>2. CASE LoadUdp
  BY <1>0, <1>2, HttpPortRange, BindMeans DEF LoadUdp, Undisturbed, history
<1>3. CASE QueryStop
  <2>1. /\ before' = before /\ next' = next /\ foreign' = foreign /\ calm' = calm
    BY <1>3 DEF QueryStop, history
  <2>2. pc' = "feedback_step" => ~config.query_enabled /\ config' = config
    BY <1>3, QueryStopOutcome DEF Outcome
  <2>3. pc' = "feedback_step" => SameQuery(config', next)
    BY <2>1 DEF Progress
  <2>4. pc' = "feedback_step" => ~next.query_enabled
    BY <2>2, <2>3 DEF SameQuery
  <2>5. AfterUdp' => AfterUdp
    BY <1>3, QueryStopOutcome DEF QueryStop, Outcome
  <2> QED
    BY <1>3, <2>1, <2>4, <2>5, QueryStopOutcome DEF Undisturbed
<1>4. CASE QueryStart
  <2>1. /\ before' = before /\ next' = next /\ foreign' = foreign /\ calm' = calm
    BY <1>4 DEF QueryStart, history
  <2>2. AfterUdp' => AfterUdp
    BY <1>4, QueryStartOutcome DEF QueryStart, Outcome
  <2>3. http' # 0 => http' \notin foreign["tcp"]
    BY <1>0, <1>4, QueryStartOutcome, HttpPortRange, BindMeans
  <2>4. pc' = "feedback_step" => http' # 0
    BY <1>4, QueryStartOutcome DEF Outcome
  <2> QED
    BY <1>4, <2>1, <2>2, <2>3, <2>4, QueryStartOutcome DEF Undisturbed
<1>5. CASE UdpStop
  BY <1>5 DEF UdpStop, Undisturbed, history
<1>6. CASE UdpNew
  <2>1. /\ before' = before /\ next' = next /\ foreign' = foreign /\ calm' = calm /\ http' = http
    BY <1>6 DEF UdpNew, history
  <2>2. /\ udp' # 0 => udp' = next.port /\ udp' \notin foreign["udp"]
        /\ udp' = 0 => pc' = "udp_old"
        /\ pc' # "feedback_step"
    BY <1>0, <1>6, HttpPortRange, BindMeans DEF UdpNew
  <2> QED
    BY <2>1, <2>2 DEF Undisturbed
<1>7. CASE UdpOld
  BY <1>0, <1>7, HttpPortRange, BindMeans DEF UdpOld, Undisturbed, history
<1>8. CASE QueryStep
  <2>1. /\ before' = before /\ next' = next /\ foreign' = foreign /\ calm' = calm
        /\ http' = http /\ udp' = udp
    BY <1>8 DEF QueryStep, history, servers
  <2>2. pc' = "feedback_step" => SameQuery(next, before.config)
    BY <1>8 DEF QueryStep, QueryDiffers, Progress, SameQuery
  <2> QED
    BY <1>8, <2>1, <2>2 DEF QueryStep, Undisturbed
<1>9. CASE FeedbackStep
  BY <1>9 DEF FeedbackStep, Undisturbed, history, servers
<1>10. CASE Unload
  BY <1>10 DEF Unload, Undisturbed, history
<1>11. CASE Crash
  BY <1>11 DEF Crash, Undisturbed, history
<1>12. ASSUME NEW c \in Configs, Apply(c)
      PROVE  Undisturbed'
  <2>1. /\ before' = [config |-> config, udp |-> udp, http |-> http]
        /\ udp' = udp /\ http' = http /\ foreign' = foreign /\ next' = c
        /\ pc' \in {"udp_stop", "query_step"} /\ calm' = TRUE
        /\ pc' = "query_step" => c.port = config.port
    BY <1>12 DEF Apply, servers
  <2> QED
    BY <2>1 DEF Undisturbed, Running
<1>13. ASSUME NEW protocol \in Protocols, NEW port \in 1..MaxPort,
             ForeignBind(protocol, port) \/ ForeignClose(protocol, port)
      PROVE  Undisturbed'
  <2>1. calm' = FALSE /\ udp' = udp /\ http' = http
    BY <1>13 DEF ForeignBind, ForeignClose, servers
  <2>2. CASE ForeignBind(protocol, port)
    BY <1>0, <2>1, <2>2 DEF ForeignBind, Undisturbed
  <2>3. CASE ForeignClose(protocol, port)
    BY <1>0, <2>1, <2>3 DEF ForeignClose, Undisturbed
  <2> QED
    BY <1>13, <2>2, <2>3
<1>14. CASE UNCHANGED vars
  BY <1>14 DEF vars, servers, call, history, Undisturbed
<1> QED
  BY <1>1, <1>2, <1>3, <1>4, <1>5, <1>6, <1>7, <1>8, <1>9, <1>10, <1>11, <1>12, <1>13, <1>14 DEF Next

-----------------------------------------------------------------------------
\* A server that ran is still there when the apply goes on to its last steps,
\* unless it followed the UDP port in vain.
HttpKept ==
    calm /\ before.http # 0 /\ pc \in {"query_step", "feedback_step"} /\ config.query_enabled
        => http # 0 \/ FollowedInVain

LEMMA HttpKeptInit == Init => HttpKept
BY DEF Init, HttpKept

LEMMA VainStays ==
  ASSUME FollowedInVain, config' = config, before' = before, foreign' = foreign
  PROVE  FollowedInVain'
BY DEF FollowedInVain, Bound

LEMMA NothingBound ==
  ASSUME NEW protocol, NEW port \in 1..MaxPort + 1, Bind(protocol, port, 0)
  PROVE  Bound(protocol, port) = {}
BY PortsAssumption DEF Bind, Bound

LEMMA HttpKeptStep ==
  ASSUME Types, Types', Running, Progress, Progress', HttpKept, [Next]_vars
  PROVE  HttpKept'
<1>0. /\ config \in Configs /\ config' \in Configs /\ before.config \in Configs
  BY DEF Types, ConfigTypes, HistoryTypes
<1>1. CASE Load \/ LoadUdp \/ UdpStop \/ UdpOld \/ Unload \/ Crash
  BY <1>1 DEF Load, LoadUdp, UdpStop, UdpOld, Unload, Crash, HttpKept
<1>2. CASE QueryStop
  <2>1. CASE config.query_enabled
    BY <1>2, <2>1, QueryStopOutcome DEF HttpKept
  <2>2. CASE ~config.query_enabled
    BY <1>2, <2>2, QueryStopOutcome DEF Outcome, HttpKept
  <2> QED
    BY <2>1, <2>2
<1>3. CASE QueryStart
  <2>1. pc' # "query_stop" => config' = config
    BY <1>3, QueryStartOutcome DEF Outcome
  <2>2. /\ before' = before /\ foreign' = foreign /\ pc \in Querying
    BY <1>3 DEF QueryStart, history, Querying
  <2>3. pc' = "feedback_step" => http' # 0
    BY <1>3, QueryStartOutcome DEF Outcome
  <2>4. CASE pc' = "query_step" /\ http' = 0 /\ config'.query_enabled
    <3>1. caller = "osc_apply_port"
      BY <1>3, <2>4, QueryStartOutcome DEF Outcome
    <3>2. /\ config.query_port = 0 /\ config.port # before.config.port
      BY <2>2, <3>1 DEF Progress, Restarting, AfterUdp, Querying, SameQuery
    <3>3. Bound("tcp", HttpPort(config)) = {}
      BY <1>0, <1>3, <2>4, QueryStartOutcome, NothingBound, HttpPortRange
    <3>4. Bound("tcp", HttpPort(config))' = {}
      BY <2>1, <2>2, <2>4, <3>3 DEF Bound
    <3>5. FollowedInVain'
      BY <2>1, <2>2, <2>4, <3>2, <3>4 DEF FollowedInVain, DerivesHttpPort
    <3> QED
      BY <3>5 DEF HttpKept
  <2> QED
    BY <2>3, <2>4 DEF HttpKept
<1>4. CASE UdpNew
  <2>1. /\ pc \in Changing /\ http' = http /\ before' = before
        /\ pc' # "feedback_step"
    BY <1>4 DEF UdpNew, Changing, history
  <2>2. http = before.http
    BY <2>1 DEF Progress
  <2> QED
    BY <2>1, <2>2 DEF HttpKept
<1>5. CASE QueryStep
  <2>1. CASE QueryDiffers(next, config)
    BY <1>5, <2>1 DEF QueryStep, HttpKept
  <2>2. CASE ~QueryDiffers(next, config)
    <3>1. /\ config' = config /\ http' = http /\ before' = before /\ foreign' = foreign
          /\ calm' = calm /\ pc = "query_step"
      BY <1>5, <2>2 DEF QueryStep, servers, history
    <3>2. FollowedInVain => FollowedInVain'
      BY <3>1, VainStays
    <3> QED
      BY <3>1, <3>2 DEF HttpKept
  <2> QED
    BY <2>1, <2>2
<1>6. CASE FeedbackStep
  BY <1>6 DEF FeedbackStep, HttpKept
<1>7. ASSUME NEW c \in Configs, Apply(c)
      PROVE  HttpKept'
  BY <1>7 DEF Apply, HttpKept, servers
<1>8. ASSUME NEW protocol \in Protocols, NEW port \in 1..MaxPort,
             ForeignBind(protocol, port) \/ ForeignClose(protocol, port)
      PROVE  HttpKept'
  BY <1>8 DEF ForeignBind, ForeignClose, HttpKept
<1>9. CASE UNCHANGED vars
  <2>1. FollowedInVain => FollowedInVain'
    BY <1>9, VainStays DEF vars, history
  <2> QED
    BY <1>9, <2>1 DEF vars, servers, call, history, HttpKept
<1> QED
  BY <1>1, <1>2, <1>3, <1>4, <1>5, <1>6, <1>7, <1>8, <1>9 DEF Next

-----------------------------------------------------------------------------
LEMMA ConfigsEqual ==
  ASSUME NEW c \in Configs, NEW d \in Configs, SameQuery(c, d),
         c.port = d.port, c.target = d.target
  PROVE  c = d
BY DEF Configs, SameQuery

\* The end of a step that failed at its UDP port, and of a rollback.
Calmly ==
    /\ before.udp # 0 => udp = next.port
    /\ before.http # 0 /\ HttpPort(config) = HttpPort(before.config) => http # 0

LEMMA RollbackKeeps ==
  ASSUME Types, Types', Running, Progress, Undisturbed,
         QueryStop \/ QueryStart, caller = "rollback", pc' = "idle"
  PROVE  /\ result' = "query_port_failed" /\ config' = config
         /\ config = [before.config EXCEPT !.port = next.port]
         /\ calm => Calmly'
<1>1. /\ config \in Configs /\ before.config \in Configs /\ next \in Configs
      /\ foreign \in [Protocols -> SUBSET (1..MaxPort)] /\ before.http \in 0..MaxPort
  BY DEF Types, ConfigTypes, HistoryTypes
<1>2. pc \in Querying /\ caller # "load"
  BY DEF QueryStop, QueryStart, Querying
<1>3. /\ config.port = next.port /\ config.target = before.config.target
      /\ SameQuery(config, before.config)
  BY <1>2 DEF Progress, AfterUdp, Restarting
<1>4. config = [before.config EXCEPT !.port = next.port]
  <2> DEFINE d == [before.config EXCEPT !.port = next.port]
  <2>1. d \in Configs /\ d.port = next.port /\ d.target = before.config.target
        /\ SameQuery(d, before.config)
    BY <1>1 DEF Configs, SameQuery
  <2> QED
    BY <1>1, <1>3, <2>1 DEF Configs, SameQuery
<1>5. calm /\ before.udp # 0 => udp = next.port
  BY <1>2 DEF Undisturbed, AfterUdp
<1>6. /\ before' = before /\ next' = next /\ config' = config /\ udp' = udp
      /\ result' = "query_port_failed"
  BY QueryStopOutcome, QueryStartOutcome DEF QueryStop, QueryStart, Outcome, history
<1>7. Serves(before.config, before.http)
  BY DEF Progress
<1>8. CASE QueryStop
  <2>1. ~config.query_enabled
    BY <1>8, QueryStopOutcome
  <2>2. before.http = 0
    BY <1>3, <1>7, <2>1 DEF Serves, SameQuery
  <2> QED
    BY <1>4, <1>5, <1>6, <2>2 DEF Calmly
<1>9. CASE QueryStart
  <2>1. Bind("tcp", HttpPort(config), http')
    BY <1>9, QueryStartOutcome
  <2>2. ASSUME calm, before.http # 0, HttpPort(config) = HttpPort(before.config)
        PROVE  http' # 0
    <3>1. before.http \in 1..MaxPort /\ before.http \notin foreign["tcp"]
      BY <1>1, <2>2 DEF Undisturbed
    <3>2. HttpPort(config) <= MaxPort => before.http = HttpPort(config)
      BY <1>7, <2>2 DEF Serves
    <3> QED
      BY <1>1, <2>1, <3>1, <3>2, HttpPortRange, BindMeans, PortsAssumption
  <2>3. HttpPort(config') = HttpPort(config)
    BY <1>6
  <2> QED
    BY <1>4, <1>5, <1>6, <2>2, <2>3 DEF Calmly
<1> QED
  BY <1>8, <1>9

LEMMA UdpOldKeeps ==
  ASSUME Types, Running, Progress, Undisturbed, UdpOld
  PROVE  /\ result' = "udp_port_failed" /\ calm' = calm /\ before' = before
         /\ config' = before.config /\ http' = before.http
         /\ calm /\ before.udp # 0 => udp' = before.udp
<1>1. config \in Configs
  BY DEF Types, ConfigTypes
<1>2. config = before.config /\ http = before.http
  BY DEF UdpOld, Progress, Changing
<1>3. before.udp \in {0, config.port}
  BY <1>2 DEF Progress
<1>4. Bind("udp", config.port, udp')
  BY DEF UdpOld
<1>5. udp' = 0 => config.port \in foreign["udp"]
  BY <1>1, <1>4, HttpPortRange, BindMeans
<1>6. udp' # 0 => udp' = config.port
  BY <1>1, <1>4, HttpPortRange, BindMeans
<1> QED
  BY <1>2, <1>3, <1>5, <1>6 DEF UdpOld, Undisturbed, history

LEMMA FeedbackStepCompletes ==
  ASSUME Types, Types', Running, Progress, Undisturbed, HttpKept, FeedbackStep
  PROVE  /\ config' = next /\ file' = config' /\ result' = "ok"
         /\ before' = before /\ next' = next /\ calm' = calm /\ udp' = udp /\ http' = http
         /\ calm /\ (before.udp # 0 \/ next.port # before.config.port) => udp = next.port
         /\ calm /\ next.query_enabled /\ ~SameQuery(next, before.config) => http # 0
         /\ calm /\ next.query_enabled /\ before.http # 0 => http # 0 \/ FollowedInVain'
<1>1. config \in Configs /\ next \in Configs /\ config' \in Configs
  BY DEF Types, ConfigTypes
<1>2. config.port = next.port /\ SameQuery(config, next)
  BY DEF FeedbackStep, Progress, AfterUdp
<1>3. config' = [config EXCEPT !.target = next.target]
  BY DEF FeedbackStep
<1>4. config'.port = next.port /\ config'.target = next.target /\ SameQuery(config', next)
  BY <1>1, <1>2, <1>3 DEF Configs, SameQuery
<1>5. config' = next
  BY <1>1, <1>4, ConfigsEqual
<1>6. FollowedInVain => FollowedInVain'
  <2>1. /\ config'.port = config.port /\ SameQuery(config', config)
        /\ foreign' = foreign /\ before' = before
    BY <1>2, <1>4 DEF SameQuery, FeedbackStep, history
  <2>2. Bound("tcp", HttpPort(config))' = Bound("tcp", HttpPort(config))
    BY <2>1 DEF SameQuery, HttpPort, Bound
  <2> QED
    BY <2>1, <2>2 DEF FollowedInVain, DerivesHttpPort, SameQuery
<1>7. calm /\ next.query_enabled /\ before.http # 0 => http # 0 \/ FollowedInVain'
  BY <1>2, <1>6 DEF FeedbackStep, HttpKept, SameQuery
<1> QED
  BY <1>5, <1>7 DEF FeedbackStep, Undisturbed, AfterUdp, history, servers

LEMMA AppliedOrKeptInit == Init => AppliedOrKept
BY DEF Init, AppliedOrKept, SuccessIsComplete, FailureKeepsWorkingParts

LEMMA AppliedOrKeptStep ==
  ASSUME Types, Types', Running, Progress, Progress', Undisturbed, HttpKept,
         AppliedOrKept, [Next]_vars
  PROVE  AppliedOrKept'
<1> DEFINE Silent == pc' # "idle" \/ result' = "none"
<1>1. Silent => AppliedOrKept'
  BY DEF AppliedOrKept, SuccessIsComplete, FailureKeepsWorkingParts
<1>2. ASSUME Load \/ LoadUdp \/ UdpStop \/ UdpNew \/ QueryStep \/ Unload \/ Crash
      PROVE  Silent
  BY <1>2 DEF Load, LoadUdp, UdpStop, UdpNew, QueryStep, Unload, Crash
<1>3. CASE QueryStop \/ QueryStart
  <2>1. pc # "idle" /\ result = "none"
    BY <1>3 DEF QueryStop, QueryStart, Progress
  <2>2. pc' = "idle" => caller = "rollback" \/ result' = "none"
    BY <1>3, <2>1, QueryStopOutcome, QueryStartOutcome DEF Outcome
  <2>3. CASE pc' = "idle" /\ caller = "rollback"
    <3>1. before' = before /\ next' = next /\ calm' = calm /\ udp' = udp
      BY <1>3 DEF QueryStop, QueryStart, history
    <3>2. /\ result' = "query_port_failed" /\ config' = config
          /\ config = [before.config EXCEPT !.port = next.port] /\ (calm => Calmly')
      BY <1>3, <2>3, RollbackKeeps
    <3>3. SuccessIsComplete'
      BY <3>2 DEF SuccessIsComplete
    <3>4. config' = [before'.config EXCEPT !.port = next'.port] /\ (calm' => Calmly')
      BY <3>1, <3>2
    <3>5. FailureKeepsWorkingParts'
      BY <3>2, <3>4 DEF FailureKeepsWorkingParts, Calmly
    <3> QED
      BY <3>3, <3>5 DEF AppliedOrKept
  <2> QED
    BY <1>1, <2>2, <2>3
<1>4. CASE UdpOld
  BY <1>4, UdpOldKeeps DEF AppliedOrKept, SuccessIsComplete, FailureKeepsWorkingParts
<1>5. CASE FeedbackStep
  <2>1. SuccessIsComplete'
    BY <1>5, FeedbackStepCompletes DEF SuccessIsComplete, SameQuery, QueryDiffers
  <2> QED
    BY <1>5, <2>1, FeedbackStepCompletes DEF AppliedOrKept, FailureKeepsWorkingParts
<1>6. ASSUME NEW c \in Configs, Apply(c)
      PROVE  Silent
  BY <1>6 DEF Apply
<1>7. ASSUME NEW protocol \in Protocols, NEW port \in 1..MaxPort,
             ForeignBind(protocol, port) \/ ForeignClose(protocol, port)
      PROVE  AppliedOrKept'
  BY <1>7 DEF ForeignBind, ForeignClose, AppliedOrKept, SuccessIsComplete,
              FailureKeepsWorkingParts, servers, call
<1>8. CASE UNCHANGED vars
  <2>1. FollowedInVain => FollowedInVain'
    BY <1>8, VainStays DEF vars, history
  <2> QED
    BY <1>8, <2>1 DEF vars, servers, call, history, AppliedOrKept, SuccessIsComplete,
                      FailureKeepsWorkingParts
<1> HIDE DEF Silent
<1> QED
  BY <1>1, <1>2, <1>3, <1>4, <1>5, <1>6, <1>7, <1>8 DEF Next

SettingsInv == Types /\ Running /\ Progress /\ Undisturbed /\ HttpKept

LEMMA SettingsInvAlways == Spec => []SettingsInv
<1>1. Init => SettingsInv
  BY RunningInit, ProgressInit, UndisturbedInit, HttpKeptInit DEF SettingsInv
<1>2. SettingsInv /\ [Next]_vars => SettingsInv'
  BY TypesStep, RunningStep, ProgressStep, UndisturbedStep, HttpKeptStep DEF SettingsInv
<1> QED
  BY <1>1, <1>2, PTL DEF Spec

\* osc_apply_settings() with any of its steps failing: success means that all
\* was done and no server was lost but one that followed the UDP port in vain,
\* failure that the configuration is the one before (plus a new UDP port, when
\* the HTTP port failed) and, if no other process moved, the servers too.
THEOREM AppliedOrKeptAlways == Spec => []AppliedOrKept
<1>1. SettingsInv /\ SettingsInv' /\ AppliedOrKept /\ [Next]_vars => AppliedOrKept'
  BY AppliedOrKeptStep DEF SettingsInv
<1> QED
  BY <1>1, AppliedOrKeptInit, SettingsInvAlways, PTL DEF Spec

-----------------------------------------------------------------------------
LEMMA RestartsNeeded ==
  ASSUME SettingsInv, Applying, pc' # "unloaded", Next
  PROVE  LET c == before.config
         IN /\ next.port = c.port => udp' = udp
            /\ /\ next.query_port = c.query_port /\ next.query_enabled = c.query_enabled
               /\ next.port = c.port \/ c.query_port # 0
               => http' = http
<1> USE DEF SettingsInv, Applying, Progress, Restarting, Changing, Querying, SameQuery
<1>1. CASE QueryStop
  BY <1>1, QueryStopOutcome DEF QueryStop, Types, ControlTypes, Callers
<1>2. CASE QueryStart
  BY <1>2, QueryStartOutcome DEF QueryStart, Types, ControlTypes, Callers
<1>3. CASE UdpStop \/ UdpNew \/ UdpOld
  BY <1>3 DEF UdpStop, UdpNew, UdpOld
<1>4. CASE QueryStep \/ FeedbackStep
  BY <1>4 DEF QueryStep, FeedbackStep, servers
<1>5. ASSUME NEW protocol \in Protocols, NEW port \in 1..MaxPort,
             ForeignBind(protocol, port) \/ ForeignClose(protocol, port)
      PROVE  udp' = udp /\ http' = http
  BY <1>5 DEF ForeignBind, ForeignClose, servers
<1>6. ASSUME NEW c \in Configs, Apply(c)
      PROVE  FALSE
  BY <1>6 DEF Apply
<1>7. ~(Load \/ LoadUdp \/ Unload \/ Crash)
  BY DEF Load, LoadUdp, Unload, Crash
<1> QED
  BY <1>1, <1>2, <1>3, <1>4, <1>5, <1>6, <1>7 DEF Next

\* An apply does not interrupt a server that its fields do not concern.
THEOREM OnlyNeededRestartsAlways == Spec => OnlyNeededRestarts
<1>1. SettingsInv /\ [Next]_vars =>
        [Applying /\ pc' # "unloaded" =>
           LET c == before.config
           IN /\ next.port = c.port => udp' = udp
              /\ /\ next.query_port = c.query_port /\ next.query_enabled = c.query_enabled
                 /\ next.port = c.port \/ c.query_port # 0
                 => http' = http]_vars
  BY RestartsNeeded DEF vars, servers
<1> QED
  BY <1>1, SettingsInvAlways, PTL DEF Spec, OnlyNeededRestarts

=============================================================================
