----------------------------- MODULE OscPlugin -----------------------------
(***************************************************************************)
(* The module's configuration and the two servers that run under it        *)
(* (plugin.cpp, osc-query.cpp, the inputs of osc-settings.cpp): load,      *)
(* apply with its rollbacks, save and unload on the UI thread, one action  *)
(* per system call, beside other processes that take and give up ports and *)
(* a crash of OBS at any moment.                                           *)
(***************************************************************************)
EXTENDS Integers

CONSTANTS
    MaxPort,      \* 65535
    DefaultPort,  \* 9000
    Targets,      \* the feedback fields of the configuration, as one value
    NoFile,       \* plugin-config.json does not exist
    MaxOps,       \* bound on calls of load, apply and unload
    MaxForeign    \* bound on ports that other processes take

ASSUME PortsAssumption ==
    /\ MaxPort \in Nat \ {0}
    /\ DefaultPort \in 1..MaxPort
    /\ MaxOps \in Nat /\ MaxForeign \in Nat

ASSUME TargetsAssumption == Targets # {}

ASSUME NoFileAssumption == NoFile \notin [port : 1..MaxPort, target : Targets,
                                query_enabled : BOOLEAN, query_port : 0..MaxPort]

\* What the dialog can hand in: its spin boxes have these ranges.
Configs == [port : 1..MaxPort, target : Targets,
            query_enabled : BOOLEAN, query_port : 0..MaxPort]

\* The ranges of a file that somebody edited go one further at both ends.
Files == [port : {-1, 0, MaxPort + 1} \cup 1..MaxPort, target : Targets,
          query_enabled : BOOLEAN, query_port : {-1, MaxPort + 1} \cup 0..MaxPort]

Protocols == {"udp", "tcp"}

VARIABLES
    config,       \* g_config
    file,         \* plugin-config.json
    udp,          \* the port g_server is bound to, 0 when it does not run
    udp_target,   \* what set_feedback_target() was last told
    http,         \* the port of the OSCQuery server, 0 when it does not run
    announced,    \* current_udp_port
    hooked,       \* osc_feedback_init() has run
    pc,           \* where the UI thread is
    caller,       \* who called osc_query_restart()
    next,         \* the parameter of osc_apply_settings()
    old,          \* its old_query_port and old_query_enabled, within a config
    result,       \* its result
    foreign,      \* the ports of other processes, by protocol
    before, calm, \* history: what there was when the last apply began, and
                  \* that no other process has taken or given up a port since
    ops, taken    \* counters for the bounds

servers == <<udp, http, announced>>
call == <<pc, caller, next, old, result>>
history == <<before, calm>>
vars == <<config, file, udp_target, hooked, servers, call, foreign, history,
          ops, taken>>

Default == [port |-> DefaultPort, query_enabled |-> TRUE, query_port |-> 0,
            target |-> CHOOSE t \in Targets : TRUE]

\* load_config() replaces what is out of range.
Clamp(f) ==
    [f EXCEPT !.port = IF @ \in 1..MaxPort THEN @ ELSE DefaultPort,
              !.query_port = IF @ \in 0..MaxPort THEN @ ELSE 0]

HttpPort(c) == IF c.query_port > 0 THEN c.query_port ELSE c.port + 1

\* The UDP port changed: does the HTTP port follow it?
NeverDerived(c) == FALSE

DerivesHttpPort(c) == c.query_enabled /\ c.query_port = 0

\* What makes osc_apply_settings() restart the HTTP server.
AlwaysDiffers(c, d) == TRUE

QueryDiffers(c, d) == c.query_port # d.query_port \/ c.query_enabled # d.query_enabled

\* The ports bind() may end up with: the number is cut to 16 bits, and 0 asks
\* the kernel to choose. No port means that bind() fails.
Bound(protocol, port) ==
    LET p == port % (MaxPort + 1)
    IN (IF p = 0 THEN 1..MaxPort ELSE {p}) \ foreign[protocol]

Bind(protocol, port, bound) ==
    \/ bound \in Bound(protocol, port)
    \/ Bound(protocol, port) = {} /\ bound = 0

Init ==
    /\ config = Default
    /\ file \in Files \cup {NoFile}
    /\ udp = 0 /\ http = 0 /\ announced = 0
    /\ udp_target = Default.target /\ hooked = FALSE
    /\ pc = "unloaded" /\ caller = "none" /\ result = "none"
    /\ next = Default /\ old = Default
    /\ foreign = [protocol \in Protocols |-> {}]
    /\ before = [config |-> Default, udp |-> 0, http |-> 0] /\ calm = FALSE
    /\ ops = 0 /\ taken = 0

\* obs_module_load(), up to the bind of the UDP socket.
Load ==
    /\ pc = "unloaded" /\ ops < MaxOps
    /\ ops' = ops + 1
    /\ config' = IF file = NoFile THEN config ELSE Clamp(file)
    /\ hooked' = TRUE
    /\ pc' = "load"
    /\ UNCHANGED <<file, udp_target, servers, caller, next, old, result,
                   foreign, history, taken>>

\* A failure is logged only.
LoadUdp ==
    /\ pc = "load"
    /\ Bind("udp", config.port, udp')
    /\ udp_target' = config.target
    /\ pc' = "query_stop" /\ caller' = "load"
    /\ UNCHANGED <<config, file, http, announced, hooked, next, old, result,
                   foreign, history, ops, taken>>

NeverRollsBack(ok) == FALSE

RollsBack(ok) == caller = "osc_apply_settings" /\ ~ok

\* What the four callers of osc_query_restart() do with its result.
Returned(ok) ==
    CASE caller = "load" ->
            pc' = "idle" /\ UNCHANGED <<config, result>>
      [] caller = "osc_apply_port" ->
            pc' = "query_step" /\ UNCHANGED <<config, result>>
      [] caller = "osc_apply_settings" /\ ~RollsBack(ok) ->
            pc' = "feedback_step" /\ UNCHANGED <<config, result>>
      [] RollsBack(ok) ->
            /\ config' = [config EXCEPT !.query_port = old.query_port,
                                        !.query_enabled = old.query_enabled]
            /\ pc' = "query_stop" /\ UNCHANGED result
      [] caller = "rollback" ->
            pc' = "idle" /\ result' = "query_port_failed" /\ UNCHANGED config

\* The caller of the restart that a rollback makes.
NextCaller(ok) ==
    IF RollsBack(ok) THEN "rollback" ELSE caller

\* osc_query_restart(): stop, and return when the server is disabled.
QueryStop ==
    /\ pc = "query_stop"
    /\ http' = 0
    /\ IF config.query_enabled
       THEN pc' = "query_start" /\ UNCHANGED <<config, result, caller>>
       ELSE Returned(TRUE) /\ caller' = NextCaller(TRUE)
    /\ UNCHANGED <<file, udp, udp_target, announced, hooked, next, old,
                   foreign, history, ops, taken>>

\* osc_query_start(): the port to announce is set whether or not it succeeds.
QueryStart ==
    /\ pc = "query_start"
    /\ announced' = config.port
    /\ Bind("tcp", HttpPort(config), http')
    /\ Returned(http' # 0) /\ caller' = NextCaller(http' # 0)
    /\ UNCHANGED <<file, udp, udp_target, hooked, next, old, foreign, history,
                   ops, taken>>

\* OscSettingsDialog::accept() hands what the form shows to osc_apply_settings().
Apply(c) ==
    /\ pc = "idle" /\ ops < MaxOps
    /\ ops' = ops + 1
    /\ next' = c /\ result' = "none"
    /\ pc' = IF c.port # config.port THEN "udp_stop" ELSE "query_step"
    /\ before' = [config |-> config, udp |-> udp, http |-> http] /\ calm' = TRUE
    /\ UNCHANGED <<config, file, udp_target, servers, hooked, caller, old,
                   foreign, taken>>

\* osc_apply_port(): stop, try the new port, and return to the previous one
\* when that fails, whose result nobody looks at.
UdpStop ==
    /\ pc = "udp_stop"
    /\ udp' = 0
    /\ pc' = "udp_new"
    /\ UNCHANGED <<config, file, udp_target, http, announced, hooked, caller,
                   next, old, result, foreign, history, ops, taken>>

UdpNew ==
    /\ pc = "udp_new"
    /\ Bind("udp", next.port, udp')
    /\ config' = IF udp' # 0 THEN [config EXCEPT !.port = next.port] ELSE config
    /\ pc' = CASE udp' = 0 -> "udp_old"
               [] udp' # 0 /\ DerivesHttpPort(config) -> "query_stop"
               [] OTHER -> "query_step"
    /\ caller' = IF pc' = "query_stop" THEN "osc_apply_port" ELSE caller
    /\ UNCHANGED <<file, udp_target, http, announced, hooked, next, old, result,
                   foreign, history, ops, taken>>

UdpOld ==
    /\ pc = "udp_old"
    /\ Bind("udp", config.port, udp')
    /\ result' = "udp_port_failed" /\ pc' = "idle"
    /\ UNCHANGED <<config, file, udp_target, http, announced, hooked, caller,
                   next, old, foreign, history, ops, taken>>

QueryStep ==
    /\ pc = "query_step"
    /\ IF QueryDiffers(next, config)
       THEN /\ old' = config
            /\ config' = [config EXCEPT !.query_port = next.query_port,
                                        !.query_enabled = next.query_enabled]
            /\ pc' = "query_stop" /\ caller' = "osc_apply_settings"
       ELSE pc' = "feedback_step" /\ UNCHANGED <<old, config, caller>>
    /\ UNCHANGED <<file, udp_target, servers, hooked, next, result, foreign,
                   history, ops, taken>>

\* The feedback fields, set_feedback_target() and osc_save_config(), which
\* replaces the file as a whole.
FeedbackStep ==
    /\ pc = "feedback_step"
    /\ config' = [config EXCEPT !.target = next.target]
    /\ udp_target' = next.target
    /\ file' = config'
    /\ result' = "ok" /\ pc' = "idle"
    /\ UNCHANGED <<servers, hooked, caller, next, old, foreign, history, ops, taken>>

\* obs_module_unload(); it forgets the configuration with the process.
Unload ==
    /\ pc = "idle"
    /\ udp' = 0 /\ http' = 0 /\ announced' = 0 /\ hooked' = FALSE
    /\ file' = config
    /\ config' = Default /\ pc' = "unloaded" /\ result' = "none"
    /\ UNCHANGED <<udp_target, caller, next, old, foreign, history,
                   ops, taken>>

\* The process dies: its sockets are closed, its file stays.
Crash ==
    /\ pc # "unloaded"
    /\ udp' = 0 /\ http' = 0 /\ announced' = 0 /\ hooked' = FALSE
    /\ config' = Default /\ pc' = "unloaded" /\ result' = "none"
    /\ UNCHANGED <<file, udp_target, caller, next, old, foreign,
                   history, ops, taken>>

\* Other processes (external) bind free ports and give theirs up.
ForeignBind(protocol, port) ==
    /\ taken < MaxForeign
    /\ port \notin foreign[protocol]
    /\ port # (IF protocol = "udp" THEN udp ELSE http)
    /\ foreign' = [foreign EXCEPT ![protocol] = @ \cup {port}]
    /\ taken' = taken + 1 /\ calm' = FALSE
    /\ UNCHANGED <<config, file, udp_target, servers, hooked, call, before, ops>>

ForeignClose(protocol, port) ==
    /\ port \in foreign[protocol]
    /\ foreign' = [foreign EXCEPT ![protocol] = @ \ {port}]
    /\ calm' = FALSE
    /\ UNCHANGED <<config, file, udp_target, servers, hooked, call, before, ops, taken>>

Next ==
    \/ Load \/ LoadUdp \/ QueryStop \/ QueryStart
    \/ UdpStop \/ UdpNew \/ UdpOld \/ QueryStep \/ FeedbackStep
    \/ Unload \/ Crash
    \/ \E c \in Configs : Apply(c)
    \/ \E protocol \in Protocols, port \in 1..MaxPort :
           ForeignBind(protocol, port) \/ ForeignClose(protocol, port)

Spec == Init /\ [][Next]_vars

-----------------------------------------------------------------------------
(***************************************************************************)
(* Whenever the UI thread is done, however many steps failed on the way: a *)
(* server that runs is bound where the configuration says, none runs that  *)
(* is disabled, feedback goes where the configuration says, and nothing    *)
(* runs in a module that is not loaded (osc_apply_settings() and its       *)
(* rollbacks). A derived HTTP port that does not fit 16 bits is the        *)
(* kernel's choice. HOST_INFO of a server with a derived port tells the    *)
(* UDP port that is configured: the restart in osc_apply_port() sees to    *)
(* it.                                                                     *)
(***************************************************************************)
RunsAsConfigured ==
    /\ pc = "idle" =>
        /\ udp \in {0, config.port}
        /\ http # 0 => /\ config.query_enabled
                       /\ HttpPort(config) <= MaxPort => http = HttpPort(config)
                       /\ config.query_port = 0 => announced = config.port
        /\ udp_target = config.target
    /\ pc = "unloaded" => udp = 0 /\ http = 0 /\ ~hooked

(***************************************************************************)
(* "On failure nothing after the failing step is applied, the              *)
(* already-working parts of g_config stay active" (osc-plugin.h:65-67): a  *)
(* failed apply leaves the configuration it found, but for a new UDP port  *)
(* when it was the HTTP port that failed. If no other process moved        *)
(* meanwhile the servers run as before too; excepted is an HTTP server     *)
(* whose derived port followed the new UDP port.                           *)
(***************************************************************************)
FailureKeepsWorkingParts ==
    pc = "idle" =>
        /\ result = "udp_port_failed" =>
            /\ config = before.config /\ http = before.http
            /\ calm /\ before.udp # 0 => udp = before.udp
        /\ result = "query_port_failed" =>
            /\ config = [before.config EXCEPT !.port = next.port]
            /\ calm /\ before.udp # 0 => udp = next.port
            /\ calm /\ before.http # 0 /\ HttpPort(config) = HttpPort(before.config)
                  => http # 0

\* The HTTP port follows a new UDP port and cannot be bound: osc_apply_port()
\* drops the result of osc_query_restart() (plugin.cpp:107).
FollowedInVain ==
    /\ DerivesHttpPort(config) /\ config.port # before.config.port
    /\ Bound("tcp", HttpPort(config)) = {}

(***************************************************************************)
(* When an apply reports success the configuration is the one that was     *)
(* asked for and the one a restart would read. If no other process moved   *)
(* meanwhile OBS is not deafer than before either: the UDP listener runs   *)
(* if it did or its port is new; an HTTP server that was asked for runs,   *)
(* and one that ran and is still enabled does, unless it followed the UDP  *)
(* port in vain.                                                           *)
(***************************************************************************)
SuccessIsComplete ==
    pc = "idle" /\ result = "ok" =>
        /\ config = next /\ file = config
        /\ calm =>
            /\ before.udp # 0 \/ config.port # before.config.port => udp = config.port
            /\ config.query_enabled /\ QueryDiffers(config, before.config) => http # 0
            /\ config.query_enabled /\ before.http # 0 => http # 0 \/ FollowedInVain

(***************************************************************************)
(* What an apply reports, as far as it can be relied on: a failure has     *)
(* taken nothing away that worked and a success has done what was asked,   *)
(* with the two exceptions named above, where it is the derived HTTP port  *)
(* that could not be bound, and but for ports that others take meanwhile.  *)
(* SuccessKeepsServer is what a comment says beyond it.                    *)
(***************************************************************************)
AppliedOrKept == SuccessIsComplete /\ FailureKeepsWorkingParts

(***************************************************************************)
(* "a status is returned so the caller can report which field failed"      *)
(* (osc-plugin.h:67-68), so an apply that returns ok has lost no server    *)
(* that stays enabled, least of all while no other process moves. It may,  *)
(* by FollowedInVain.                                                      *)
(***************************************************************************)
SuccessKeepsServer ==
    pc = "idle" /\ result = "ok" /\ calm /\ before.http # 0 /\ config.query_enabled
        => http # 0

(***************************************************************************)
(* A restart that the configuration does not need never happens, not even  *)
(* in passing, so that controllers keep their connections: an apply leaves *)
(* the UDP listener alone unless its port changes, and the HTTP server     *)
(* unless its fields change or its port follows the UDP port.              *)
(***************************************************************************)
Applying ==
    \/ pc \in {"udp_stop", "udp_new", "udp_old", "query_step", "feedback_step"}
    \/ pc \in {"query_stop", "query_start"} /\ caller # "load"

OnlyNeededRestarts ==
    [][Applying /\ pc' # "unloaded" =>
         LET c == before.config
         IN /\ next.port = c.port => udp' = udp
            /\ /\ next.query_port = c.query_port /\ next.query_enabled = c.query_enabled
               /\ next.port = c.port \/ c.query_port # 0
               => http' = http]_vars

=============================================================================
