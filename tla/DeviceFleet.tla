----------------------------- MODULE DeviceFleet -----------------------------
(***************************************************************************)
(* The emulator controller: one process that posts for accounts on Android *)
(* emulators and serves the operators' requests on the same emulators.     *)
(*                                                                         *)
(* A cycle pairs the active accounts with the emulators adb lists, and one *)
(* task per pair checks the account's limit, points the emulator at a      *)
(* bridge that forwards to the account's proxy, posts, and counts.  A      *)
(* bridge is a listening socket of the controller; its port stays pinned   *)
(* to the pair (account, serial).  A request of an operator holds the      *)
(* emulator's lock while it works; a task takes no such lock, so an        *)
(* emulator may be restarted, stopped, or replaced by another one with the *)
(* same serial, under a task that is posting.                              *)
(*                                                                         *)
(* The http_proxy setting is kept by the virtual device (AVD), whichever   *)
(* serial it runs under, and so are the connections its apps have opened:  *)
(* closing a bridge closes its listening socket only, and the session      *)
(* that posts does not restart the app (no_reset), so that a post may      *)
(* leave by any connection opened since the device booted.                 *)
(*                                                                         *)
(* Bridges, pins, locks, tasks and the tunnels through bridges die with    *)
(* the process; bindings, counters, settings and emulators outlive it.     *)
(*                                                                         *)
(* Abstractions: one day, so that counters do not expire; the statuses     *)
(* other than 'device' are one; an API call that fails has failed its      *)
(* three attempts, and a cycle the open breaker skips does not start.      *)
(***************************************************************************)
EXTENDS Integers, FiniteSets

CONSTANTS
  Users, Serials, Avds, Egresses,
  Nothing,            \* no proxy, no AVD, no holder of a lock
  FirstPort, LastPort,  \* PROXY_BRIDGE_PORT_START, PROXY_BRIDGE_PORT_END
  PostLimit,       \* max_posts_per_day
  Callers,        \* operators' requests in progress at a time
  MaxCycles,       \* bound: cycles of the posting loop
  MaxEvents        \* bound: operators' requests, failing calls, reassignments, deaths

ASSUME FleetAssumption ==
  /\ FirstPort \in Nat \ {0} /\ LastPort \in Nat
  /\ PostLimit \in Nat /\ MaxCycles \in Nat /\ MaxEvents \in Nat
  /\ Nothing \notin Avds \cup Egresses \cup Callers

VARIABLES
  avd,        \* the AVD that runs behind a serial
  ready,      \* serials adb lists as 'device'
  starting,   \* AVDs launched that adb does not list yet
  setting,    \* an AVD's http_proxy setting: the port, 0 when unset
  tunnels,    \* upstreams by which an AVD's apps may hold a connection, Nothing for a direct one
  assigned,   \* the active proxy that get_proxy_credentials answers for an account
  up,         \* the controller: "down", "reconcile" or "run"
  todo,       \* serials whose binding is still to be restored
  bridges,    \* ProxyBridgeManager._bridges: port and upstream of a pair
  pins,       \* ProxyBridgeManager._port_by_bridge_id
  binding,    \* emulator_proxy_bindings: the account of an active row
  pairing,       \* _run_account_on_device of an account
  holder,     \* emulator_locks: the request that holds the lock of a serial
  caller,    \* what each request is doing
  counter,    \* the Redis counter of posts of the day
  posts,      \* posts of an account that went out
  uncounted,  \* posts whose task failed or died before the counter
  unbound,    \* pairs whose server once failed to start on a port nobody used
  cycles, events  \* spent

hostVars == <<avd, ready, starting, setting, tunnels>>
bridgeVars == <<bridges, pins, unbound>>
requestVars == <<holder, caller>>
postVars == <<counter, posts, uncounted>>
fleetVars == <<hostVars, assigned, up, todo, bridgeVars, binding, pairing, requestVars, postVars, cycles,
          events>>

Ports == FirstPort..LastPort
Devices == {s \in Serials : avd[s] # Nothing}
Names(s) == {t \in Serials : avd[t] = avd[s]}
Unpaired == [pc |-> "idle", serial |-> Nothing, proxy |-> Nothing, port |-> 0, rotated |-> FALSE,
         old |-> {}, disturbed |-> FALSE]
At(a, pc) == pairing[a].pc = pc
NoRequest == [kind |-> "none", serial |-> Nothing, avd |-> Nothing, before |-> {}, alone |-> TRUE]

Event == events < MaxEvents /\ events' = events + 1

-----------------------------------------------------------------------------
(* The proxy bridges.                                                      *)

Pair(a, s) == <<a, s>>
ReusableAny(pair, upstream) == pair \in DOMAIN bridges

\* A bridge to another upstream is not reused.
Reusable(pair, upstream) == pair \in DOMAIN bridges /\ bridges[pair].upstream = upstream

Others(pair) == [q \in DOMAIN bridges \ {pair} |-> bridges[q]]
Listening(bs) == {bs[q].port : q \in DOMAIN bs}

AllPorts == Ports

FreePorts == Ports \ Listening(bridges)

\* _resolve_port: the pinned port, whoever listens on it now, or the first one without a bridge.
ResolvePort(pair) ==
  IF pair \in DOMAIN pins THEN pins[pair]
  ELSE CHOOSE p \in FreePorts : \A q \in FreePorts : p <= q

Pin(pair, port) == pins' = [q \in DOMAIN pins \cup {pair} |-> IF q = pair THEN port ELSE pins[q]]

\* ensure_bridge gives the pair a bridge to this upstream; a bridge to another one stops
\* listening first, even when the new server does not start.
EnsureBridge(pair, upstream) ==
  \/ Reusable(pair, upstream) /\ UNCHANGED bridgeVars
  \/ /\ ~Reusable(pair, upstream)
     /\ pair \in DOMAIN pins \/ FreePorts # {}
     /\ LET port == ResolvePort(pair)
        IN /\ port \notin Listening(Others(pair))
           /\ bridges' = [q \in DOMAIN bridges \cup {pair} |->
                            IF q = pair THEN [port |-> port, upstream |-> upstream]
                            ELSE bridges[q]]
           /\ Pin(pair, port)
     /\ UNCHANGED unbound

\* start_server raises: the pinned port has another listener, or the system refuses it.
BridgeFails(pair, upstream) ==
  /\ ~Reusable(pair, upstream)
  /\ bridges' = Others(pair)
  /\ \/ /\ pair \notin DOMAIN pins /\ FreePorts = {}
        /\ UNCHANGED <<pins, unbound, events>>
     \/ /\ pair \in DOMAIN pins \/ FreePorts # {}
        /\ Pin(pair, ResolvePort(pair))
        /\ IF ResolvePort(pair) \in Listening(Others(pair))
           THEN UNCHANGED <<unbound, events>>
           ELSE unbound' = unbound \cup {pair} /\ Event

\* Where a connection opened under a setting leads: to its bridge, if one of bs listens there.
Ways(port, bs) ==
  IF port = 0 THEN {Nothing} ELSE {bs[q].upstream : q \in {q \in DOMAIN bs : bs[q].port = port}}

\* Apps open connections wherever the setting leads, and keep them when the bridge is closed:
\* _pipe_bidirectional copies until one side ends.
Opens == tunnels' = [v \in Avds |-> tunnels[v] \cup Ways(setting'[v], bridges')]

\* A device that boots has no connections left.
Boots(v) == tunnels' = [w \in Avds |-> IF w = v THEN Ways(setting[w], bridges) ELSE tunnels[w]]

\* health_check connects to the bridge's own port.
BridgeHealthy(pair) == pair \in DOMAIN bridges

-----------------------------------------------------------------------------
(* The posting loop.                                                       *)

FleetInit ==
  /\ avd \in [Serials -> Avds \cup {Nothing}]
  /\ \A s, t \in Serials : avd[s] = avd[t] => s = t \/ avd[s] = Nothing
  /\ ready = Devices /\ starting = {}
  /\ setting = [v \in Avds |-> 0] /\ tunnels = [v \in Avds |-> {Nothing}]
  /\ assigned \in [Users -> Egresses]
  /\ up = "down" /\ todo = {}
  /\ bridges = <<>> /\ pins = <<>> /\ unbound = {}
  /\ binding = [s \in Serials |-> Nothing]
  /\ pairing = [a \in Users |-> Unpaired]
  /\ holder = [s \in Serials |-> Nothing]
  /\ caller = [r \in Callers |-> NoRequest]
  /\ counter = [a \in Users |-> 0] /\ posts = counter /\ uncounted = counter
  /\ cycles = 0 /\ events = 0

Becomes(a, pc) == pairing' = [pairing EXCEPT ![a].pc = pc]

\* An exception ends the task; its row and its report are about the failure.
TaskEnds(a) == pairing' = [pairing EXCEPT ![a] = Unpaired]

ControllerStart ==
  /\ up = "down"
  /\ up' = "reconcile" /\ todo' = {s \in Devices : binding[s] # Nothing}
  /\ UNCHANGED <<hostVars, assigned, bridgeVars, binding, pairing, requestVars, postVars, cycles,
                 events>>

\* _reconcile_proxy_bindings goes on to the next row whatever happens to this one.  The row is
\* not written, so that it keeps the port of the process before.
Reconcile(s) ==
  LET a == binding[s]
  IN /\ up = "reconcile" /\ s \in todo
     /\ todo' = todo \ {s}
     /\ IF assigned[a] = Nothing
        THEN UNCHANGED <<bridgeVars, setting, events>>
        ELSE \/ /\ EnsureBridge(Pair(a, s), assigned[a])
                /\ setting' = IF s \in ready
                              THEN [setting EXCEPT ![avd[s]] = bridges'[Pair(a, s)].port]
                              ELSE setting
                /\ UNCHANGED events
             \/ BridgeFails(Pair(a, s), assigned[a]) /\ UNCHANGED setting
     /\ UNCHANGED <<avd, ready, starting, assigned, up, binding, pairing, requestVars, postVars,
                    cycles>>
     /\ Opens

Reconciled ==
  /\ up = "reconcile" /\ todo = {}
  /\ up' = "run"
  /\ UNCHANGED <<hostVars, assigned, todo, bridgeVars, binding, pairing, requestVars, postVars, cycles,
                 events>>

\* run_once pairs active accounts with listed emulators, one each, when the last cycle is over.
\* Two serials of one emulator are two emulators to it.
StartCycle ==
  /\ up = "run" /\ cycles < MaxCycles
  /\ \A a \in Users : At(a, "idle")
  /\ \E active \in SUBSET Users, f \in [Users -> Devices \cup {Nothing}] :
       LET paired == {a \in Users : f[a] # Nothing}
       IN /\ paired # {} /\ paired \subseteq active
          /\ \A a, b \in paired : f[a] = f[b] => a = b
          /\ active = paired \/ Devices = {f[a] : a \in paired}
          /\ pairing' = [a \in Users |-> IF a \in paired
                                         THEN [Unpaired EXCEPT !.pc = "limit", !.serial = f[a],
                                                               !.disturbed = Names(f[a]) # {f[a]}]
                                         ELSE Unpaired]
  /\ cycles' = cycles + 1
  /\ UNCHANGED <<hostVars, assigned, up, todo, bridgeVars, binding, requestVars, postVars, events>>

UpToLimit(a) == counter[a] <= PostLimit

UnderLimit(a) == counter[a] < PostLimit

CheckLimit(a) ==
  /\ At(a, "limit")
  /\ IF UnderLimit(a) THEN Becomes(a, "proxy") ELSE TaskEnds(a)
  /\ UNCHANGED <<hostVars, assigned, up, todo, bridgeVars, binding, requestVars, postVars, cycles,
                 events>>

GetProxy(a) ==
  /\ At(a, "proxy")
  /\ IF assigned[a] = Nothing THEN TaskEnds(a)
     ELSE pairing' = [pairing EXCEPT ![a].pc = "bridge", ![a].proxy = assigned[a]]
  /\ UNCHANGED <<hostVars, assigned, up, todo, bridgeVars, binding, requestVars, postVars, cycles,
                 events>>

Bridge(a) ==
  LET pair == Pair(a, pairing[a].serial)
  IN /\ At(a, "bridge")
     /\ \/ /\ EnsureBridge(pair, pairing[a].proxy)
           /\ pairing' = [pairing EXCEPT ![a].pc = "apply", ![a].port = bridges'[pair].port]
           /\ UNCHANGED events
        \/ BridgeFails(pair, pairing[a].proxy) /\ TaskEnds(a)
     /\ UNCHANGED <<avd, ready, starting, setting, assigned, up, todo, binding, requestVars, postVars,
                    cycles>>
     /\ Opens

\* apply_http_proxy through adb, which needs a device that answers.  The task notes the
\* connections that are older than its setting.
Apply(a) ==
  LET s == pairing[a].serial
  IN /\ At(a, "apply")
     /\ IF s \in ready
        THEN /\ setting' = [setting EXCEPT ![avd[s]] = pairing[a].port]
             /\ pairing' = [pairing EXCEPT ![a].pc = "verify", ![a].old = tunnels[avd[s]]]
        ELSE TaskEnds(a) /\ UNCHANGED setting
     /\ UNCHANGED <<avd, ready, starting, assigned, up, todo, bridgeVars, binding, requestVars,
                    postVars, cycles, events>>
     /\ Opens

\* The setting is read back and the bridge is called; a mismatch is answered by one rotation.
\* The row 'error' stands for no active row.
Verify(a) ==
  LET s == pairing[a].serial
      good == setting[avd[s]] = pairing[a].port /\ BridgeHealthy(Pair(a, s))
      Bad == IF pairing[a].rotated
             THEN TaskEnds(a) /\ binding' = [binding EXCEPT ![s] = Nothing]
             ELSE Becomes(a, "rotate") /\ UNCHANGED binding
  IN /\ At(a, "verify")
     /\ \/ /\ s \notin ready
           /\ TaskEnds(a) /\ UNCHANGED <<binding, events>>
        \/ /\ s \in ready /\ good
           /\ Becomes(a, "connect") /\ binding' = [binding EXCEPT ![s] = a]
           /\ UNCHANGED events
        \/ /\ s \in ready /\ good
           /\ Event /\ Bad          \* the connection to the bridge times out
        \/ /\ s \in ready /\ ~good
           /\ Bad /\ UNCHANGED events
     /\ UNCHANGED <<hostVars, assigned, up, todo, bridgeVars, requestVars, postVars, cycles>>

\* rotate_proxy releases the account's proxy; the assignment that follows finds one only if an
\* operator has assigned it in between, and fails the call otherwise.
Rotate(a) ==
  /\ At(a, "rotate")
  /\ \/ /\ assigned' = [assigned EXCEPT ![a] = Nothing] /\ TaskEnds(a)
     \/ /\ \E p \in Egresses : assigned' = [assigned EXCEPT ![a] = p]
        /\ pairing' = [pairing EXCEPT ![a].pc = "proxy", ![a].rotated = TRUE]
  /\ UNCHANGED <<hostVars, up, todo, bridgeVars, binding, requestVars, postVars, cycles, events>>

\* An Appium session on the serial; the text of the post is generated.
Connect(a) ==
  /\ At(a, "connect")
  /\ IF pairing[a].serial \in ready THEN Becomes(a, "post") ELSE TaskEnds(a)
  /\ UNCHANGED <<hostVars, assigned, up, todo, bridgeVars, binding, requestVars, postVars, cycles,
                 events>>

Posted(a) == posts' = [posts EXCEPT ![a] = @ + 1]

Post(a) ==
  /\ At(a, "post") /\ pairing[a].serial \in ready
  /\ Posted(a) /\ Becomes(a, "count")
  /\ UNCHANGED <<hostVars, assigned, up, todo, bridgeVars, binding, requestVars, counter, uncounted,
                 cycles, events>>

\* publish_post raises: a screen is missing, or Share was tapped and a block is shown after it.
PostFails(a) ==
  /\ At(a, "post")
  /\ TaskEnds(a)
  /\ \/ /\ UNCHANGED <<posts, uncounted>>
        /\ IF pairing[a].serial \in ready THEN Event ELSE UNCHANGED events
     \/ /\ pairing[a].serial \in ready /\ Event
        /\ Posted(a) /\ uncounted' = [uncounted EXCEPT ![a] = @ + 1]
  /\ UNCHANGED <<hostVars, assigned, up, todo, bridgeVars, binding, requestVars, counter, cycles>>

\* _increment_rate_counter; the log row and the report that follow change nothing here, and the
\* task ends whether or not they succeed.
CountPost(a) ==
  /\ At(a, "count")
  /\ counter' = [counter EXCEPT ![a] = @ + 1] /\ TaskEnds(a)
  /\ UNCHANGED <<hostVars, assigned, up, todo, bridgeVars, binding, requestVars, posts, uncounted,
                 cycles, events>>

\* A call to the distribution engine, Redis or the database fails in all its attempts.
CallFails(a) ==
  /\ pairing[a].pc \in {"limit", "proxy", "rotate", "connect", "count"}
  /\ Event /\ TaskEnds(a)
  /\ uncounted' = IF At(a, "count") THEN [uncounted EXCEPT ![a] = @ + 1] ELSE uncounted
  /\ UNCHANGED <<hostVars, assigned, up, todo, bridgeVars, binding, requestVars, counter, posts,
                 cycles>>

\* Another proxy is assigned to the account in the distribution engine.
Reassign(a, p) ==
  /\ assigned[a] # p /\ Event
  /\ assigned' = [assigned EXCEPT ![a] = p]
  /\ UNCHANGED <<hostVars, up, todo, bridgeVars, binding, pairing, requestVars, postVars, cycles>>

-----------------------------------------------------------------------------
(* Operators' requests.                                                    *)

\* Tasks whose emulator is no longer theirs alone under its serial.
Disturbed(serials) ==
  pairing' = [a \in Users |-> IF pairing[a].serial \in serials
                              THEN [pairing[a] EXCEPT !.disturbed = TRUE] ELSE pairing[a]]

\* adb lists these serials no more, whatever task is using them.
Removed(gone) ==
  /\ avd' = [s \in Serials |-> IF s \in gone THEN Nothing ELSE avd[s]] /\ ready' = ready \ gone
  /\ Disturbed(gone)

Accepted(r) == caller[r].kind = "none" /\ Event

\* A request that needs the emulator takes its lock, or is refused as busy.
Lock(r, s, kind) ==
  /\ up # "down" /\ Accepted(r) /\ holder[s] = Nothing
  /\ holder' = [holder EXCEPT ![s] = r]
  /\ caller' = [caller EXCEPT ![r] = [NoRequest EXCEPT !.kind = kind, !.serial = s]]

Unlock(r) ==
  /\ holder' = [s \in Serials |-> IF holder[s] = r THEN Nothing ELSE holder[s]]
  /\ caller' = [caller EXCEPT ![r] = NoRequest]

\* Taps, swipes, keys, opening the app and liking a comment, through _execute_input_action.
BeginInput(r, s) ==
  /\ Lock(r, s, "input")
  /\ UNCHANGED <<hostVars, assigned, up, todo, bridgeVars, binding, pairing, postVars, cycles>>

EndInput(r) ==
  /\ caller[r].kind = "input" /\ Unlock(r)
  /\ UNCHANGED <<hostVars, assigned, up, todo, bridgeVars, binding, pairing, postVars, cycles,
                 events>>

BeginStop(r, s) ==
  /\ s \in Devices /\ Lock(r, s, "stop")
  /\ UNCHANGED <<hostVars, assigned, up, todo, bridgeVars, binding, pairing, postVars, cycles>>

\* The host agent or adb ends the emulator under all its serials, or disconnects this one and
\* leaves the device on; the request waits until adb no longer lists it.
KillOnStop(r) ==
  /\ caller[r].kind = "stop"
  /\ \E gone \in {{caller[r].serial}, Names(caller[r].serial)} : Removed(gone)
  /\ caller' = [caller EXCEPT ![r].kind = "stopped"]
  /\ UNCHANGED <<starting, setting, tunnels, assigned, up, todo, bridgeVars, binding, holder,
                 postVars, cycles, events>>

\* The lock is released, and its entry deleted in the same step; also when nothing could be ended.
EndStop(r) ==
  /\ caller[r].kind \in {"stop", "stopped"} /\ Unlock(r)
  /\ IF caller[r].kind = "stop" THEN Event ELSE UNCHANGED events
  /\ UNCHANGED <<hostVars, assigned, up, todo, bridgeVars, binding, pairing, postVars, cycles>>

BeginRestart(r, s) ==
  /\ s \in Devices /\ Lock(r, s, "restart")
  /\ UNCHANGED <<hostVars, assigned, up, todo, bridgeVars, binding, pairing, postVars, cycles>>

\* adb reboot: the same AVD comes back under the same serial.
Reboot(r) ==
  /\ caller[r].kind = "restart"
  /\ ready' = ready \ Names(caller[r].serial) /\ Boots(avd[caller[r].serial])
  /\ caller' = [caller EXCEPT ![r].kind = "waiting"]
  /\ UNCHANGED <<avd, starting, setting, assigned, up, todo, bridgeVars, binding, pairing, holder,
                 postVars, cycles, events>>

LaunchesInProgress == {r \in Callers : caller[r].kind = "launch"}
NotAlone(rs) ==
  [r \in Callers |-> IF r \in rs THEN [caller[r] EXCEPT !.alone = FALSE] ELSE caller[r]]

\* The reboot fails: the emulator is killed and its AVD launched again, under any free serial,
\* while the request waits for the old one.
Relaunch(r) ==
  LET s == caller[r].serial
  IN /\ caller[r].kind = "restart" /\ Event
     /\ avd[s] # Nothing
     /\ Removed(Names(s)) /\ starting' = starting \cup {avd[s]}
     /\ caller' = [NotAlone(LaunchesInProgress) EXCEPT ![r].kind = "waiting"]
     /\ UNCHANGED <<setting, tunnels, assigned, up, todo, bridgeVars, binding, holder, postVars,
                    cycles>>

\* wait_for_status sees 'device' or gives up; the lock is released either way.
EndRestart(r) ==
  /\ caller[r].kind = "waiting" /\ Unlock(r)
  /\ UNCHANGED <<hostVars, assigned, up, todo, bridgeVars, binding, pairing, postVars, cycles,
                 events>>

\* launch_avd notes what adb lists, nothing when adb fails, and has the host start the AVD.  No
\* lock is taken.
BeginLaunch(r, v) ==
  /\ up # "down" /\ Accepted(r)
  /\ v \notin starting /\ \A s \in Serials : avd[s] # v
  /\ \E before \in {Devices, {}} :
       caller' = [NotAlone(LaunchesInProgress) EXCEPT
                     ![r] = [NoRequest EXCEPT !.kind = "launch", !.avd = v, !.before = before,
                               !.alone = starting = {} /\ before = Devices]]
  /\ starting' = starting \cup {v}
  /\ UNCHANGED <<avd, ready, setting, tunnels, assigned, up, todo, bridgeVars, binding, pairing, holder,
                 postVars, cycles>>

ClaimableAny(r) == Devices

\* The first listed serial that was not there before is taken for the new emulator.
Claimable(r) == Devices \ caller[r].before

Claim(r) ==
  /\ caller[r].kind = "launch"
  /\ \E s \in Claimable(r) : caller' = [caller EXCEPT ![r].kind = "claimed", ![r].serial = s]
  /\ UNCHANGED <<hostVars, assigned, up, todo, bridgeVars, binding, pairing, holder, postVars,
                 cycles, events>>

\* The launch is answered: with the serial, or as pending when none appeared in time.
EndLaunch(r) ==
  /\ caller[r].kind \in {"launch", "claimed"} /\ Unlock(r)
  /\ UNCHANGED <<hostVars, assigned, up, todo, bridgeVars, binding, pairing, postVars, cycles,
                 events>>

-----------------------------------------------------------------------------
(* The host, and the end of the process.                                   *)

\* A launched AVD shows up under a free serial.
Appear(v, s) ==
  /\ v \in starting /\ avd[s] = Nothing
  /\ avd' = [avd EXCEPT ![s] = v] /\ starting' = starting \ {v} /\ Boots(v)
  /\ UNCHANGED <<ready, setting, assigned, up, todo, bridgeVars, binding, pairing, requestVars, postVars,
                 cycles, events>>

Boot(s) ==
  /\ s \in Devices \ ready
  /\ ready' = ready \cup {s}
  /\ UNCHANGED <<avd, starting, setting, tunnels, assigned, up, todo, bridgeVars, binding, pairing, requestVars,
                 postVars, cycles, events>>

\* adb connect of an operator, without a lock, or by hand on the host: a device that is on is
\* listed under a serial (host:port), a second one when adb lists it already.
AdbConnect(v, s) ==
  /\ Event /\ v \notin starting /\ avd[s] = Nothing
  /\ avd' = [avd EXCEPT ![s] = v] /\ ready' \in {ready, ready \cup {s}}
  /\ Disturbed({t \in Devices : avd[t] = v})
  /\ caller' = NotAlone(LaunchesInProgress)
  /\ UNCHANGED <<starting, setting, tunnels, assigned, up, todo, bridgeVars, binding, holder, postVars,
                 cycles>>

\* Bridges, pins, locks and tasks die with the process, and what its bridges carried.
Die ==
  /\ up # "down" /\ Event
  /\ up' = "down" /\ todo' = {}
  /\ bridges' = <<>> /\ pins' = <<>> /\ unbound' = {}
  /\ pairing' = [a \in Users |-> Unpaired]
  /\ holder' = [s \in Serials |-> Nothing] /\ caller' = [r \in Callers |-> NoRequest]
  /\ uncounted' = [a \in Users |-> IF At(a, "count") THEN uncounted[a] + 1 ELSE uncounted[a]]
  /\ tunnels' = [v \in Avds |-> tunnels[v] \cap {Nothing}]
  /\ UNCHANGED <<avd, ready, starting, setting, assigned, binding, counter, posts, cycles>>

Task(a) ==
  \/ CheckLimit(a) \/ GetProxy(a) \/ Bridge(a) \/ Apply(a) \/ Verify(a) \/ Rotate(a) \/ Connect(a)
  \/ Post(a) \/ PostFails(a) \/ CountPost(a) \/ CallFails(a)

Operator(r) ==
  \/ \E s \in Serials : BeginInput(r, s) \/ BeginStop(r, s) \/ BeginRestart(r, s)
  \/ EndInput(r) \/ KillOnStop(r) \/ EndStop(r) \/ Reboot(r) \/ Relaunch(r) \/ EndRestart(r)
  \/ \E v \in Avds : BeginLaunch(r, v)
  \/ Claim(r) \/ EndLaunch(r)

FleetNext ==
  \/ ControllerStart \/ Reconciled \/ StartCycle \/ Die
  \/ \E s \in Serials : Reconcile(s) \/ Boot(s) \/ \E v \in Avds : Appear(v, s) \/ AdbConnect(v, s)
  \/ \E a \in Users : Task(a) \/ \E p \in Egresses : Reassign(a, p)
  \/ \E r \in Callers : Operator(r)

FleetSpec == FleetInit /\ [][FleetNext]_fleetVars

-----------------------------------------------------------------------------
(* Properties.                                                             *)

TaskPcs == {"idle", "limit", "proxy", "bridge", "apply", "verify", "rotate", "connect", "post",
            "count"}
Kinds == {"none", "input", "stop", "stopped", "restart", "waiting", "launch", "claimed"}
Pairs == Users \X Serials

\* Types; no AVD that runs is being started, and a task that is under way has a serial of its own.
FleetTypeOK ==
  /\ avd \in [Serials -> Avds \cup {Nothing}] /\ ready \subseteq Devices /\ starting \subseteq Avds
  /\ \A s \in Devices : avd[s] \notin starting
  /\ setting \in [Avds -> Ports \cup {0}] /\ tunnels \in [Avds -> SUBSET (Egresses \cup {Nothing})]
  /\ assigned \in [Users -> Egresses \cup {Nothing}]
  /\ up \in {"down", "reconcile", "run"} /\ todo \subseteq Serials
  /\ DOMAIN bridges \subseteq DOMAIN pins /\ DOMAIN pins \subseteq Pairs /\ unbound \subseteq Pairs
  /\ \A q \in DOMAIN bridges : bridges[q].port = pins[q] /\ bridges[q].upstream \in Egresses
  /\ \A q \in DOMAIN pins : pins[q] \in Ports
  /\ binding \in [Serials -> Users \cup {Nothing}]
  /\ \A a \in Users : pairing[a].pc \in TaskPcs /\ (pairing[a].serial = Nothing <=> At(a, "idle"))
  /\ \A a, b \in Users : pairing[a].serial = pairing[b].serial => a = b \/ At(a, "idle")
  /\ holder \in [Serials -> Callers \cup {Nothing}]
  /\ \A r \in Callers : caller[r].kind \in Kinds
  /\ counter \in [Users -> Nat] /\ posts \in [Users -> Nat] /\ uncounted \in [Users -> Nat]

\* The emulator's setting leads to this task's bridge, and the bridge to the proxy the task was
\* given for its account.
Routed(a) ==
  LET s == pairing[a].serial
      pair == Pair(a, s)
  IN /\ setting[avd[s]] = pairing[a].port
     /\ {q \in DOMAIN bridges : bridges[q].port = pairing[a].port} = {pair}
     /\ bridges[pair].upstream = pairing[a].proxy

\* A connection of the emulator leads to the task's proxy, or is older than the task's setting.
OwnOrOld(a) == tunnels[avd[pairing[a].serial]] \subseteq {pairing[a].proxy} \cup pairing[a].old

\* When an account's post goes out a new connection leads to the account's own proxy, and so does
\* every open one, but for those the device opened before the task pointed it at its bridge:
\* across rotations, failing bridges, deaths of the controller and the other accounts' bridges,
\* unless the emulator was replaced, or listed under a second serial, meanwhile.
PostsThroughOwnProxy ==
  [][\A a \in Users : posts'[a] > posts[a] =>
       (Routed(a) /\ OwnOrOld(a)) \/ pairing[a].disturbed]_fleetVars

\* Two pairs are pinned to one port only when a server failed to start on a port nobody used: then
\* the port of a bridge that is gone was given away.
PinsDistinct ==
  \A q1, q2 \in DOMAIN pins : pins[q1] = pins[q2] => q1 = q2 \/ q1 \in unbound \/ q2 \in unbound

\* The daily limit is passed only by posts whose task ended before it counted them.
PostsWithinLimit == \A a \in Users : posts[a] <= PostLimit + uncounted[a]

\* No two requests work on one serial, although a stop deletes the lock itself.
RequestsExclusive ==
  \A r, q \in Callers :
    /\ caller[r].serial = caller[q].serial /\ caller[r].serial # Nothing
    /\ {caller[r].kind, caller[q].kind} \cap {"launch", "claimed"} = {}
    => r = q

\* Types and the two exclusions: of ports and of the emulators' locks.
FleetInvariant == FleetTypeOK /\ PinsDistinct /\ RequestsExclusive

\* A launch answers with its own emulator, unless another one was being launched or connected
\* meanwhile or adb failed when it looked.
LaunchClaimsOwn ==
  [][\A r \in Callers :
       caller[r].kind = "launch" /\ caller'[r].kind = "claimed" =>
         avd[caller'[r].serial] = caller[r].avd \/ ~caller[r].alone]_fleetVars

=============================================================================
