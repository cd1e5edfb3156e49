--------------------------- MODULE Posting_proofs ---------------------------
(***************************************************************************)
(* The device fleet and the legacy packet queue, for any number of         *)
(* emulators, hosts, callers, packets, accounts and workers.               *)
(***************************************************************************)
EXTENDS DeviceFleet, LegacyPacketQueue, FiniteSetTheorems, SequenceTheorems, WellFoundedInduction, TLAPS

-----------------------------------------------------------------------------
(***************************************************************************)
(* DeviceFleet. Posts leave through their account's proxy and within the   *)
(* daily limit. A bridge is changed only for its own pair, and its port is *)
(* one nobody listened on when it was opened, so a task that has its       *)
(* bridge keeps it until it posts. Tasks under way have serials of their   *)
(* own, and one whose emulator goes away or gets a second serial is marked *)
(* as disturbed. So nobody writes the setting of an emulator between its   *)
(* task's own writing and the post, and the connections opened meanwhile   *)
(* lead to the task's bridge.                                              *)
(***************************************************************************)

PairingRecords ==
  [pc : TaskPcs, serial : Serials \cup {Nothing}, proxy : Egresses \cup {Nothing},
   port : Ports \cup {0}, rotated : BOOLEAN, old : SUBSET (Egresses \cup {Nothing}),
   disturbed : BOOLEAN]

CallerRecords ==
  [kind : Kinds, serial : Serials \cup {Nothing}, avd : Avds \cup {Nothing},
   before : SUBSET Serials, alone : BOOLEAN]

\* The emulators: an AVD that is starting runs under no serial.
HostsOK ==
  /\ avd \in [Serials -> Avds \cup {Nothing}] /\ ready \subseteq Devices /\ starting \subseteq Avds
  /\ \A s \in Devices : avd[s] \notin starting

SettingsOK ==
  setting \in [Avds -> Ports \cup {0}] /\ tunnels \in [Avds -> SUBSET (Egresses \cup {Nothing})]

\* A pair without a bridge has its pin because a server failed to start.
BridgesOK ==
  /\ DOMAIN bridges \subseteq DOMAIN pins /\ DOMAIN pins \subseteq Pairs /\ unbound \subseteq Pairs
  /\ \A q \in DOMAIN bridges : bridges[q].port = pins[q] /\ bridges[q].upstream \in Egresses
  /\ \A q \in DOMAIN pins : pins[q] \in Ports
  /\ \A q1, q2 \in DOMAIN bridges : bridges[q1].port = bridges[q2].port => q1 = q2
  /\ DOMAIN pins \ DOMAIN bridges \subseteq unbound
  /\ PinsDistinct

\* What the controller and the distribution engine remember.
RowsOK ==
  /\ assigned \in [Users -> Egresses \cup {Nothing}]
  /\ up \in {"down", "reconcile", "run"} /\ todo \subseteq Serials
  /\ binding \in [Serials -> Users \cup {Nothing}]
  /\ up = "reconcile" => \A s \in todo : binding[s] \in Users

\* Tasks run in a controller that runs, each with a serial of its own.
TasksOK ==
  /\ pairing \in [Users -> PairingRecords]
  /\ \A a \in Users : pairing[a].serial = Nothing <=> At(a, "idle")
  /\ \A a, b \in Users : pairing[a].serial = pairing[b].serial => a = b \/ At(a, "idle")
  /\ \A a \in Users : ~At(a, "idle") => up = "run"
  /\ \A a \in Users : At(a, "bridge") => pairing[a].proxy \in Egresses

\* A task that is not disturbed has its emulator for itself.
EmulatorsOK ==
  \A a \in Users : ~At(a, "idle") /\ ~pairing[a].disturbed =>
    /\ avd[pairing[a].serial] # Nothing
    /\ \A s \in Serials \ {pairing[a].serial} : avd[s] # avd[pairing[a].serial]

\* A task that has its bridge keeps it until it has posted.
BridgeInUse(a) ==
  LET pair == Pair(a, pairing[a].serial)
  IN /\ pair \in DOMAIN bridges
     /\ bridges[pair].port = pairing[a].port /\ bridges[pair].upstream = pairing[a].proxy

RoutesOK == \A a \in Users : pairing[a].pc \in {"apply", "verify", "connect", "post"} => BridgeInUse(a)

\* From its writing to the post the emulator's setting is the task's port.
SettingInUse ==
  \A a \in Users : pairing[a].pc \in {"verify", "connect", "post"} /\ ~pairing[a].disturbed =>
    setting[avd[pairing[a].serial]] = pairing[a].port

\* Since then only connections to the task's proxy have been opened.
TunnelsInUse ==
  \A a \in Users : pairing[a].pc \in {"verify", "connect", "post"} /\ ~pairing[a].disturbed => OwnOrOld(a)

\* Every post is counted, uncounted, or about to be counted by its task.
CountsOK ==
  /\ counter \in [Users -> Nat] /\ posts \in [Users -> Nat] /\ uncounted \in [Users -> Nat]
  /\ \A a \in Users :
       /\ posts[a] = counter[a] + uncounted[a] + (IF At(a, "count") THEN 1 ELSE 0)
       /\ counter[a] <= PostLimit
       /\ pairing[a].pc \notin {"idle", "limit"} => counter[a] < PostLimit

\* A request that works on an emulator holds its lock.
LocksOK ==
  /\ holder \in [Serials -> Callers \cup {Nothing}]
  /\ caller \in [Callers -> CallerRecords]
  /\ \A r \in Callers :
       /\ caller[r].kind = "none" => caller[r].serial = Nothing
       /\ caller[r].kind \in {"input", "stop", "stopped", "restart", "waiting"} =>
            caller[r].serial \in Serials /\ holder[caller[r].serial] = r

\* While a launch is alone, nothing else is starting, and what it has not listed is its own.
LaunchesOK ==
  \A r \in Callers : caller[r].kind = "launch" /\ caller[r].alone =>
    /\ starting \subseteq {caller[r].avd}
    /\ \A s \in Devices \ caller[r].before : avd[s] = caller[r].avd

FleetInductive ==
  /\ HostsOK /\ SettingsOK /\ BridgesOK /\ RowsOK /\ TasksOK /\ EmulatorsOK /\ RoutesOK
  /\ SettingInUse /\ TunnelsInUse /\ CountsOK /\ LocksOK /\ LaunchesOK

\* The invariant that is checked follows.
LEMMA InvariantFollows == FleetInductive => FleetInvariant /\ PostsWithinLimit
<1> SUFFICES ASSUME FleetInductive PROVE FleetInvariant /\ PostsWithinLimit
  OBVIOUS
<1>1. \A a \in Users : pairing[a].pc \in TaskPcs
  BY DEF FleetInductive, TasksOK, PairingRecords
<1>2. \A r \in Callers : caller[r].kind \in Kinds
  BY DEF FleetInductive, LocksOK, CallerRecords
<1>3. FleetTypeOK
  BY <1>1, <1>2 DEF FleetTypeOK, FleetInductive, HostsOK, SettingsOK, BridgesOK, RowsOK, TasksOK, CountsOK, LocksOK
<1>4. RequestsExclusive
  <2> SUFFICES ASSUME NEW r \in Callers, NEW q \in Callers,
                      caller[r].serial = caller[q].serial, caller[r].serial # Nothing,
                      {caller[r].kind, caller[q].kind} \cap {"launch", "claimed"} = {}
               PROVE  r = q
    BY DEF RequestsExclusive
  <2> QED BY <1>2 DEF FleetInductive, LocksOK, Kinds
<1>5. PostsWithinLimit
  <2> SUFFICES ASSUME NEW a \in Users PROVE posts[a] <= PostLimit + uncounted[a]
    BY DEF PostsWithinLimit
  <2>1. CASE At(a, "count")
    BY <2>1, FleetAssumption DEF FleetInductive, CountsOK, At
  <2>2. CASE ~At(a, "count")
    BY <2>2, FleetAssumption DEF FleetInductive, CountsOK
  <2> QED BY <2>1, <2>2
<1> QED BY <1>3, <1>4, <1>5 DEF FleetInvariant, FleetInductive, BridgesOK

-----------------------------------------------------------------------------
(* The bridges.                                                            *)

\* The port of a pair that has none yet is one nobody listens on.
LEMMA ResolvedIsFree ==
  ASSUME NEW pair, pair \notin DOMAIN pins, FreePorts # {}
  PROVE  ResolvePort(pair) \in FreePorts
<1> DEFINE Less == {ss \in Nat \X Nat : ss[1] < ss[2]}
<1>1. FreePorts \subseteq Nat
  BY FleetAssumption DEF FreePorts, Ports
<1>2. IsWellFoundedOn(Less, Nat)
  BY NatLessThanWellFounded DEF OpToRel
<1>3. \E p \in FreePorts : \A q \in FreePorts : <<q, p>> \notin Less
  <2> HIDE DEF Less
  <2> QED BY <1>1, <1>2, WFMin
<1>4. \E p \in FreePorts : \A q \in FreePorts : p <= q
  <2>1. \A p, q \in Nat : <<q, p>> \notin Less => p <= q
    OBVIOUS
  <2> HIDE DEF Less
  <2> QED BY <1>1, <1>3, <2>1
<1> QED BY <1>4 DEF ResolvePort

\* The bridges of the other pairs stay as they are.
OthersStay(pair) ==
  \A q \in DOMAIN bridges \ {pair} : q \in DOMAIN bridges' /\ bridges'[q] = bridges[q]

\* A pair that gets a bridge takes a port from nobody.
LEMMA EnsureKeeps ==
  ASSUME BridgesOK, NEW pair \in Pairs, NEW upstream \in Egresses, EnsureBridge(pair, upstream)
  PROVE  /\ BridgesOK' /\ OthersStay(pair)
         /\ pair \in DOMAIN bridges' /\ bridges'[pair].upstream = upstream
         /\ bridges'[pair].port \in Ports
<1>1. CASE Reusable(pair, upstream) /\ UNCHANGED bridgeVars
  BY <1>1 DEF BridgesOK, PinsDistinct, OthersStay, Reusable, bridgeVars
<1>2. CASE ~(Reusable(pair, upstream) /\ UNCHANGED bridgeVars)
  <2> DEFINE port == ResolvePort(pair)
  <2>1. /\ pair \in DOMAIN pins \/ FreePorts # {}
        /\ port \notin Listening(Others(pair))
        /\ bridges' = [q \in DOMAIN bridges \cup {pair} |->
                         IF q = pair THEN [port |-> port, upstream |-> upstream] ELSE bridges[q]]
        /\ pins' = [q \in DOMAIN pins \cup {pair} |-> IF q = pair THEN port ELSE pins[q]]
        /\ unbound' = unbound
    BY <1>2 DEF EnsureBridge, Pin
  <2>2. pair \in DOMAIN pins => port = pins[pair]
    BY DEF ResolvePort
  <2>3. pair \notin DOMAIN pins => port \in FreePorts
    BY <2>1, ResolvedIsFree
  <2>4. port \in Ports
    BY <2>2, <2>3 DEF BridgesOK, FreePorts
  <2>5. \A q \in DOMAIN bridges \ {pair} : bridges[q].port # port
    BY <2>1 DEF Listening, Others
  <2> HIDE DEF port
  <2>6. /\ DOMAIN bridges' = DOMAIN bridges \cup {pair} /\ DOMAIN pins' = DOMAIN pins \cup {pair}
        /\ bridges'[pair] = [port |-> port, upstream |-> upstream] /\ pins'[pair] = port
        /\ \A q \in DOMAIN bridges \ {pair} : bridges'[q] = bridges[q]
        /\ \A q \in DOMAIN pins \ {pair} : pins'[q] = pins[q]
    BY <2>1
  <2>7. \A q \in DOMAIN pins \ {pair} : pins[q] = port => q \in unbound \/ pair \in unbound
    <3> SUFFICES ASSUME NEW q \in DOMAIN pins \ {pair}, pins[q] = port PROVE q \in unbound \/ pair \in unbound
      OBVIOUS
    <3>1. CASE pair \in DOMAIN pins
      BY <3>1, <2>2 DEF BridgesOK, PinsDistinct
    <3>2. CASE pair \notin DOMAIN pins
      BY <3>2, <2>5 DEF BridgesOK
    <3> QED BY <3>1, <3>2
  <2>8. PinsDistinct'
    BY <2>1, <2>6, <2>7 DEF BridgesOK, PinsDistinct
  <2> QED BY <2>1, <2>4, <2>5, <2>6, <2>8 DEF BridgesOK, OthersStay
<1> QED BY <1>1, <1>2

\* A server that does not start leaves its pair without a bridge, and a pin that is explained.
LEMMA FailKeeps ==
  ASSUME BridgesOK, NEW pair \in Pairs, NEW upstream \in Egresses, BridgeFails(pair, upstream)
  PROVE  BridgesOK' /\ OthersStay(pair)
<1>1. /\ bridges' = Others(pair)
      /\ DOMAIN bridges' = DOMAIN bridges \ {pair}
      /\ \A q \in DOMAIN bridges \ {pair} : bridges'[q] = bridges[q]
  BY DEF BridgeFails, Others
<1>2. CASE pair \notin DOMAIN pins /\ FreePorts = {} /\ UNCHANGED <<pins, unbound>>
  BY <1>1, <1>2 DEF BridgesOK, PinsDistinct, OthersStay
<1>3. CASE pair \in DOMAIN pins \/ FreePorts # {}
  <2> DEFINE port == ResolvePort(pair)
  <2>1. /\ pins' = [q \in DOMAIN pins \cup {pair} |-> IF q = pair THEN port ELSE pins[q]]
        /\ \/ port \in Listening(Others(pair)) /\ unbound' = unbound
           \/ port \notin Listening(Others(pair)) /\ unbound' = unbound \cup {pair}
    BY <1>3 DEF BridgeFails, Pin
  <2>2. pair \in DOMAIN pins => port = pins[pair]
    BY DEF ResolvePort
  <2>3. pair \notin DOMAIN pins => port \in FreePorts
    BY <1>3, ResolvedIsFree
  <2>4. port \in Ports
    BY <2>2, <2>3 DEF BridgesOK, FreePorts
  <2>5. port \in Listening(Others(pair)) => pair \in DOMAIN pins /\ pair \notin DOMAIN bridges /\ pair \in unbound
    BY <2>2, <2>3 DEF Listening, Others, FreePorts, BridgesOK
  <2> HIDE DEF port
  <2>6. /\ DOMAIN pins' = DOMAIN pins \cup {pair} /\ pins'[pair] = port
        /\ \A q \in DOMAIN pins \ {pair} : pins'[q] = pins[q]
    BY <2>1
  <2>7. unbound \subseteq unbound' /\ pair \in unbound' /\ unbound' \subseteq Pairs
    BY <2>1, <2>5 DEF BridgesOK
  <2>8. PinsDistinct'
    BY <2>6, <2>7 DEF BridgesOK, PinsDistinct
  <2> QED BY <1>1, <2>4, <2>6, <2>7, <2>8 DEF BridgesOK, OthersStay
<1> QED BY <1>2, <1>3 DEF BridgeFails

-----------------------------------------------------------------------------
(* What the actions leave alone.                                           *)

\* A task changes no emulator, no request, and not the state of the controller.
LEMMA TaskFrame ==
  ASSUME NEW a \in Users, Task(a)
  PROVE  UNCHANGED <<avd, ready, starting, up, todo, holder, caller>>
BY DEF Task, CheckLimit, GetProxy, Bridge, Apply, Verify, Rotate, Connect, Post, PostFails, CountPost,
       CallFails, hostVars, requestVars

\* An operator's request changes no bridge, no setting, no counter and no row.
LEMMA OperatorFrame ==
  ASSUME NEW r \in Callers, Operator(r)
  PROVE  UNCHANGED <<setting, assigned, up, todo, bridges, pins, unbound, binding, counter, posts, uncounted>>
BY DEF Operator, BeginInput, BeginStop, BeginRestart, EndInput, KillOnStop, EndStop, Reboot, Relaunch,
       EndRestart, BeginLaunch, Claim, EndLaunch, hostVars, bridgeVars, postVars

\* The host changes emulators only.
LEMMA HostFrame ==
  ASSUME NEW s \in Serials, Boot(s) \/ \E v \in Avds : Appear(v, s)
  PROVE  /\ UNCHANGED <<setting, assigned, up, todo, bridges, pins, unbound, binding, pairing>>
         /\ UNCHANGED <<holder, caller, counter, posts, uncounted>>
BY DEF Boot, Appear, bridgeVars, requestVars, postVars

\* adb connect changes what is listed, and marks the tasks and launches it disturbs.
LEMMA AdbFrame ==
  ASSUME NEW v \in Avds, NEW s \in Serials, AdbConnect(v, s)
  PROVE  /\ UNCHANGED <<setting, tunnels, assigned, up, todo, bridges, pins, unbound, binding, starting>>
         /\ UNCHANGED <<holder, counter, posts, uncounted>>
BY DEF AdbConnect, bridgeVars, postVars

\* What the controller does by itself leaves emulators and posts alone.
LEMMA ControllerFrame ==
  ASSUME \/ ControllerStart \/ Reconciled \/ StartCycle
         \/ \E s \in Serials : Reconcile(s)
         \/ \E a \in Users, p \in Egresses : Reassign(a, p)
  PROVE  UNCHANGED <<avd, ready, starting, holder, caller, counter, posts, uncounted>>
BY DEF ControllerStart, Reconciled, StartCycle, Reconcile, Reassign, hostVars, requestVars, postVars

\* The cases of a step.
LEMMA Cases ==
  ASSUME FleetNext
  PROVE  \/ ControllerStart \/ Reconciled \/ StartCycle \/ Die
         \/ \E s \in Serials : Reconcile(s)
         \/ \E s \in Serials : Boot(s) \/ \E v \in Avds : Appear(v, s)
         \/ \E s \in Serials, v \in Avds : AdbConnect(v, s)
         \/ \E a \in Users : Task(a)
         \/ \E a \in Users, p \in Egresses : Reassign(a, p)
         \/ \E r \in Callers : Operator(r)
BY DEF FleetNext

-----------------------------------------------------------------------------
(* The tasks.                                                              *)

\* The forms a task's record takes.
LEMMA PairingForms ==
  ASSUME NEW t \in PairingRecords, NEW pc \in TaskPcs
  PROVE  /\ [t EXCEPT !.pc = pc] \in PairingRecords
         /\ \A p \in Egresses : [t EXCEPT !.pc = pc, !.proxy = p] \in PairingRecords
         /\ \A port \in Ports : [t EXCEPT !.pc = pc, !.port = port] \in PairingRecords
         /\ [t EXCEPT !.pc = pc, !.rotated = TRUE] \in PairingRecords
         /\ \A old \in SUBSET (Egresses \cup {Nothing}) : [t EXCEPT !.pc = pc, !.old = old] \in PairingRecords
         /\ [t EXCEPT !.disturbed = TRUE] \in PairingRecords
BY DEF PairingRecords

LEMMA UnpairedTyped ==
  /\ Unpaired \in PairingRecords /\ Unpaired.pc = "idle" /\ Unpaired.serial = Nothing
  /\ \A s \in Serials, d \in BOOLEAN :
       [Unpaired EXCEPT !.pc = "limit", !.serial = s, !.disturbed = d] \in PairingRecords
BY DEF Unpaired, PairingRecords, TaskPcs

\* A task that goes on keeps its emulator; one that ends has none.
MovesOn(a) ==
  /\ ~At(a, "idle")
  /\ \E x \in PairingRecords :
       /\ pairing' = [pairing EXCEPT ![a] = x]
       /\ \/ x = Unpaired
          \/ /\ x.serial = pairing[a].serial /\ x.disturbed = pairing[a].disturbed
             /\ x.pc # "idle" /\ (x.pc = "bridge" => x.proxy \in Egresses)

LEMMA BecomesMoves ==
  ASSUME TasksOK, NEW a \in Users, ~At(a, "idle"), NEW pc \in TaskPcs \ {"idle", "bridge"}, Becomes(a, pc)
  PROVE  MovesOn(a)
<1> DEFINE x == [pairing[a] EXCEPT !.pc = pc]
<1>1. x \in PairingRecords
  BY PairingForms DEF TasksOK
<1>2. pairing' = [pairing EXCEPT ![a] = x]
  BY DEF Becomes
<1>3. x.serial = pairing[a].serial /\ x.disturbed = pairing[a].disturbed /\ x.pc \notin {"idle", "bridge"}
  BY DEF TasksOK, PairingRecords
<1> QED BY <1>1, <1>2, <1>3 DEF MovesOn

LEMMA EndsMoves ==
  ASSUME NEW a \in Users, ~At(a, "idle"), TaskEnds(a)
  PROVE  MovesOn(a)
BY UnpairedTyped DEF MovesOn, TaskEnds

LEMMA TaskMoves ==
  ASSUME TasksOK, RowsOK, BridgesOK, HostsOK, SettingsOK, NEW a \in Users, Task(a)
  PROVE  MovesOn(a)
<1>1. {"proxy", "apply", "verify", "rotate", "connect", "post", "count"} \subseteq TaskPcs \ {"idle", "bridge"}
  BY DEF TaskPcs
<1>t. pairing[a] \in PairingRecords
  BY DEF TasksOK
<1>2. CASE \E pc \in TaskPcs \ {"idle", "bridge"} : ~At(a, "idle") /\ Becomes(a, pc)
  BY <1>2, BecomesMoves
<1>3. CASE ~At(a, "idle") /\ TaskEnds(a)
  BY <1>3, EndsMoves
<1>4. CASE GetProxy(a)
  <2>1. CASE assigned[a] = Nothing
    BY <1>3, <1>4, <2>1 DEF GetProxy, At
  <2>2. CASE assigned[a] # Nothing
    <3> DEFINE x == [pairing[a] EXCEPT !.pc = "bridge", !.proxy = assigned[a]]
    <3>1. assigned[a] \in Egresses
      BY <2>2 DEF RowsOK
    <3>2. "bridge" \in TaskPcs
      BY DEF TaskPcs
    <3>3. x \in PairingRecords
      BY <1>t, <3>1, <3>2, PairingForms, Zenon
    <3>4. x.serial = pairing[a].serial /\ x.disturbed = pairing[a].disturbed /\ x.pc = "bridge" /\ x.proxy = assigned[a]
      BY <1>t DEF PairingRecords
    <3>5. pairing' = [pairing EXCEPT ![a] = x] /\ ~At(a, "idle")
      BY <1>4, <2>2 DEF GetProxy, At
    <3> QED BY <3>1, <3>3, <3>4, <3>5 DEF MovesOn
  <2> QED BY <2>1, <2>2
<1>5. CASE Bridge(a)
  <2> DEFINE pair == Pair(a, pairing[a].serial)
  <2>1. ~At(a, "idle")
    BY <1>5 DEF Bridge, At
  <2>2. CASE EnsureBridge(pair, pairing[a].proxy)
               /\ pairing' = [pairing EXCEPT ![a].pc = "apply", ![a].port = bridges'[pair].port]
    <3> DEFINE x == [pairing[a] EXCEPT !.pc = "apply", !.port = bridges'[pair].port]
    <3>1. pair \in Pairs /\ pairing[a].proxy \in Egresses
      BY <1>5, <1>t, <2>1 DEF Bridge, TasksOK, PairingRecords, Pairs, Pair, At
    <3>2. bridges'[pair].port \in Ports
      BY <2>2, <3>1, EnsureKeeps
    <3>3. "apply" \in TaskPcs
      BY DEF TaskPcs
    <3>4. x \in PairingRecords
      BY <1>t, <3>2, <3>3, PairingForms, Zenon
    <3>5. x.serial = pairing[a].serial /\ x.disturbed = pairing[a].disturbed /\ x.pc \notin {"idle", "bridge"}
      BY <1>t DEF PairingRecords
    <3> QED BY <2>1, <2>2, <3>4, <3>5 DEF MovesOn
  <2> QED BY <1>3, <1>5, <2>1, <2>2 DEF Bridge
<1>6. CASE Rotate(a)
  <2>1. ~At(a, "idle")
    BY <1>6 DEF Rotate, At
  <2>2. CASE pairing' = [pairing EXCEPT ![a].pc = "proxy", ![a].rotated = TRUE]
    <3> DEFINE x == [pairing[a] EXCEPT !.pc = "proxy", !.rotated = TRUE]
    <3>1. "proxy" \in TaskPcs
      BY DEF TaskPcs
    <3>2. x \in PairingRecords
      BY <1>t, <3>1, PairingForms, Zenon
    <3>3. x.serial = pairing[a].serial /\ x.disturbed = pairing[a].disturbed /\ x.pc \notin {"idle", "bridge"}
      BY <1>t DEF PairingRecords
    <3> QED BY <2>1, <2>2, <3>2, <3>3 DEF MovesOn
  <2> QED BY <1>3, <1>6, <2>1, <2>2 DEF Rotate
<1>9. CASE Apply(a)
  <2> DEFINE s == pairing[a].serial
             x == [pairing[a] EXCEPT !.pc = "verify", !.old = tunnels[avd[s]]]
  <2>1. ~At(a, "idle")
    BY <1>9 DEF Apply, At
  <2>2. CASE s \in ready /\ pairing' = [pairing EXCEPT ![a].pc = "verify", ![a].old = tunnels[avd[s]]]
    <3>1. tunnels[avd[s]] \in SUBSET (Egresses \cup {Nothing})
      BY <2>2 DEF HostsOK, SettingsOK, Devices
    <3>2. "verify" \in TaskPcs
      BY DEF TaskPcs
    <3>3. x \in PairingRecords
      BY <1>t, <3>1, <3>2, PairingForms, Zenon
    <3>4. x.serial = pairing[a].serial /\ x.disturbed = pairing[a].disturbed /\ x.pc \notin {"idle", "bridge"}
      BY <1>t DEF PairingRecords
    <3>5. pairing' = [pairing EXCEPT ![a] = x]
      BY <2>2
    <3> HIDE DEF x
    <3> QED BY <2>1, <3>3, <3>4, <3>5 DEF MovesOn
  <2> QED BY <1>3, <1>9, <2>1, <2>2 DEF Apply
<1>7. CASE CheckLimit(a) \/ Connect(a) \/ Post(a) \/ PostFails(a) \/ CountPost(a) \/ CallFails(a)
  BY <1>1, <1>2, <1>3, <1>7 DEF CheckLimit, Connect, Post, PostFails, CountPost, CallFails, At
<1>8. CASE Verify(a)
  BY <1>1, <1>2, <1>3, <1>8 DEF Verify, At
<1> QED BY <1>4, <1>5, <1>6, <1>7, <1>8, <1>9 DEF Task

\* Tasks that are disturbed are marked, and keep the rest of their records.
LEMMA DisturbedTasks ==
  ASSUME TasksOK, NEW serials, Disturbed(serials)
  PROVE  /\ pairing' \in [Users -> PairingRecords]
         /\ \A a \in Users :
              /\ pairing'[a].pc = pairing[a].pc /\ pairing'[a].serial = pairing[a].serial
              /\ pairing'[a].port = pairing[a].port /\ pairing'[a].proxy = pairing[a].proxy
              /\ pairing'[a].old = pairing[a].old
              /\ ~pairing'[a].disturbed => ~pairing[a].disturbed /\ pairing[a].serial \notin serials
<1>1. ASSUME NEW a \in Users PROVE [pairing[a] EXCEPT !.disturbed = TRUE] \in PairingRecords
  <2>1. pairing[a] \in PairingRecords /\ pairing[a].pc \in TaskPcs
    BY DEF TasksOK, PairingRecords
  <2> QED BY <2>1, PairingForms, Zenon
<1>2. pairing' \in [Users -> PairingRecords]
  BY <1>1 DEF Disturbed, TasksOK
<1>3. \A a \in Users :
        /\ pairing'[a].pc = pairing[a].pc /\ pairing'[a].serial = pairing[a].serial
        /\ pairing'[a].port = pairing[a].port /\ pairing'[a].proxy = pairing[a].proxy
        /\ pairing'[a].old = pairing[a].old
        /\ ~pairing'[a].disturbed => ~pairing[a].disturbed /\ pairing[a].serial \notin serials
  BY DEF Disturbed, TasksOK, PairingRecords
<1> QED BY <1>2, <1>3

\* The tasks stay typed and apart.
LEMMA TasksKept ==
  ASSUME FleetInductive, FleetNext
  PROVE  TasksOK'
<1> USE DEF At
<1>t. TasksOK /\ RowsOK /\ BridgesOK /\ LocksOK /\ HostsOK /\ SettingsOK
  BY DEF FleetInductive
<1>1. ASSUME NEW a \in Users, Task(a) PROVE TasksOK'
  <2>1. PICK x \in PairingRecords :
           /\ pairing' = [pairing EXCEPT ![a] = x]
           /\ \/ x = Unpaired
              \/ /\ x.serial = pairing[a].serial /\ x.disturbed = pairing[a].disturbed
                 /\ x.pc # "idle" /\ (x.pc = "bridge" => x.proxy \in Egresses)
    BY <1>t, <1>1, TaskMoves DEF MovesOn
  <2>2. up' = up /\ ~At(a, "idle")
    BY <1>t, <1>1, TaskFrame, TaskMoves DEF MovesOn
  <2> QED BY <1>t, <2>1, <2>2, UnpairedTyped DEF TasksOK
<1>2. CASE StartCycle
  <2>1. PICK f \in [Users -> Devices \cup {Nothing}] :
          LET paired == {a \in Users : f[a] # Nothing}
          IN /\ \A a, b \in paired : f[a] = f[b] => a = b
             /\ pairing' = [a \in Users |-> IF a \in paired
                                           THEN [Unpaired EXCEPT !.pc = "limit", !.serial = f[a],
                                                                 !.disturbed = Names(f[a]) # {f[a]}]
                                           ELSE Unpaired]
    BY <1>2 DEF StartCycle
  <2>2. \A a \in Users : IF f[a] # Nothing
                         THEN /\ \E d \in BOOLEAN : pairing'[a] = [Unpaired EXCEPT !.pc = "limit", !.serial = f[a],
                                                                                    !.disturbed = d]
                              /\ pairing'[a].pc = "limit" /\ pairing'[a].serial = f[a] /\ f[a] \in Serials
                         ELSE pairing'[a] = Unpaired
    BY <2>1 DEF Unpaired, Devices
  <2>3. pairing' \in [Users -> PairingRecords]
    BY <2>1, <2>2, UnpairedTyped
  <2>4. up = "run" /\ up' = up
    BY <1>2 DEF StartCycle
  <2>5. \A a \in Users : /\ pairing'[a].serial = f[a]
                         /\ pairing'[a].pc = IF f[a] # Nothing THEN "limit" ELSE "idle"
    BY <2>2, UnpairedTyped
  <2>6. \A a, b \in Users : f[a] # Nothing /\ f[a] = f[b] => a = b
    BY <2>1
  <2> HIDE DEF At
  <2> QED BY <2>3, <2>4, <2>5, <2>6 DEF TasksOK, At
<1>3. CASE Die
  BY <1>3, UnpairedTyped DEF Die, TasksOK
<1>4. ASSUME NEW r \in Callers, Operator(r) PROVE TasksOK'
  <2>1. up' = up
    BY <1>4, OperatorFrame
  <2>2. CASE pairing' = pairing
    BY <1>t, <2>1, <2>2 DEF TasksOK
  <2>3. ASSUME NEW gone, Disturbed(gone) PROVE TasksOK'
    BY <1>t, <2>1, <2>3, DisturbedTasks DEF TasksOK
  <2> QED BY <1>4, <2>2, <2>3 DEF Operator, BeginInput, BeginStop, BeginRestart, EndInput, KillOnStop, EndStop,
             Reboot, Relaunch, Removed, EndRestart, BeginLaunch, Claim, EndLaunch
<1>8. ASSUME NEW v \in Avds, NEW s \in Serials, AdbConnect(v, s) PROVE TasksOK'
  <2>1. up' = up
    BY <1>8, AdbFrame
  <2>2. Disturbed({t \in Devices : avd[t] = v})
    BY <1>8 DEF AdbConnect
  <2> QED BY <1>t, <2>1, <2>2, DisturbedTasks DEF TasksOK
<1>5. CASE ControllerStart \/ Reconciled
  BY <1>t, <1>5 DEF TasksOK, ControllerStart, Reconciled
<1>6. CASE (\E s \in Serials : Reconcile(s)) \/ \E a \in Users, p \in Egresses : Reassign(a, p)
  BY <1>t, <1>6 DEF TasksOK, Reconcile, Reassign
<1>7. CASE \E s \in Serials : Boot(s) \/ \E v \in Avds : Appear(v, s)
  BY <1>t, <1>7, HostFrame DEF TasksOK
<1> QED BY <1>1, <1>2, <1>3, <1>4, <1>5, <1>6, <1>7, <1>8, Cases
-----------------------------------------------------------------------------
(* The emulators and their settings.                                       *)

\* A request that ends an emulator holds the lock of its serial, which exists.
LEMMA RemovedSerial ==
  ASSUME LocksOK, NEW r \in Callers, KillOnStop(r) \/ Relaunch(r) \/ Reboot(r)
  PROVE  caller[r].serial \in Serials
BY DEF LocksOK, KillOnStop, Relaunch, Reboot

LEMMA HostsKept ==
  ASSUME FleetInductive, FleetNext
  PROVE  HostsOK'
<1>t. HostsOK /\ LocksOK
  BY DEF FleetInductive
<1>1. CASE UNCHANGED <<avd, ready, starting>>
  BY <1>t, <1>1 DEF HostsOK, Devices
<1>2. CASE \E a \in Users : Task(a)
  BY <1>1, <1>2, TaskFrame
<1>3. CASE Die
  BY <1>1, <1>3 DEF Die
<1>4. ASSUME NEW r \in Callers, Operator(r) PROVE HostsOK'
  <2>1. CASE KillOnStop(r)
    BY <1>t, <2>1 DEF KillOnStop, Removed, HostsOK, Devices
  <2>2. CASE Relaunch(r)
    <3>1. caller[r].serial \in Serials
      BY <1>t, <2>2, RemovedSerial
    <3> QED BY <1>t, <2>2, <3>1 DEF Relaunch, Removed, Names, HostsOK, Devices
  <2>3. CASE Reboot(r)
    BY <1>t, <2>3 DEF Reboot, HostsOK, Devices
  <2>4. CASE \E v \in Avds : BeginLaunch(r, v)
    BY <1>t, <2>4 DEF BeginLaunch, HostsOK, Devices
  <2> QED BY <1>1, <1>4, <2>1, <2>2, <2>3, <2>4 DEF Operator, BeginInput, BeginStop, BeginRestart, EndInput,
             EndStop, EndRestart, Claim, EndLaunch, hostVars
<1>5. CASE \E s \in Serials : Boot(s) \/ \E v \in Avds : Appear(v, s)
  BY <1>t, <1>5, FleetAssumption DEF Boot, Appear, HostsOK, Devices
<1>6. CASE \E s \in Serials, v \in Avds : AdbConnect(v, s)
  BY <1>t, <1>6, FleetAssumption DEF AdbConnect, HostsOK, Devices
<1> QED BY <1>1, <1>2, <1>3, <1>4, <1>5, <1>6, ControllerFrame, Cases

\* The bindings a starting controller restores are bindings of accounts with a proxy.
LEMMA ReconciledPair ==
  ASSUME RowsOK, NEW s \in Serials, Reconcile(s)
  PROVE  /\ Pair(binding[s], s) \in Pairs
         /\ assigned[binding[s]] # Nothing => assigned[binding[s]] \in Egresses
BY DEF RowsOK, Reconcile, Pair, Pairs

\* A task that asks for a bridge asks for one of its pair and its proxy.
LEMMA BridgePair ==
  ASSUME TasksOK, NEW a \in Users, At(a, "bridge")
  PROVE  Pair(a, pairing[a].serial) \in Pairs /\ pairing[a].proxy \in Egresses
BY DEF TasksOK, PairingRecords, Pairs, Pair, At

LEMMA BridgesKept ==
  ASSUME FleetInductive, FleetNext
  PROVE  BridgesOK'
<1>t. RowsOK /\ TasksOK /\ BridgesOK
  BY DEF FleetInductive
<1>1. CASE UNCHANGED <<bridges, pins, unbound>>
  BY <1>t, <1>1 DEF BridgesOK, PinsDistinct
<1>2. ASSUME NEW a \in Users, Task(a) PROVE BridgesOK'
  <2>1. CASE Bridge(a)
    BY <1>t, <2>1, BridgePair, EnsureKeeps, FailKeeps DEF Bridge
  <2> QED BY <1>1, <1>2, <2>1 DEF Task, CheckLimit, GetProxy, Apply, Verify, Rotate, Connect, Post, PostFails,
             CountPost, CallFails, bridgeVars
<1>3. ASSUME NEW s \in Serials, Reconcile(s) PROVE BridgesOK'
  <2> DEFINE pair == Pair(binding[s], s)
  <2>1. CASE assigned[binding[s]] = Nothing
    BY <1>1, <1>3, <2>1 DEF Reconcile, bridgeVars
  <2>2. CASE assigned[binding[s]] # Nothing
    <3>1. pair \in Pairs /\ assigned[binding[s]] \in Egresses
      BY <1>t, <1>3, <2>2, ReconciledPair
    <3>2. EnsureBridge(pair, assigned[binding[s]]) \/ BridgeFails(pair, assigned[binding[s]])
      BY <1>3, <2>2 DEF Reconcile
    <3> QED BY <1>t, <3>1, <3>2, EnsureKeeps, FailKeeps
  <2> QED BY <2>1, <2>2
<1>4. CASE Die
  <2>1. DOMAIN bridges' = {} /\ DOMAIN pins' = {} /\ unbound' = {}
    BY <1>4 DEF Die
  <2> QED BY <2>1 DEF BridgesOK, PinsDistinct
<1>5. CASE ControllerStart \/ Reconciled \/ StartCycle \/ \E a \in Users, p \in Egresses : Reassign(a, p)
  BY <1>1, <1>5 DEF ControllerStart, Reconciled, StartCycle, Reassign, bridgeVars
<1> QED BY <1>1, <1>2, <1>3, <1>4, <1>5, HostFrame, OperatorFrame, AdbFrame, Cases

\* A port written into a setting is one a bridge listens on.
LEMMA PortsKept ==
  ASSUME FleetInductive, FleetNext
  PROVE  setting' \in [Avds -> Ports \cup {0}]
<1>t. SettingsOK /\ RowsOK /\ TasksOK /\ BridgesOK
  BY DEF FleetInductive
<1>1. CASE UNCHANGED setting
  BY <1>t, <1>1 DEF SettingsOK
<1>2. ASSUME NEW a \in Users, Task(a) PROVE setting' \in [Avds -> Ports \cup {0}]
  <2>1. CASE Apply(a)
    BY <1>t, <2>1 DEF Apply, SettingsOK, TasksOK, PairingRecords
  <2> QED BY <1>1, <1>2, <2>1 DEF Task, CheckLimit, GetProxy, Bridge, Verify, Rotate, Connect, Post, PostFails,
             CountPost, CallFails, hostVars
<1>3. ASSUME NEW s \in Serials, Reconcile(s) PROVE setting' \in [Avds -> Ports \cup {0}]
  <2> DEFINE pair == Pair(binding[s], s)
  <2>1. CASE assigned[binding[s]] = Nothing
    BY <1>1, <1>3, <2>1 DEF Reconcile
  <2>2. CASE assigned[binding[s]] # Nothing /\ setting' # setting
    <3>1. pair \in Pairs /\ assigned[binding[s]] \in Egresses
      BY <1>t, <1>3, <2>2, ReconciledPair
    <3>2. EnsureBridge(pair, assigned[binding[s]]) /\ setting' = [setting EXCEPT ![avd[s]] = bridges'[pair].port]
      BY <1>3, <2>2 DEF Reconcile
    <3>3. bridges'[pair].port \in Ports
      BY <1>t, <3>1, <3>2, EnsureKeeps
    <3> HIDE DEF pair
    <3> QED BY <1>t, <3>2, <3>3 DEF SettingsOK
  <2> QED BY <1>1, <2>1, <2>2
<1>4. CASE Die \/ ControllerStart \/ Reconciled \/ StartCycle \/ \E a \in Users, p \in Egresses : Reassign(a, p)
  BY <1>1, <1>4 DEF Die, ControllerStart, Reconciled, StartCycle, Reassign, hostVars
<1> QED BY <1>1, <1>2, <1>3, <1>4, HostFrame, OperatorFrame, AdbFrame, Cases

\* Connections are opened where the settings lead, and none are left of a device that boots, or of
\* a process that dies.
LEMMA TunnelsGrow ==
  ASSUME FleetInductive, FleetNext
  PROVE  \/ /\ Die
            /\ tunnels' = [v \in Avds |-> tunnels[v] \cap {Nothing}]
         \/ /\ tunnels' \in [Avds -> SUBSET (Egresses \cup {Nothing})]
            /\ \A v \in Avds : tunnels'[v] \subseteq tunnels[v] \cup Ways(setting'[v], bridges')
<1>t. SettingsOK /\ BridgesOK /\ BridgesOK'
  BY BridgesKept DEF FleetInductive
<1>0. /\ tunnels \in [Avds -> SUBSET (Egresses \cup {Nothing})]
      /\ \A port : Ways(port, bridges') \subseteq Egresses \cup {Nothing}
  BY <1>t DEF SettingsOK, BridgesOK, Ways
<1>1. CASE UNCHANGED tunnels
  BY <1>0, <1>1
<1>2. CASE Opens
  BY <1>0, <1>2 DEF Opens
<1>3. ASSUME NEW v, Boots(v), UNCHANGED <<setting, bridges>>
      PROVE  /\ tunnels' \in [Avds -> SUBSET (Egresses \cup {Nothing})]
             /\ \A w \in Avds : tunnels'[w] \subseteq tunnels[w] \cup Ways(setting'[w], bridges')
  BY <1>0, <1>3 DEF Boots
<1>4. CASE Die
  BY <1>4 DEF Die
<1>5. ASSUME NEW r \in Callers, Operator(r), tunnels' # tunnels PROVE \E v : Boots(v) /\ UNCHANGED <<setting, bridges>>
  BY <1>5 DEF Operator, BeginInput, BeginStop, BeginRestart, EndInput, KillOnStop, EndStop, Reboot, Relaunch,
       EndRestart, BeginLaunch, Claim, EndLaunch, hostVars, bridgeVars
<1>6. CASE \E s \in Serials : Boot(s) \/ \E v \in Avds : Appear(v, s)
  BY <1>1, <1>3, <1>6 DEF Boot, Appear, bridgeVars
<1>7. CASE \E a \in Users : Task(a)
  BY <1>1, <1>2, <1>7 DEF Task, CheckLimit, GetProxy, Bridge, Apply, Verify, Rotate, Connect, Post, PostFails,
       CountPost, CallFails, hostVars
<1>8. CASE \/ ControllerStart \/ Reconciled \/ StartCycle \/ (\E s \in Serials : Reconcile(s))
           \/ \E a \in Users, p \in Egresses : Reassign(a, p)
  BY <1>1, <1>2, <1>8 DEF ControllerStart, Reconciled, StartCycle, Reconcile, Reassign, hostVars
<1> QED BY <1>1, <1>3, <1>4, <1>5, <1>6, <1>7, <1>8, AdbFrame, Cases

LEMMA SettingsKept ==
  ASSUME FleetInductive, FleetNext
  PROVE  SettingsOK'
BY PortsKept, TunnelsGrow DEF SettingsOK, FleetInductive

LEMMA RowsKept ==
  ASSUME FleetInductive, FleetNext
  PROVE  RowsOK'
<1>t. RowsOK /\ TasksOK
  BY DEF FleetInductive
<1>1. CASE UNCHANGED <<assigned, up, todo, binding>>
  BY <1>t, <1>1 DEF RowsOK
<1>2. ASSUME NEW a \in Users, Task(a) PROVE RowsOK'
  <2>1. UNCHANGED <<up, todo>>
    BY <1>2, TaskFrame
  <2>2. CASE Rotate(a)
    BY <1>t, <2>1, <2>2 DEF Rotate, RowsOK
  <2>3. CASE Verify(a)
    <3>1. up = "run"
      BY <1>t, <2>3 DEF Verify, TasksOK, At
    <3>2. assigned' = assigned /\ binding' \in [Serials -> Users \cup {Nothing}]
      BY <1>t, <2>3 DEF Verify, RowsOK
    <3> QED BY <1>t, <2>1, <3>1, <3>2 DEF RowsOK
  <2> QED BY <1>1, <1>2, <2>1, <2>2, <2>3 DEF Task, CheckLimit, GetProxy, Bridge, Apply, Connect, Post, PostFails,
             CountPost, CallFails
<1>3. CASE ControllerStart \/ Reconciled \/ Die \/ StartCycle \/ (\E s \in Serials : Reconcile(s))
           \/ \E a \in Users, p \in Egresses : Reassign(a, p)
  BY <1>t, <1>3 DEF ControllerStart, Reconciled, Die, StartCycle, Reconcile, Reassign, RowsOK, Devices
<1> QED BY <1>1, <1>2, <1>3, HostFrame, OperatorFrame, AdbFrame, Cases
-----------------------------------------------------------------------------
(* The route of a post.                                                    *)

\* A task under way has a serial.
LEMMA SerialOf ==
  ASSUME TasksOK, NEW a \in Users, pairing[a].pc # "idle"
  PROVE  pairing[a].serial \in Serials
BY DEF TasksOK, PairingRecords, At

\* A task that goes to its next place keeps what it holds.
LEMMA BecomesFields ==
  ASSUME TasksOK, NEW a \in Users, NEW pc, Becomes(a, pc)
  PROVE  /\ pairing'[a].pc = pc /\ pairing'[a].serial = pairing[a].serial
         /\ pairing'[a].proxy = pairing[a].proxy /\ pairing'[a].port = pairing[a].port
         /\ pairing'[a].disturbed = pairing[a].disturbed /\ pairing'[a].old = pairing[a].old
BY DEF TasksOK, PairingRecords, Becomes

LEMMA EndFields ==
  ASSUME TasksOK, NEW a \in Users, TaskEnds(a)
  PROVE  pairing'[a].pc = "idle" /\ pairing'[a].serial = Nothing
BY UnpairedTyped DEF TasksOK, TaskEnds

\* The steps that change more of a task than its place.
LEMMA GetProxyFields ==
  ASSUME TasksOK, NEW a \in Users, GetProxy(a)
  PROVE  pairing'[a].pc \in {"idle", "bridge"}
BY EndFields DEF GetProxy, TasksOK, PairingRecords

LEMMA BridgeFields ==
  ASSUME TasksOK, NEW a \in Users, Bridge(a)
  PROVE  pairing'[a].pc \in {"idle", "apply"}
BY EndFields DEF Bridge, TasksOK, PairingRecords

LEMMA RotateFields ==
  ASSUME TasksOK, NEW a \in Users, Rotate(a)
  PROVE  pairing'[a].pc \in {"idle", "proxy"}
BY EndFields DEF Rotate, TasksOK, PairingRecords

LEMMA ApplyFields ==
  ASSUME TasksOK, NEW a \in Users, Apply(a)
  PROVE  \/ pairing'[a].pc = "idle" /\ UNCHANGED setting
         \/ /\ pairing[a].pc = "apply" /\ pairing'[a].pc = "verify" /\ pairing[a].serial \in ready
            /\ pairing'[a].serial = pairing[a].serial /\ pairing'[a].proxy = pairing[a].proxy
            /\ pairing'[a].port = pairing[a].port /\ pairing'[a].disturbed = pairing[a].disturbed
            /\ pairing'[a].old = tunnels[avd[pairing[a].serial]]
            /\ setting' = [setting EXCEPT ![avd[pairing[a].serial]] = pairing[a].port]
BY EndFields DEF Apply, TasksOK, PairingRecords, At

\* A step of task a leaves the other tasks, and all emulators.
LEMMA OtherTasks ==
  ASSUME TasksOK, RowsOK, BridgesOK, HostsOK, SettingsOK, NEW a \in Users, Task(a)
  PROVE  /\ \A b \in Users \ {a} : pairing'[b] = pairing[b]
         /\ \/ pairing'[a] = Unpaired
            \/ pairing'[a].serial = pairing[a].serial /\ pairing'[a].disturbed = pairing[a].disturbed
         /\ ~At(a, "idle")
<1>1. MovesOn(a)
  BY TaskMoves
<1>2. PICK x \in PairingRecords :
         /\ pairing' = [pairing EXCEPT ![a] = x]
         /\ \/ x = Unpaired
            \/ /\ x.serial = pairing[a].serial /\ x.disturbed = pairing[a].disturbed
               /\ x.pc # "idle" /\ (x.pc = "bridge" => x.proxy \in Egresses)
  BY <1>1 DEF MovesOn
<1>3. pairing'[a] = x /\ \A b \in Users \ {a} : pairing'[b] = pairing[b]
  BY <1>2 DEF TasksOK
<1>4. ~At(a, "idle")
  BY <1>1 DEF MovesOn
<1> QED BY <1>2, <1>3, <1>4

\* A request changes an emulator under a task only by marking it.
LEMMA OperatorTasks ==
  ASSUME TasksOK, LocksOK, NEW r \in Callers, Operator(r)
  PROVE  \/ UNCHANGED <<avd, pairing>>
         \/ \E gone \in SUBSET Serials : Removed(gone)
<1>1. CASE KillOnStop(r) \/ Relaunch(r)
  <2>1. {caller[r].serial} \in SUBSET Serials /\ Names(caller[r].serial) \in SUBSET Serials
    BY <1>1, RemovedSerial DEF Names
  <2> QED BY <1>1, <2>1 DEF KillOnStop, Relaunch
<1> QED BY <1>1 DEF Operator, BeginInput, BeginStop, BeginRestart, EndInput, EndStop, Reboot,
           EndRestart, BeginLaunch, Claim, EndLaunch, hostVars

\* A cycle starts with tasks at the limit, each on a listed emulator.
LEMMA CycleTasks ==
  ASSUME StartCycle, NEW a \in Users
  PROVE  /\ pairing'[a].pc \in {"idle", "limit"}
         /\ pairing'[a].pc = "limit" =>
              /\ avd[pairing'[a].serial] # Nothing
              /\ ~pairing'[a].disturbed =>
                   \A s \in Serials \ {pairing'[a].serial} : avd[s] # avd[pairing'[a].serial]
         /\ pairing[a].pc = "idle"
<1>1. PICK f \in [Users -> Devices \cup {Nothing}] :
        pairing' = [b \in Users |-> IF b \in {c \in Users : f[c] # Nothing}
                                   THEN [Unpaired EXCEPT !.pc = "limit", !.serial = f[b],
                                                         !.disturbed = Names(f[b]) # {f[b]}] ELSE Unpaired]
  BY DEF StartCycle
<1>4. pairing[a].pc = "idle"
  BY DEF StartCycle, At
<1>2. CASE f[a] # Nothing
  <2>1. /\ pairing'[a] = [Unpaired EXCEPT !.pc = "limit", !.serial = f[a], !.disturbed = Names(f[a]) # {f[a]}]
        /\ avd[f[a]] # Nothing
    BY <1>1, <1>2 DEF Devices
  <2>2. pairing'[a].pc = "limit" /\ pairing'[a].serial = f[a]
    BY <2>1 DEF Unpaired
  <2>3. ~pairing'[a].disturbed => Names(f[a]) = {f[a]}
    BY <2>1 DEF Unpaired
  <2> QED BY <2>1, <2>2, <2>3, <1>4 DEF Names
<1>3. CASE f[a] = Nothing
  <2>1. pairing'[a] = Unpaired
    BY <1>1, <1>3
  <2> QED BY <2>1, <1>4, UnpairedTyped
<1> QED BY <1>2, <1>3, <1>4

\* Nobody is under way when the controller starts, and after it dies.
LEMMA DeadTasks ==
  ASSUME Die, NEW a \in Users
  PROVE  pairing'[a] = Unpaired /\ pairing'[a].pc = "idle"
BY UnpairedTyped DEF Die

LEMMA EmulatorsKept ==
  ASSUME FleetInductive, FleetNext
  PROVE  EmulatorsOK'
<1> USE DEF At
<1>t. EmulatorsOK /\ TasksOK /\ LocksOK /\ RowsOK /\ BridgesOK /\ HostsOK /\ SettingsOK
  BY DEF FleetInductive
<1>1. CASE UNCHANGED <<avd, pairing>>
  BY <1>t, <1>1 DEF EmulatorsOK
<1>2. ASSUME NEW a \in Users, Task(a) PROVE EmulatorsOK'
  <2>1. avd' = avd /\ pairing[a].pc # "idle" /\ \A b \in Users \ {a} : pairing'[b] = pairing[b]
    BY <1>t, <1>2, OtherTasks, TaskFrame
  <2>2. \/ pairing'[a].pc = "idle"
        \/ pairing'[a].serial = pairing[a].serial /\ pairing'[a].disturbed = pairing[a].disturbed
    BY <1>t, <1>2, OtherTasks, UnpairedTyped
  <2>3. ASSUME NEW b \in Users, pairing'[b].pc # "idle", ~pairing'[b].disturbed
        PROVE  /\ pairing[b].pc # "idle" /\ ~pairing[b].disturbed
               /\ pairing'[b].serial = pairing[b].serial
    BY <2>1, <2>2, <2>3
  <2> QED BY <1>t, <2>1, <2>3 DEF EmulatorsOK
<1>3. CASE StartCycle
  BY <1>3, CycleTasks, ControllerFrame DEF EmulatorsOK
<1>4. CASE Die
  BY <1>4, DeadTasks DEF EmulatorsOK
<1>5. ASSUME NEW gone \in SUBSET Serials, Removed(gone) PROVE EmulatorsOK'
  <2>1. avd' = [s \in Serials |-> IF s \in gone THEN Nothing ELSE avd[s]] /\ Disturbed(gone)
    BY <1>5 DEF Removed
  <2>2. ASSUME NEW a \in Users, pairing'[a].pc # "idle", ~pairing'[a].disturbed
        PROVE  /\ avd'[pairing'[a].serial] # Nothing
               /\ \A s \in Serials \ {pairing'[a].serial} : avd'[s] # avd'[pairing'[a].serial]
    <3>1. /\ pairing'[a].serial = pairing[a].serial /\ pairing[a].pc # "idle" /\ ~pairing[a].disturbed
          /\ pairing[a].serial \in Serials \ gone
      BY <1>t, <2>1, <2>2, DisturbedTasks, SerialOf
    <3> QED BY <1>t, <2>1, <3>1 DEF EmulatorsOK
  <2> QED BY <2>2 DEF EmulatorsOK
<1>6. ASSUME NEW s \in Serials, Boot(s) \/ \E v \in Avds : Appear(v, s) PROVE EmulatorsOK'
  <2>1. pairing' = pairing
    BY <1>6, HostFrame
  <2>2. avd' = avd \/ \E v \in starting : avd[s] = Nothing /\ avd' = [avd EXCEPT ![s] = v]
    BY <1>6, Zenon DEF Boot, Appear
  <2>3. ASSUME NEW v \in starting, avd[s] = Nothing, avd' = [avd EXCEPT ![s] = v],
               NEW a \in Users, pairing[a].pc # "idle", ~pairing[a].disturbed
        PROVE  /\ avd'[pairing[a].serial] # Nothing
               /\ \A x \in Serials \ {pairing[a].serial} : avd'[x] # avd'[pairing[a].serial]
    <3>1. pairing[a].serial \in Devices /\ pairing[a].serial # s
      BY <1>t, <2>3, SerialOf DEF EmulatorsOK, Devices
    <3>2. avd'[pairing[a].serial] = avd[pairing[a].serial] /\ avd[pairing[a].serial] # v
      BY <1>t, <2>3, <3>1 DEF HostsOK
    <3> QED BY <1>t, <2>3, <3>1, <3>2 DEF EmulatorsOK, HostsOK, Devices
  <2>4. CASE avd' = avd
    BY <1>t, <2>1, <2>4 DEF EmulatorsOK
  <2> QED BY <2>1, <2>2, <2>3, <2>4 DEF EmulatorsOK
<1>8. ASSUME NEW v \in Avds, NEW s \in Serials, AdbConnect(v, s) PROVE EmulatorsOK'
  <2>1. avd[s] = Nothing /\ avd' = [avd EXCEPT ![s] = v] /\ Disturbed({x \in Devices : avd[x] = v})
    BY <1>8 DEF AdbConnect
  <2>2. ASSUME NEW a \in Users, pairing'[a].pc # "idle", ~pairing'[a].disturbed
        PROVE  /\ avd'[pairing'[a].serial] # Nothing
               /\ \A x \in Serials \ {pairing'[a].serial} : avd'[x] # avd'[pairing'[a].serial]
    <3>1. /\ pairing'[a].serial = pairing[a].serial /\ pairing[a].pc # "idle" /\ ~pairing[a].disturbed
          /\ pairing[a].serial \notin {x \in Devices : avd[x] = v}
      BY <1>t, <2>1, <2>2, DisturbedTasks
    <3>2. pairing[a].serial \in Devices /\ pairing[a].serial # s
      BY <1>t, <2>1, <3>1, SerialOf DEF EmulatorsOK, Devices
    <3>3. avd'[pairing[a].serial] = avd[pairing[a].serial] /\ avd[pairing[a].serial] # v
      BY <1>t, <2>1, <3>1, <3>2 DEF HostsOK
    <3> QED BY <1>t, <2>1, <3>1, <3>2, <3>3 DEF EmulatorsOK, HostsOK, Devices
  <2> QED BY <2>2 DEF EmulatorsOK
<1>7. CASE ControllerStart \/ Reconciled \/ (\E s \in Serials : Reconcile(s))
           \/ \E a \in Users, p \in Egresses : Reassign(a, p)
  BY <1>1, <1>7 DEF ControllerStart, Reconciled, Reconcile, Reassign, hostVars
<1> QED BY <1>t, <1>1, <1>2, <1>3, <1>4, <1>5, <1>6, <1>7, <1>8, OperatorTasks, Cases

\* The bridge of a task in use is not touched by the other tasks.
LEMMA RoutesKept ==
  ASSUME FleetInductive, FleetNext
  PROVE  RoutesOK'
<1> USE DEF At
<1>t. RoutesOK /\ TasksOK /\ LocksOK /\ RowsOK /\ BridgesOK /\ HostsOK /\ SettingsOK
  BY DEF FleetInductive
<1>1. CASE UNCHANGED <<bridges, pairing>>
  BY <1>t, <1>1 DEF RoutesOK, BridgeInUse, Pair
<1>2. ASSUME NEW a \in Users, Task(a) PROVE RoutesOK'
  <2>o. \A b \in Users \ {a} : pairing'[b] = pairing[b]
    BY <1>t, <1>2, OtherTasks
  <2>1. CASE Bridge(a)
    <3> DEFINE pair == Pair(a, pairing[a].serial)
    <3>1. pair \in Pairs /\ pairing[a].proxy \in Egresses
      BY <1>t, <2>1, BridgePair DEF Bridge
    <3>2. OthersStay(pair)
      BY <1>t, <2>1, <3>1, EnsureKeeps, FailKeeps DEF Bridge
    <3>3. ASSUME NEW b \in Users \ {a}, pairing'[b].pc \in {"apply", "verify", "connect", "post"}
          PROVE  BridgeInUse(b)'
      BY <1>t, <2>o, <3>2, <3>3 DEF RoutesOK, BridgeInUse, OthersStay, Pair
    <3>4. ASSUME pairing'[a].pc \in {"apply", "verify", "connect", "post"} PROVE BridgeInUse(a)'
      <4>1. /\ EnsureBridge(pair, pairing[a].proxy)
            /\ pairing' = [pairing EXCEPT ![a].pc = "apply", ![a].port = bridges'[pair].port]
        BY <1>t, <2>1, <3>4, UnpairedTyped DEF Bridge, TaskEnds, TasksOK
      <4>2. pair \in DOMAIN bridges' /\ bridges'[pair].upstream = pairing[a].proxy
        BY <1>t, <3>1, <4>1, EnsureKeeps
      <4>3. /\ pairing'[a].serial = pairing[a].serial /\ pairing'[a].proxy = pairing[a].proxy
            /\ pairing'[a].port = bridges'[pair].port
        BY <1>t, <4>1 DEF TasksOK, PairingRecords
      <4> QED BY <4>2, <4>3 DEF BridgeInUse, Pair
    <3> QED BY <3>3, <3>4 DEF RoutesOK
  <2>2. CASE Apply(a) \/ Verify(a) \/ Connect(a) \/ Post(a)
    <3>1. bridges' = bridges
      BY <2>2 DEF Apply, Verify, Connect, Post, bridgeVars
    <3>2. \/ pairing'[a].pc \notin {"apply", "verify", "connect", "post"}
          \/ /\ pairing[a].pc \in {"apply", "verify", "connect", "post"}
             /\ pairing'[a].serial = pairing[a].serial /\ pairing'[a].proxy = pairing[a].proxy
             /\ pairing'[a].port = pairing[a].port
      BY <1>t, <2>2, ApplyFields, BecomesFields, EndFields DEF Verify, Connect, Post
    <3> QED BY <1>t, <2>o, <3>1, <3>2 DEF RoutesOK, BridgeInUse, Pair
  <2>3. CASE CheckLimit(a) \/ GetProxy(a) \/ Rotate(a) \/ PostFails(a) \/ CountPost(a) \/ CallFails(a)
    <3>1. bridges' = bridges /\ pairing'[a].pc \notin {"apply", "verify", "connect", "post"}
      BY <1>t, <2>3, BecomesFields, EndFields, GetProxyFields, RotateFields
         DEF CheckLimit, GetProxy, Rotate, PostFails, CountPost, CallFails, bridgeVars
    <3> QED BY <1>t, <2>o, <3>1 DEF RoutesOK, BridgeInUse, Pair
  <2> QED BY <1>2, <2>1, <2>2, <2>3 DEF Task
<1>3. CASE StartCycle
  BY <1>3, CycleTasks DEF RoutesOK
<1>4. CASE Die
  BY <1>4, DeadTasks DEF RoutesOK
<1>5. ASSUME NEW serials, Disturbed(serials), UNCHANGED bridges PROVE RoutesOK'
  BY <1>t, <1>5, DisturbedTasks DEF RoutesOK, BridgeInUse, Pair
<1>6. CASE \E s \in Serials : Reconcile(s)
  <2>1. \A a \in Users : pairing'[a].pc = "idle"
    BY <1>t, <1>6 DEF Reconcile, TasksOK
  <2> QED BY <2>1 DEF RoutesOK
<1>7. CASE ControllerStart \/ Reconciled \/ \E a \in Users, p \in Egresses : Reassign(a, p)
  BY <1>1, <1>7 DEF ControllerStart, Reconciled, Reassign, bridgeVars
<1> QED BY <1>t, <1>1, <1>2, <1>3, <1>4, <1>5, <1>6, <1>7, OperatorTasks, OperatorFrame, HostFrame, AdbFrame, Cases
   DEF Removed, AdbConnect

\* The emulator of a task is on, and no other task that goes on uses it.
LEMMA OwnEmulator ==
  ASSUME FleetInductive, NEW a \in Users, pairing[a].pc # "idle", ~pairing[a].disturbed
  PROVE  /\ pairing[a].serial \in Devices /\ avd[pairing[a].serial] \in Avds
         /\ \A b \in Users \ {a} : pairing[b].pc # "idle" => avd[pairing[b].serial] # avd[pairing[a].serial]
<1>t. EmulatorsOK /\ HostsOK /\ TasksOK
  BY DEF FleetInductive
<1>1. pairing[a].serial \in Devices
  BY <1>t, SerialOf DEF EmulatorsOK, Devices, At
<1>2. ASSUME NEW b \in Users \ {a}, pairing[b].pc # "idle" PROVE avd[pairing[b].serial] # avd[pairing[a].serial]
  <2>1. pairing[b].serial \in Serials /\ pairing[b].serial # pairing[a].serial
    BY <1>t, <1>2, SerialOf DEF TasksOK, At
  <2> QED BY <1>t, <2>1 DEF EmulatorsOK, At
<1> QED BY <1>t, <1>1, <1>2 DEF HostsOK, Devices

\* Where a task stands that is past the writing of its setting.
AfterApply == {"verify", "connect", "post"}

\* Between its setting and its post a task keeps its emulator, and nobody writes its setting.
LEMMA InUseStays ==
  ASSUME FleetInductive, FleetNext, NEW a \in Users, pairing'[a].pc \in AfterApply, ~pairing'[a].disturbed
  PROVE  /\ pairing[a].serial \in Devices /\ ~pairing[a].disturbed /\ ~Die
         /\ avd[pairing[a].serial] \in Avds /\ avd'[pairing[a].serial] = avd[pairing[a].serial]
         /\ pairing'[a].serial = pairing[a].serial /\ pairing'[a].proxy = pairing[a].proxy
         /\ pairing'[a].port = pairing[a].port
         /\ \/ /\ pairing[a].pc \in AfterApply /\ pairing'[a].old = pairing[a].old
               /\ setting'[avd[pairing[a].serial]] = setting[avd[pairing[a].serial]]
            \/ /\ pairing'[a].old = tunnels[avd[pairing[a].serial]]
               /\ setting'[avd[pairing[a].serial]] = pairing[a].port
<1> USE DEF At
<1>t. SettingsOK /\ EmulatorsOK /\ HostsOK /\ TasksOK /\ LocksOK /\ RowsOK /\ BridgesOK
  BY DEF FleetInductive
<1>p. pairing'[a].pc # "idle"
  BY DEF AfterApply
<1>1. CASE pairing[a].pc \in AfterApply /\ pairing'[a] = pairing[a] /\ UNCHANGED <<avd, setting>>
  BY <1>1, <1>p, OwnEmulator, DeadTasks
<1>2. ASSUME NEW b \in Users \ {a}, Task(b), pairing[a].pc \in AfterApply, pairing'[a] = pairing[a]
      PROVE  avd' = avd /\ setting'[avd[pairing[a].serial]] = setting[avd[pairing[a].serial]]
  <2>1. avd' = avd /\ pairing[b].pc # "idle"
    BY <1>t, <1>2, TaskFrame, OtherTasks
  <2>2. avd[pairing[b].serial] # avd[pairing[a].serial] /\ avd[pairing[a].serial] \in Avds
    BY <1>2, <1>p, <2>1, OwnEmulator
  <2>3. CASE Apply(b)
    BY <1>t, <2>1, <2>2, <2>3, ApplyFields DEF SettingsOK
  <2>4. CASE ~Apply(b)
    BY <1>2, <2>1, <2>4 DEF Task, CheckLimit, GetProxy, Bridge, Verify, Rotate, Connect, Post, PostFails, CountPost,
         CallFails, hostVars
  <2> QED BY <2>1, <2>3, <2>4
<1>3. CASE \E b \in Users \ {a} : Task(b)
  <2>1. PICK b \in Users \ {a} : Task(b)
    BY <1>3
  <2>2. pairing'[a] = pairing[a] /\ pairing[a].pc \in AfterApply /\ ~pairing[a].disturbed
    BY <1>t, <2>1, OtherTasks
  <2> QED BY <1>p, <1>2, <2>1, <2>2, OwnEmulator, DeadTasks
<1>4. CASE Task(a)
  <2>1. CASE Apply(a)
    <3>1. pairing[a].pc # "idle" /\ avd' = avd
      BY <2>1, <1>4, TaskFrame DEF Apply
    <3> QED BY <1>t, <1>p, <2>1, <3>1, OwnEmulator, ApplyFields, DeadTasks DEF SettingsOK
  <2>2. CASE Verify(a) \/ Connect(a)
    <3>1. setting' = setting /\ avd' = avd /\ pairing[a].pc \in AfterApply /\ pairing[a].pc # "idle"
      BY <2>2 DEF Verify, Connect, hostVars, AfterApply
    <3>2. /\ pairing'[a].serial = pairing[a].serial /\ pairing'[a].disturbed = pairing[a].disturbed
          /\ pairing'[a].port = pairing[a].port /\ pairing'[a].old = pairing[a].old
          /\ pairing'[a].proxy = pairing[a].proxy
      BY <1>t, <1>p, <2>2, BecomesFields, EndFields DEF Verify, Connect
    <3> QED BY <1>p, <3>1, <3>2, OwnEmulator, DeadTasks
  <2>3. CASE CheckLimit(a) \/ GetProxy(a) \/ Bridge(a) \/ Rotate(a) \/ Post(a) \/ PostFails(a) \/ CountPost(a) \/ CallFails(a)
    BY <1>t, <2>3, BecomesFields, EndFields, GetProxyFields, BridgeFields, RotateFields
       DEF CheckLimit, GetProxy, Bridge, Rotate, Post, PostFails, CountPost, CallFails, AfterApply
  <2> QED BY <1>4, <2>1, <2>2, <2>3 DEF Task
<1>5. CASE StartCycle
  BY <1>5, CycleTasks DEF AfterApply
<1>6. CASE Die
  BY <1>6, <1>p, DeadTasks
<1>7. ASSUME NEW gone \in SUBSET Serials, Removed(gone), UNCHANGED setting
      PROVE  /\ pairing[a].pc \in AfterApply /\ ~pairing[a].disturbed /\ pairing'[a].old = pairing[a].old
             /\ pairing[a].serial \in Devices \ gone
             /\ pairing'[a].serial = pairing[a].serial /\ pairing'[a].proxy = pairing[a].proxy
             /\ pairing'[a].port = pairing[a].port /\ avd'[pairing[a].serial] = avd[pairing[a].serial]
  <2>1. Disturbed(gone) /\ avd' = [s \in Serials |-> IF s \in gone THEN Nothing ELSE avd[s]]
    BY <1>7 DEF Removed
  <2>2. /\ pairing'[a].pc = pairing[a].pc /\ ~pairing[a].disturbed /\ pairing'[a].old = pairing[a].old
        /\ pairing[a].serial \notin gone
        /\ pairing'[a].serial = pairing[a].serial /\ pairing'[a].proxy = pairing[a].proxy
        /\ pairing'[a].port = pairing[a].port
    BY <1>t, <2>1, DisturbedTasks
  <2> QED BY <1>p, <2>1, <2>2, OwnEmulator DEF Devices
<1>8. ASSUME NEW r \in Callers, Operator(r) PROVE UNCHANGED setting
  BY <1>8, OperatorFrame
<1>9. ASSUME NEW s \in Serials, Boot(s) \/ \E v \in Avds : Appear(v, s)
      PROVE  UNCHANGED <<pairing, setting>> /\ avd'[pairing[a].serial] = avd[pairing[a].serial]
  <2>1. UNCHANGED <<pairing, setting>>
    BY <1>9, HostFrame
  <2>2. avd' = avd \/ (avd[s] = Nothing /\ \E v \in Avds : avd' = [avd EXCEPT ![s] = v])
    BY <1>9, Zenon DEF Boot, Appear
  <2>3. pairing[a].serial \in Devices
    BY <1>p, <2>1, OwnEmulator
  <2> QED BY <1>t, <2>1, <2>2, <2>3 DEF HostsOK, Devices
<1>10. ASSUME NEW v \in Avds, NEW s \in Serials, AdbConnect(v, s)
       PROVE  /\ pairing[a].pc \in AfterApply /\ ~pairing[a].disturbed /\ pairing'[a].old = pairing[a].old
              /\ pairing[a].serial \in Devices /\ setting' = setting
              /\ pairing'[a].serial = pairing[a].serial /\ pairing'[a].proxy = pairing[a].proxy
              /\ pairing'[a].port = pairing[a].port /\ avd'[pairing[a].serial] = avd[pairing[a].serial]
  <2>1. /\ Disturbed({x \in Devices : avd[x] = v}) /\ avd[s] = Nothing /\ avd' = [avd EXCEPT ![s] = v]
        /\ setting' = setting
    BY <1>10 DEF AdbConnect
  <2>2. /\ pairing'[a].pc = pairing[a].pc /\ ~pairing[a].disturbed /\ pairing'[a].old = pairing[a].old
        /\ pairing'[a].serial = pairing[a].serial /\ pairing'[a].proxy = pairing[a].proxy
        /\ pairing'[a].port = pairing[a].port
    BY <1>t, <2>1, DisturbedTasks
  <2>3. pairing[a].serial \in Devices
    BY <1>p, <2>2, OwnEmulator
  <2> QED BY <1>t, <2>1, <2>2, <2>3 DEF HostsOK, Devices
<1>11. CASE \E s \in Serials : Reconcile(s)
  BY <1>t, <1>p, <1>11 DEF Reconcile, TasksOK
<1>12. CASE ControllerStart \/ Reconciled \/ \E b \in Users, p \in Egresses : Reassign(b, p)
  BY <1>1, <1>12 DEF ControllerStart, Reconciled, Reassign, hostVars
<1>13. ASSUME pairing[a].pc \in AfterApply, ~pairing[a].disturbed PROVE avd[pairing[a].serial] \in Avds
  BY <1>13, OwnEmulator DEF AfterApply
<1>14. ~Die
  BY <1>p, DeadTasks
<1>15. CASE \E r \in Callers : Operator(r)
  <2>1. CASE UNCHANGED <<avd, pairing>>
    BY <1>1, <1>8, <1>15, <2>1
  <2>2. CASE \E gone \in SUBSET Serials : Removed(gone)
    BY <1>7, <1>8, <1>13, <1>14, <1>15, <2>2
  <2> QED BY <1>t, <1>15, <2>1, <2>2, OperatorTasks
<1>16. CASE \E s \in Serials : Boot(s) \/ \E v \in Avds : Appear(v, s)
  <2>1. UNCHANGED <<pairing, setting>> /\ avd'[pairing[a].serial] = avd[pairing[a].serial]
    BY <1>9, <1>16
  <2> QED BY <1>p, <1>14, <2>1, OwnEmulator
<1>17. CASE \E s \in Serials, v \in Avds : AdbConnect(v, s)
  BY <1>10, <1>13, <1>14, <1>17
<1> QED BY <1>3, <1>4, <1>5, <1>6, <1>11, <1>12, <1>15, <1>16, <1>17, Cases

\* The setting a task has written stays until it posts, or its emulator goes away.
LEMMA SettingKept ==
  ASSUME FleetInductive, FleetNext
  PROVE  SettingInUse'
<1> SUFFICES ASSUME NEW a \in Users, pairing'[a].pc \in AfterApply, ~pairing'[a].disturbed
             PROVE  setting'[avd'[pairing'[a].serial]] = pairing'[a].port
  BY DEF SettingInUse, AfterApply
<1> QED BY InUseStays DEF FleetInductive, SettingInUse, AfterApply

\* While a task is past its setting, only connections to its proxy are opened.
LEMMA TunnelsKept ==
  ASSUME FleetInductive, FleetNext
  PROVE  TunnelsInUse'
<1> SUFFICES ASSUME NEW a \in Users, pairing'[a].pc \in AfterApply, ~pairing'[a].disturbed
             PROVE  tunnels'[avd'[pairing'[a].serial]] \subseteq {pairing'[a].proxy} \cup pairing'[a].old
  BY DEF TunnelsInUse, OwnOrOld, AfterApply
<1> DEFINE v == avd[pairing[a].serial]
<1>1. /\ ~pairing[a].disturbed /\ v \in Avds /\ avd'[pairing'[a].serial] = v /\ ~Die
      /\ pairing'[a].proxy = pairing[a].proxy
      /\ (pairing[a].pc \in AfterApply /\ pairing'[a].old = pairing[a].old) \/ pairing'[a].old = tunnels[v]
  BY InUseStays
<1>2. tunnels[v] \subseteq {pairing[a].proxy} \cup pairing'[a].old
  BY <1>1 DEF FleetInductive, TunnelsInUse, OwnOrOld, AfterApply
<1>3. setting'[v] = pairing'[a].port
  BY <1>1, SettingKept DEF SettingInUse, AfterApply
<1>4. BridgesOK' /\ BridgeInUse(a)'
  BY BridgesKept, RoutesKept DEF RoutesOK, AfterApply
<1>5. Ways(pairing'[a].port, bridges') = {pairing'[a].proxy}
  <2>1. pairing'[a].port # 0
    BY <1>4, FleetAssumption DEF BridgeInUse, BridgesOK, Ports
  <2> QED BY <1>4, <2>1 DEF Ways, BridgeInUse, BridgesOK
<1>6. tunnels'[v] \subseteq tunnels[v] \cup Ways(setting'[v], bridges')
  BY <1>1, TunnelsGrow
<1> QED BY <1>1, <1>2, <1>3, <1>5, <1>6
-----------------------------------------------------------------------------
(* The counters.                                                           *)

LEMMA CountsKept ==
  ASSUME FleetInductive, FleetNext
  PROVE  CountsOK'
<1> USE DEF At
<1>t. CountsOK /\ TasksOK /\ LocksOK /\ RowsOK /\ BridgesOK /\ HostsOK /\ SettingsOK
  BY DEF FleetInductive
<1>1. CASE UNCHANGED <<counter, posts, uncounted, pairing>>
  BY <1>t, <1>1 DEF CountsOK
<1>2. ASSUME NEW a \in Users, Task(a) PROVE CountsOK'
  <2>o. \A b \in Users \ {a} : pairing'[b] = pairing[b]
    BY <1>t, <1>2, OtherTasks
  <2>1. CASE UNCHANGED <<counter, posts, uncounted>> /\ ~At(a, "count")
    <3>1. \/ pairing'[a].pc = "idle"
          \/ pairing'[a].pc # "count" /\ (pairing[a].pc # "limit" \/ counter[a] < PostLimit) /\ pairing[a].pc # "idle"
      BY <1>t, <1>2, <2>1, ApplyFields, BecomesFields, EndFields, GetProxyFields, BridgeFields,
         RotateFields
         DEF Task, CheckLimit, UnderLimit, GetProxy, Bridge, Verify, Rotate, Connect, Post, Posted, PostFails,
             CountPost, CallFails, CountsOK
    <3> QED BY <1>t, <2>o, <2>1, <3>1 DEF CountsOK
  <2>2. CASE Post(a)
    <3>1. posts' = [posts EXCEPT ![a] = @ + 1] /\ UNCHANGED <<counter, uncounted>>
      BY <2>2 DEF Post, Posted
    <3>2. pairing'[a].pc = "count" /\ pairing[a].pc = "post"
      BY <1>t, <2>2, BecomesFields DEF Post
    <3> QED BY <1>t, <2>o, <3>1, <3>2 DEF CountsOK
  <2>3. CASE PostFails(a)
    <3>1. pairing'[a].pc = "idle" /\ pairing[a].pc = "post" /\ counter' = counter
      BY <1>t, <2>3, EndFields DEF PostFails
    <3>2. \/ UNCHANGED <<posts, uncounted>>
          \/ posts' = [posts EXCEPT ![a] = @ + 1] /\ uncounted' = [uncounted EXCEPT ![a] = @ + 1]
      BY <2>3 DEF PostFails, Posted
    <3> QED BY <1>t, <2>o, <3>1, <3>2 DEF CountsOK
  <2>4. CASE CountPost(a)
    <3>1. pairing'[a].pc = "idle" /\ pairing[a].pc = "count"
      BY <1>t, <2>4, EndFields DEF CountPost
    <3>2. counter' = [counter EXCEPT ![a] = @ + 1] /\ UNCHANGED <<posts, uncounted>>
      BY <2>4 DEF CountPost
    <3> QED BY <1>t, <2>o, <3>1, <3>2, FleetAssumption DEF CountsOK
  <2>5. CASE CallFails(a)
    <3>1. pairing'[a].pc = "idle" /\ pairing[a].pc # "idle" /\ UNCHANGED <<counter, posts>>
      BY <1>t, <2>5, EndFields DEF CallFails
    <3>2. uncounted' = IF At(a, "count") THEN [uncounted EXCEPT ![a] = @ + 1] ELSE uncounted
      BY <2>5 DEF CallFails
    <3> QED BY <1>t, <2>o, <3>1, <3>2 DEF CountsOK
  <2>6. CASE CheckLimit(a) \/ GetProxy(a) \/ Bridge(a) \/ Apply(a) \/ Verify(a) \/ Rotate(a) \/ Connect(a)
    BY <2>1, <2>6 DEF CheckLimit, GetProxy, Bridge, Apply, Verify, Rotate, Connect, postVars
  <2> QED BY <1>2, <2>2, <2>3, <2>4, <2>5, <2>6 DEF Task
<1>3. CASE StartCycle
  <2>1. UNCHANGED <<counter, posts, uncounted>>
    BY <1>3, ControllerFrame
  <2> QED BY <1>t, <1>3, <2>1, CycleTasks DEF CountsOK
<1>4. CASE Die
  <2>1. /\ uncounted' = [a \in Users |-> IF At(a, "count") THEN uncounted[a] + 1 ELSE uncounted[a]]
        /\ UNCHANGED <<counter, posts>>
    BY <1>4 DEF Die
  <2> QED BY <1>t, <1>4, <2>1, DeadTasks DEF CountsOK
<1>5. ASSUME NEW serials, Disturbed(serials), UNCHANGED <<counter, posts, uncounted>> PROVE CountsOK'
  BY <1>t, <1>5, DisturbedTasks DEF CountsOK
<1>6. CASE \/ ControllerStart \/ Reconciled \/ (\E s \in Serials : Reconcile(s))
           \/ \E a \in Users, p \in Egresses : Reassign(a, p)
  BY <1>1, <1>6 DEF ControllerStart, Reconciled, Reconcile, Reassign, postVars
<1> QED BY <1>t, <1>1, <1>2, <1>3, <1>4, <1>5, <1>6, OperatorTasks, OperatorFrame, HostFrame, AdbFrame, Cases
   DEF Removed, AdbConnect

-----------------------------------------------------------------------------
(* The locks and the launches.                                             *)

\* The forms a request's record takes.
LEMMA CallerForms ==
  ASSUME NEW c \in CallerRecords
  PROVE  /\ NoRequest \in CallerRecords
         /\ \A kind \in Kinds, s \in Serials : [NoRequest EXCEPT !.kind = kind, !.serial = s] \in CallerRecords
         /\ \A v \in Avds, before \in SUBSET Serials, alone \in BOOLEAN :
              [NoRequest EXCEPT !.kind = "launch", !.avd = v, !.before = before, !.alone = alone] \in CallerRecords
         /\ \A kind \in Kinds : [c EXCEPT !.kind = kind] \in CallerRecords
         /\ \A kind \in Kinds, s \in Serials : [c EXCEPT !.kind = kind, !.serial = s] \in CallerRecords
         /\ [c EXCEPT !.alone = FALSE] \in CallerRecords
BY DEF CallerRecords, NoRequest, Kinds

\* Other launches are told that they are not alone.
LEMMA NotAloneKeeps ==
  ASSUME LocksOK, NEW q \in Callers
  PROVE  /\ NotAlone(LaunchesInProgress)[q] \in CallerRecords
         /\ NotAlone(LaunchesInProgress)[q].serial = caller[q].serial
         /\ NotAlone(LaunchesInProgress)[q].kind = caller[q].kind
         /\ caller[q].kind = "launch" => ~NotAlone(LaunchesInProgress)[q].alone
<1>1. caller[q] \in CallerRecords
  BY DEF LocksOK
<1>2. NotAlone(LaunchesInProgress)[q] = IF caller[q].kind = "launch" THEN [caller[q] EXCEPT !.alone = FALSE] ELSE caller[q]
  BY DEF NotAlone, LaunchesInProgress
<1>3. [caller[q] EXCEPT !.alone = FALSE] \in CallerRecords
  BY <1>1, CallerForms
<1>4. CASE caller[q].kind = "launch"
  BY <1>1, <1>2, <1>3, <1>4 DEF CallerRecords
<1>5. CASE caller[q].kind # "launch"
  BY <1>1, <1>2, <1>5
<1> QED BY <1>4, <1>5

\* Taking a lock, and giving it back.
LEMMA LockKeeps ==
  ASSUME LocksOK, NEW r \in Callers, NEW s \in Serials, NEW kind \in {"input", "stop", "restart"}, Lock(r, s, kind)
  PROVE  LocksOK'
<1> DEFINE x == [NoRequest EXCEPT !.kind = kind, !.serial = s]
<1>1. kind \in Kinds /\ caller[r] \in CallerRecords
  BY DEF Kinds, LocksOK
<1>2. x \in CallerRecords
  BY <1>1, CallerForms, Zenon
<1>3. x.kind = kind /\ x.serial = s
  BY DEF NoRequest
<1>4. caller' = [caller EXCEPT ![r] = x] /\ holder' = [holder EXCEPT ![s] = r] /\ holder[s] = Nothing
  BY DEF Lock
<1> HIDE DEF x
<1> QED BY <1>2, <1>3, <1>4, FleetAssumption DEF LocksOK

LEMMA UnlockKeeps ==
  ASSUME LocksOK, NEW r \in Callers, Unlock(r)
  PROVE  LocksOK'
<1>1. NoRequest \in CallerRecords /\ NoRequest.kind = "none" /\ NoRequest.serial = Nothing
  BY DEF NoRequest, CallerRecords, Kinds
<1> QED BY <1>1 DEF LocksOK, Unlock

\* A request that goes on keeps its serial.
LEMMA GoesOn ==
  ASSUME LocksOK, NEW r \in Callers, NEW kind \in Kinds, holder' = holder,
         caller[r].kind \in {"input", "stop", "stopped", "restart", "waiting"}, kind # "none",
         \A q \in Callers : /\ caller'[q] \in CallerRecords /\ caller'[q].serial = caller[q].serial
                           /\ caller'[q].kind = IF q = r THEN kind ELSE caller[q].kind,
         caller' \in [Callers -> CallerRecords]
  PROVE  LocksOK'
BY DEF LocksOK

LEMMA LocksKept ==
  ASSUME FleetInductive, FleetNext
  PROVE  LocksOK'
<1>t. LocksOK /\ HostsOK
  BY DEF FleetInductive
<1>1. CASE UNCHANGED <<holder, caller>>
  BY <1>t, <1>1 DEF LocksOK
<1>2. ASSUME NEW r \in Callers, Operator(r) PROVE LocksOK'
  <2>c. caller[r] \in CallerRecords /\ \A q \in Callers : caller[q] \in CallerRecords
    BY <1>t DEF LocksOK
  <2>k. {"stopped", "waiting", "launch", "claimed"} \subseteq Kinds
    BY DEF Kinds
  <2>1. CASE \E s \in Serials : BeginInput(r, s) \/ BeginStop(r, s) \/ BeginRestart(r, s)
    BY <1>t, <2>1, LockKeeps DEF BeginInput, BeginStop, BeginRestart
  <2>2. CASE EndInput(r) \/ EndStop(r) \/ EndRestart(r) \/ EndLaunch(r)
    BY <1>t, <2>2, UnlockKeeps DEF EndInput, EndStop, EndRestart, EndLaunch
  <2>3. CASE KillOnStop(r) \/ Reboot(r)
    <3>1. PICK kind \in {"stopped", "waiting"} : caller' = [caller EXCEPT ![r].kind = kind]
      BY <2>3 DEF KillOnStop, Reboot
    <3>2. caller[r].kind \in {"stop", "restart"} /\ holder' = holder
      BY <2>3 DEF KillOnStop, Reboot
    <3>3. [caller[r] EXCEPT !.kind = kind] \in CallerRecords
      BY <2>c, <2>k, CallerForms
    <3>4. caller' \in [Callers -> CallerRecords]
      BY <1>t, <3>1, <3>3 DEF LocksOK
    <3>5. \A q \in Callers : /\ caller'[q].serial = caller[q].serial
                             /\ caller'[q].kind = IF q = r THEN kind ELSE caller[q].kind
      BY <1>t, <2>c, <3>1 DEF LocksOK, CallerRecords
    <3> QED BY <1>t, <2>k, <3>2, <3>4, <3>5, GoesOn
  <2>4. CASE Relaunch(r)
    <3>1. caller' = [q \in Callers |-> IF q = r THEN [NotAlone(LaunchesInProgress)[r] EXCEPT !.kind = "waiting"]
                                      ELSE NotAlone(LaunchesInProgress)[q]]
      BY <2>4 DEF Relaunch, NotAlone
    <3>2. ASSUME NEW q \in Callers
          PROVE  /\ NotAlone(LaunchesInProgress)[q] \in CallerRecords
                 /\ NotAlone(LaunchesInProgress)[q].serial = caller[q].serial
                 /\ NotAlone(LaunchesInProgress)[q].kind = caller[q].kind
      BY <1>t, NotAloneKeeps
    <3>3. [NotAlone(LaunchesInProgress)[r] EXCEPT !.kind = "waiting"] \in CallerRecords
      BY <2>k, <3>2, CallerForms
    <3>4. caller' \in [Callers -> CallerRecords]
      BY <3>1, <3>2, <3>3
    <3>5. \A q \in Callers : /\ caller'[q].serial = caller[q].serial
                             /\ caller'[q].kind = IF q = r THEN "waiting" ELSE caller[q].kind
      BY <3>1, <3>2 DEF CallerRecords
    <3>6. caller[r].kind = "restart" /\ holder' = holder
      BY <2>4 DEF Relaunch
    <3> QED BY <1>t, <2>k, <3>4, <3>5, <3>6, GoesOn
  <2>5. CASE \E v \in Avds : BeginLaunch(r, v)
    <3>1. PICK v \in Avds, before \in {Devices, {}} :
            caller' = [NotAlone(LaunchesInProgress) EXCEPT
                         ![r] = [NoRequest EXCEPT !.kind = "launch", !.avd = v, !.before = before,
                                   !.alone = starting = {} /\ before = Devices]]
      BY <2>5 DEF BeginLaunch
    <3> DEFINE x == [NoRequest EXCEPT !.kind = "launch", !.avd = v, !.before = before,
                                   !.alone = starting = {} /\ before = Devices]
    <3>2. before \in SUBSET Serials /\ (starting = {} /\ before = Devices) \in BOOLEAN
      BY DEF Devices
    <3>3. x \in CallerRecords
      BY <2>c, <3>2, CallerForms, Zenon
    <3>4. ASSUME NEW q \in Callers
          PROVE  /\ NotAlone(LaunchesInProgress)[q] \in CallerRecords
                 /\ NotAlone(LaunchesInProgress)[q].serial = caller[q].serial
                 /\ NotAlone(LaunchesInProgress)[q].kind = caller[q].kind
      BY <1>t, NotAloneKeeps
    <3>5. x.kind = "launch" /\ holder' = holder /\ DOMAIN NotAlone(LaunchesInProgress) = Callers
      BY <2>5 DEF NoRequest, BeginLaunch, NotAlone
    <3> HIDE DEF x
    <3>6. caller'[r] = x /\ \A q \in Callers \ {r} : caller'[q] = NotAlone(LaunchesInProgress)[q]
      BY <3>1, <3>5 DEF x
    <3>7. caller' \in [Callers -> CallerRecords]
      BY <3>1, <3>3, <3>4, <3>5 DEF x
    <3> QED BY <1>t, <3>4, <3>5, <3>6, <3>7 DEF LocksOK
  <2>6. CASE Claim(r)
    <3>1. PICK s \in Serials : caller' = [caller EXCEPT ![r].kind = "claimed", ![r].serial = s]
      BY <2>6 DEF Claim, Claimable, Devices
    <3>2. [caller[r] EXCEPT !.kind = "claimed", !.serial = s] \in CallerRecords
      BY <2>c, <2>k, CallerForms
    <3>3. caller' \in [Callers -> CallerRecords] /\ caller'[r].kind = "claimed" /\ holder' = holder
      BY <1>t, <2>6, <3>1, <3>2 DEF LocksOK, Claim, CallerRecords
    <3> QED BY <1>t, <3>1, <3>3 DEF LocksOK
  <2> QED BY <1>2, <2>1, <2>2, <2>3, <2>4, <2>5, <2>6 DEF Operator
<1>3. CASE Die
  <2>1. NoRequest \in CallerRecords /\ NoRequest.kind = "none" /\ NoRequest.serial = Nothing
    BY DEF NoRequest, CallerRecords, Kinds
  <2> QED BY <1>3, <2>1 DEF Die, LocksOK
<1>4. ASSUME NEW v \in Avds, NEW s \in Serials, AdbConnect(v, s) PROVE LocksOK'
  <2>1. caller' = NotAlone(LaunchesInProgress) /\ holder' = holder /\ DOMAIN NotAlone(LaunchesInProgress) = Callers
    BY <1>4 DEF AdbConnect, NotAlone
  <2>2. ASSUME NEW q \in Callers
        PROVE  /\ NotAlone(LaunchesInProgress)[q] \in CallerRecords
               /\ NotAlone(LaunchesInProgress)[q].serial = caller[q].serial
               /\ NotAlone(LaunchesInProgress)[q].kind = caller[q].kind
    BY <1>t, NotAloneKeeps
  <2>3. caller' \in [Callers -> CallerRecords]
    BY <2>1, <2>2 DEF NotAlone
  <2> QED BY <1>t, <2>1, <2>2, <2>3 DEF LocksOK
<1> QED BY <1>1, <1>2, <1>3, <1>4, TaskFrame, ControllerFrame, HostFrame, Cases


\* A launch that is alone stays so while nothing else is started.
LEMMA LaunchesKept ==
  ASSUME FleetInductive, FleetNext
  PROVE  LaunchesOK'
<1>t. LaunchesOK /\ LocksOK /\ HostsOK
  BY DEF FleetInductive
<1>f. \A q \in Callers : caller[q] \in CallerRecords
  BY <1>t DEF LocksOK
<1>1. CASE UNCHANGED <<avd, starting, caller>>
  BY <1>t, <1>1 DEF LaunchesOK, Devices
<1>2. ASSUME NEW r \in Callers, Operator(r) PROVE LaunchesOK'
  <2>1. CASE \E s \in Serials : BeginInput(r, s) \/ BeginStop(r, s) \/ BeginRestart(r, s)
    <3>1. PICK s \in Serials, kind \in {"input", "stop", "restart"} : Lock(r, s, kind) /\ UNCHANGED <<avd, starting>>
      BY <2>1 DEF BeginInput, BeginStop, BeginRestart, hostVars
    <3>2. caller'[r].kind = kind /\ \A q \in Callers \ {r} : caller'[q] = caller[q]
      BY <1>t, <3>1 DEF Lock, LocksOK, NoRequest
    <3> QED BY <1>t, <3>1, <3>2 DEF LaunchesOK, Devices
  <2>2. CASE EndInput(r) \/ EndStop(r) \/ EndRestart(r) \/ EndLaunch(r)
    <3>1. Unlock(r) /\ UNCHANGED <<avd, starting>>
      BY <2>2 DEF EndInput, EndStop, EndRestart, EndLaunch, hostVars
    <3>2. caller'[r].kind = "none" /\ \A q \in Callers \ {r} : caller'[q] = caller[q]
      BY <1>t, <3>1 DEF Unlock, LocksOK, NoRequest
    <3> QED BY <1>t, <3>1, <3>2 DEF LaunchesOK, Devices
  <2>3. CASE KillOnStop(r) \/ Reboot(r) \/ Claim(r)
    <3>1. starting' = starting /\ \A s \in Serials : avd'[s] \in {avd[s], Nothing}
      BY <2>3 DEF KillOnStop, Reboot, Claim, Removed, hostVars
    <3>2. caller'[r].kind # "launch" /\ \A q \in Callers \ {r} : caller'[q] = caller[q]
      BY <1>t, <1>f, <2>3 DEF KillOnStop, Reboot, Claim, LocksOK, CallerRecords
    <3>3. Devices' \subseteq Devices /\ \A s \in Devices' : avd'[s] = avd[s]
      BY <1>t, <3>1 DEF Devices, HostsOK
    <3> QED BY <1>t, <3>1, <3>2, <3>3 DEF LaunchesOK
  <2>4. CASE Relaunch(r)
    <3>1. \A q \in Callers : /\ NotAlone(LaunchesInProgress)[q].kind = caller[q].kind
                             /\ caller[q].kind = "launch" => ~NotAlone(LaunchesInProgress)[q].alone
                             /\ NotAlone(LaunchesInProgress)[q] \in CallerRecords
      BY <1>t, NotAloneKeeps
    <3>2. caller'[r].kind = "waiting" /\ \A q \in Callers \ {r} : caller'[q] = NotAlone(LaunchesInProgress)[q]
      BY <2>4, <3>1 DEF Relaunch, NotAlone, CallerRecords
    <3> QED BY <3>1, <3>2 DEF LaunchesOK
  <2>5. CASE \E v \in Avds : BeginLaunch(r, v)
    <3>1. PICK v \in Avds, before \in {Devices, {}} :
            /\ caller' = [NotAlone(LaunchesInProgress) EXCEPT
                            ![r] = [NoRequest EXCEPT !.kind = "launch", !.avd = v, !.before = before,
                                      !.alone = starting = {} /\ before = Devices]]
            /\ starting' = starting \cup {v} /\ avd' = avd
      BY <2>5 DEF BeginLaunch
    <3>2. \A q \in Callers : /\ NotAlone(LaunchesInProgress)[q].kind = caller[q].kind
                             /\ caller[q].kind = "launch" => ~NotAlone(LaunchesInProgress)[q].alone
      BY <1>t, NotAloneKeeps
    <3>3. DOMAIN NotAlone(LaunchesInProgress) = Callers
      BY DEF NotAlone
    <3>4. \A q \in Callers \ {r} : caller'[q] = NotAlone(LaunchesInProgress)[q]
      BY <3>1, <3>3
    <3>5. /\ caller'[r].avd = v /\ caller'[r].before = before
          /\ caller'[r].alone => starting = {} /\ before = Devices
      BY <3>1, <3>3 DEF NoRequest
    <3> QED BY <3>1, <3>2, <3>4, <3>5 DEF LaunchesOK, Devices
  <2> QED BY <1>2, <2>1, <2>2, <2>3, <2>4, <2>5 DEF Operator
<1>3. CASE Die
  BY <1>3 DEF Die, LaunchesOK, NoRequest
<1>4. ASSUME NEW s \in Serials, Boot(s) \/ \E v \in Avds : Appear(v, s) PROVE LaunchesOK'
  <2>1. CASE Boot(s)
    BY <1>1, <2>1 DEF Boot, requestVars
  <2>2. ASSUME NEW v \in Avds, Appear(v, s) PROVE LaunchesOK'
    <3>1. /\ v \in starting /\ avd' = [avd EXCEPT ![s] = v] /\ starting' = starting \ {v} /\ caller' = caller
      BY <2>2 DEF Appear, requestVars
    <3>2. \A t \in Devices' : (t = s /\ avd'[t] = v) \/ (t \in Devices /\ avd'[t] = avd[t])
      BY <1>t, <3>1 DEF Devices, HostsOK
    <3> QED BY <1>t, <3>1, <3>2 DEF LaunchesOK
  <2> QED BY <1>4, <2>1, <2>2
<1>5. ASSUME NEW v \in Avds, NEW s \in Serials, AdbConnect(v, s) PROVE LaunchesOK'
  BY <1>t, <1>5, NotAloneKeeps DEF AdbConnect, LaunchesOK
<1> QED BY <1>1, <1>2, <1>3, <1>4, <1>5, TaskFrame, ControllerFrame, Cases

-----------------------------------------------------------------------------
(* The theorems.                                                           *)

LEMMA InitHolds == FleetInit => FleetInductive
<1> SUFFICES ASSUME FleetInit PROVE FleetInductive
  OBVIOUS
<1>1. HostsOK /\ SettingsOK
  BY FleetAssumption DEF FleetInit, HostsOK, SettingsOK, Devices
<1>2. BridgesOK
  <2>1. DOMAIN bridges = {} /\ DOMAIN pins = {} /\ unbound = {}
    BY DEF FleetInit
  <2> QED BY <2>1 DEF BridgesOK, PinsDistinct
<1>3. RowsOK
  BY DEF FleetInit, RowsOK
<1>4. \A a \in Users : pairing[a] = Unpaired /\ pairing[a].pc = "idle" /\ pairing[a].serial = Nothing
  BY UnpairedTyped DEF FleetInit
<1>5. TasksOK
  BY <1>4, UnpairedTyped DEF FleetInit, TasksOK, At
<1>6. EmulatorsOK /\ RoutesOK /\ SettingInUse /\ TunnelsInUse
  BY <1>4 DEF EmulatorsOK, RoutesOK, SettingInUse, TunnelsInUse, At
<1>7. CountsOK
  BY <1>4, FleetAssumption DEF FleetInit, CountsOK, At
<1>8. LocksOK /\ LaunchesOK
  <2>1. NoRequest \in CallerRecords /\ NoRequest.kind = "none" /\ NoRequest.serial = Nothing
    BY DEF NoRequest, CallerRecords, Kinds
  <2> QED BY <2>1 DEF FleetInit, LocksOK, LaunchesOK
<1> QED BY <1>1, <1>2, <1>3, <1>5, <1>6, <1>7, <1>8 DEF FleetInductive

LEMMA StutterKeeps ==
  ASSUME FleetInductive, UNCHANGED fleetVars
  PROVE  FleetInductive'
<1>1. /\ UNCHANGED <<avd, ready, starting, setting, tunnels, assigned, up, todo, bridges, pins, unbound, binding>>
      /\ UNCHANGED <<pairing, holder, caller, counter, posts, uncounted>>
  BY DEF fleetVars, hostVars, bridgeVars, requestVars, postVars
<1>2. HostsOK' /\ SettingsOK' /\ BridgesOK' /\ RowsOK'
  BY <1>1 DEF FleetInductive, HostsOK, SettingsOK, BridgesOK, RowsOK, PinsDistinct, Devices
<1>3. TasksOK' /\ EmulatorsOK' /\ RoutesOK' /\ SettingInUse' /\ TunnelsInUse'
  BY <1>1 DEF FleetInductive, TasksOK, EmulatorsOK, RoutesOK, SettingInUse, TunnelsInUse, OwnOrOld, BridgeInUse, Pair, At
<1>4. CountsOK' /\ LocksOK' /\ LaunchesOK'
  BY <1>1 DEF FleetInductive, CountsOK, LocksOK, LaunchesOK, At, Devices
<1> QED BY <1>2, <1>3, <1>4 DEF FleetInductive

LEMMA StepKeeps == FleetInductive /\ [FleetNext]_fleetVars => FleetInductive'
<1> SUFFICES ASSUME FleetInductive, [FleetNext]_fleetVars PROVE FleetInductive'
  OBVIOUS
<1>1. CASE FleetNext
  BY <1>1, HostsKept, SettingsKept, BridgesKept, RowsKept, TasksKept, EmulatorsKept, RoutesKept, SettingKept, TunnelsKept,
     CountsKept, LocksKept, LaunchesKept DEF FleetInductive
<1> QED BY <1>1, StutterKeeps

\* Types, pins that are distinct or explained, and one request per emulator, for any number of
\* accounts, emulators, ports, requests, failures and deaths of the controller.
THEOREM FleetKept == FleetSpec => []FleetInvariant
BY InitHolds, StepKeeps, InvariantFollows, PTL DEF FleetSpec

\* The daily limit is passed only by posts whose task ended before it counted them
\* (_passes_rate_limit, _increment_rate_counter), whatever the limit.
THEOREM LimitKept == FleetSpec => []PostsWithinLimit
BY InitHolds, StepKeeps, InvariantFollows, PTL DEF FleetSpec

\* When a post goes out the emulator's setting leads to the bridge of its task, which is the only
\* one on its port and forwards to the proxy of the account, and what else is open is older; or
\* the task was disturbed.
LEMMA PostIsRouted ==
  FleetInductive /\ [FleetNext]_fleetVars =>
    [\A a \in Users : posts'[a] > posts[a] =>
       (Routed(a) /\ OwnOrOld(a)) \/ pairing[a].disturbed]_fleetVars
<1> SUFFICES ASSUME FleetInductive, FleetNext, NEW a \in Users, posts'[a] > posts[a], ~pairing[a].disturbed
             PROVE  Routed(a) /\ OwnOrOld(a)
  OBVIOUS
<1>1. CASE posts' = posts
  BY <1>1 DEF FleetInductive, CountsOK
<1>2. ASSUME NEW b \in Users, Task(b) PROVE Routed(a) /\ OwnOrOld(a)
  <2>1. CASE posts' = [posts EXCEPT ![b] = @ + 1] /\ At(b, "post")
    <3>1. a = b
      BY <2>1 DEF FleetInductive, CountsOK
    <3>2. BridgeInUse(a) /\ setting[avd[pairing[a].serial]] = pairing[a].port /\ OwnOrOld(a)
      BY <2>1, <3>1 DEF FleetInductive, RoutesOK, SettingInUse, TunnelsInUse, At
    <3> QED BY <3>2 DEF Routed, BridgeInUse, FleetInductive, BridgesOK
  <2> QED BY <1>1, <1>2, <2>1 DEF Task, CheckLimit, GetProxy, Bridge, Apply, Verify, Rotate, Connect, Post, Posted,
         PostFails, CountPost, CallFails, postVars
<1>3. CASE Die
  BY <1>1, <1>3 DEF Die
<1> QED BY <1>1, <1>2, <1>3, ControllerFrame, HostFrame, OperatorFrame, AdbFrame, Cases

\* A post leaves through its account's own proxy, or by a connection the device opened before the
\* task pointed it at its bridge (ensure_bridge, apply_http_proxy), across rotations, failing
\* bridges, deaths of the controller and the other accounts' bridges, unless the emulator was
\* replaced, or listed under a second serial, meanwhile.
THEOREM OwnProxy == FleetSpec => PostsThroughOwnProxy
BY InitHolds, StepKeeps, PostIsRouted, PTL DEF FleetSpec, PostsThroughOwnProxy

\* What an undisturbed launch has not seen before is its own.
LEMMA ClaimIsOwn ==
  FleetInductive /\ [FleetNext]_fleetVars =>
    [\A r \in Callers :
       caller[r].kind = "launch" /\ caller'[r].kind = "claimed" =>
         avd[caller'[r].serial] = caller[r].avd \/ ~caller[r].alone]_fleetVars
<1> SUFFICES ASSUME FleetInductive, FleetNext, NEW r \in Callers, caller[r].kind = "launch",
                    caller'[r].kind = "claimed", caller[r].alone
             PROVE  avd[caller'[r].serial] = caller[r].avd
  OBVIOUS
<1>t. LocksOK /\ LaunchesOK
  BY DEF FleetInductive
<1>1. caller' # caller
  OBVIOUS
<1>2. PICK q \in Callers : Operator(q)
  <2>1. CASE Die
    BY <2>1 DEF Die, NoRequest
  <2>2. ASSUME NEW v \in Avds, NEW s \in Serials, AdbConnect(v, s) PROVE FALSE
    BY <1>t, <2>2, NotAloneKeeps DEF AdbConnect
  <2> QED BY <1>1, <2>1, <2>2, TaskFrame, ControllerFrame, HostFrame, Cases
<1>3. CASE Claim(r)
  BY <1>t, <1>3 DEF Claim, Claimable, LaunchesOK, LocksOK, CallerRecords
<1>4. CASE ~Claim(r)
  <2>1. CASE (\E s \in Serials : BeginInput(q, s) \/ BeginStop(q, s) \/ BeginRestart(q, s))
              \/ EndInput(q) \/ EndStop(q) \/ EndRestart(q) \/ EndLaunch(q)
    <3>1. \E x : x.kind # "claimed" /\ caller' = [caller EXCEPT ![q] = x]
      BY <2>1 DEF BeginInput, BeginStop, BeginRestart, Lock, EndInput, EndStop, EndRestart, EndLaunch, Unlock, NoRequest
    <3> QED BY <1>t, <3>1 DEF LocksOK
  <2>2. CASE KillOnStop(q) \/ Reboot(q) \/ (Claim(q) /\ q # r)
    BY <1>t, <2>2 DEF KillOnStop, Reboot, Claim, LocksOK
  <2>3. CASE Relaunch(q) \/ \E v \in Avds : BeginLaunch(q, v)
    <3>1. q # r
      BY <2>3 DEF Relaunch, BeginLaunch, Accepted
    <3>2. DOMAIN NotAlone(LaunchesInProgress) = Callers
      BY DEF NotAlone
    <3>3. CASE Relaunch(q)
      BY <1>t, <3>1, <3>2, <3>3, NotAloneKeeps DEF Relaunch
    <3>4. ASSUME NEW v \in Avds, BeginLaunch(q, v) PROVE caller'[r].kind # "claimed"
      BY <1>t, <3>1, <3>2, <3>4, NotAloneKeeps DEF BeginLaunch
    <3> QED BY <2>3, <3>3, <3>4
  <2> QED BY <1>2, <1>4, <2>1, <2>2, <2>3 DEF Operator
<1> QED BY <1>3, <1>4

\* A launch answers with its own emulator, unless another one was being launched or connected
\* meanwhile or adb failed when it looked (launch_avd, adb_connect), for any number of launches,
\* restarts and connections.
THEOREM LaunchesClaimOwn == FleetSpec => LaunchClaimsOwn
BY InitHolds, StepKeeps, ClaimIsOwn, PTL DEF FleetSpec, LaunchClaimsOwn

-----------------------------------------------------------------------------
(***************************************************************************)
(* LegacyPacketQueue. A worker between the limit and its record is one of  *)
(* finitely many: that bounds the overrun. Of the posts of a packet held   *)
(* by one worker alone those no fault explains are one, which has its row  *)
(* or a worker that inserts it; its failures are counted in a row but the  *)
(* one in its hands; and a packet is on a list, in a worker's hands or     *)
(* settled until a poller removes what was added again.                    *)
(***************************************************************************)

WorkerRecords ==
  [pc : WorkerPcs, raw : Items, targets : SUBSET Senders, todo : SUBSET Senders,
   account : Senders \cup {NoAccount}, retries : 0..MaxRetries,
   failure : {"none", "permanent", "suspended", "transient", "unknown"}]

RowRecords == [status : RowStatus, retry : 0..MaxRetries]

\* A worker beyond "pick" has an account, one of those left to do; those left to do are targets.
WorkerFine(r) ==
  /\ r.pc \in {"idle", "pick"} \/ r.account \in r.todo
  /\ r.pc = "idle" => r.todo = {}
  /\ r.todo \subseteq r.targets

WorkersTyped == worker \in [Workers -> WorkerRecords] /\ \A w \in Workers : WorkerFine(worker[w])

RowsTyped == pubRows \in [Deliveries -> Seq(RowRecords)]

ListsTyped ==
  /\ queue \in [Items -> Nat]
  /\ delayed \subseteq Items /\ due \subseteq delayed /\ moved \subseteq delayed
  /\ swept \subseteq Items
  /\ poller \in [Pollers -> [read : SUBSET Items, pushed : SUBSET Items]]

CountsTyped ==
  /\ blocked \subseteq Senders /\ recent \subseteq Senders
  /\ count \in [Senders -> Nat] /\ published \in [Senders -> Nat] /\ today \in [Senders -> Nat]
  /\ sent \in [Deliveries -> Nat] /\ attempts \in [Deliveries -> Nat]
  /\ turnedAway \subseteq Deliveries /\ shared \subseteq Packets
  /\ unlogged \in Nat /\ lost \in Nat /\ manual \in Nat /\ dbErrors \in Nat /\ crashes \in Nat

LegacyTyped == WorkersTyped /\ RowsTyped /\ ListsTyped /\ CountsTyped

-----------------------------------------------------------------------------
(* The publications rows.                                                  *)

\* A set of retry counts has a largest one.
LEMMA LargestIn ==
  ASSUME NEW S \in SUBSET (0..MaxRetries)
  PROVE  Largest(S) \in 0..MaxRetries /\ \A x \in S : x <= Largest(S)
<1> DEFINE Less == {ss \in Nat \X Nat : ss[1] < ss[2]}
           T == {m \in 0..MaxRetries : MaxRetries - m \in S}
<1>0. MaxRetries \in Nat
  BY LegacyAssumption DEF LegacyAssumption
<1>1. CASE S = {}
  BY <1>0, <1>1 DEF Largest
<1>2. CASE S # {}
  <2>1. T # {} /\ T \subseteq Nat
    <3>1. PICK x \in S : TRUE
      BY <1>2
    <3>2. x \in 0..MaxRetries
      OBVIOUS
    <3>3. MaxRetries - x \in 0..MaxRetries /\ MaxRetries - (MaxRetries - x) = x
      BY <1>0, <3>2
    <3>4. MaxRetries - x \in T
      BY <3>3
    <3>5. T \subseteq Nat
      BY <1>0
    <3> HIDE DEF T
    <3> QED BY <3>4, <3>5
  <2>2. IsWellFoundedOn(Less, Nat)
    BY NatLessThanWellFounded DEF OpToRel
  <2>3. \E p \in T : \A q \in T : <<q, p>> \notin Less
    <3> HIDE DEF Less, T
    <3> QED BY <2>1, <2>2, WFMin
  <2>4. PICK m \in T : \A k \in T : m <= k
    <3>1. \A p, q \in Nat : <<q, p>> \notin Less => p <= q
      OBVIOUS
    <3> HIDE DEF Less, T
    <3> QED BY <2>1, <2>3, <3>1
  <2>5. \A x \in S : x <= MaxRetries - m
    <3> TAKE x \in S
    <3>1. MaxRetries - x \in T
      <4>1. MaxRetries - x \in 0..MaxRetries /\ MaxRetries - (MaxRetries - x) = x
        BY <1>0
      <4> QED BY <4>1
    <3>2. m <= MaxRetries - x
      BY <2>4, <3>1
    <3> QED BY <1>0, <3>2
  <2>6. \E x \in S : \A y \in S : x >= y
    <3>1. MaxRetries - m \in S /\ \A y \in S : MaxRetries - m >= y
      BY <1>0, <2>5
    <3> QED BY <3>1
  <2>7. Max(S) \in S /\ \A y \in S : Max(S) >= y
    BY <2>6 DEF Max
  <2> QED BY <1>0, <1>2, <2>7 DEF Largest
<1> QED BY <1>1, <1>2

\* getRetryCount is a retry count, and no row has a larger one.
LEMMA RetryCountIn ==
  ASSUME RowsTyped, NEW pa \in Deliveries
  PROVE  /\ RetryCount(pa) \in 0..MaxRetries
         /\ \A n \in 1..Len(pubRows[pa]) : pubRows[pa][n].retry <= RetryCount(pa)
<1>1. pubRows[pa] \in Seq(RowRecords)
  BY DEF RowsTyped
<1>2. DOMAIN pubRows[pa] = 1..Len(pubRows[pa])
  BY <1>1
<1>3. \A n \in 1..Len(pubRows[pa]) : pubRows[pa][n].retry \in 0..MaxRetries
  <2> TAKE n \in 1..Len(pubRows[pa])
  <2>1. pubRows[pa][n] \in RowRecords
    BY <1>1
  <2> QED BY <2>1 DEF RowRecords
<1>4. {pubRows[pa][n].retry : n \in DOMAIN pubRows[pa]} \in SUBSET (0..MaxRetries)
  BY <1>2, <1>3
<1> QED BY <1>2, <1>4, LargestIn DEF RetryCount

\* The rows of the other deliveries.
OtherRows(pa) == \A pb \in Deliveries \ {pa} : pubRows'[pb] = pubRows[pb]

\* logPublicationAttempt leaves a row with what it logged, and changes no other delivery.
LEMMA LoggedRows ==
  ASSUME RowsTyped, NEW pa \in Deliveries, NEW status \in RowStatus, NEW n \in 0..MaxRetries,
         LogAttempt(pa, status, n)
  PROVE  /\ RowsTyped' /\ OtherRows(pa)
         /\ \E k \in 1..Len(pubRows'[pa]) : pubRows'[pa][k].status = status /\ pubRows'[pa][k].retry = n
<1> DEFINE row == [status |-> status, retry |-> n]
<1>1. pubRows[pa] \in Seq(RowRecords) /\ row \in RowRecords
  BY DEF RowsTyped, RowRecords
<1>2. /\ Logged(pa, status, n) \in Seq(RowRecords)
      /\ \E k \in 1..Len(Logged(pa, status, n)) : Logged(pa, status, n)[k] = row
  <2>1. CASE pubRows[pa] = << >>
    <3>1. Logged(pa, status, n) = <<row>>
      BY <2>1 DEF Logged
    <3>2. <<row>> \in Seq(RowRecords) /\ Len(<<row>>) = 1 /\ <<row>>[1] = row
      <4> HIDE DEF row
      <4> QED BY <1>1
    <3> HIDE DEF row
    <3> QED BY <3>1, <3>2
  <2>2. CASE pubRows[pa] # << >>
    <3> DEFINE l == Len(pubRows[pa])
    <3>1. l \in 1..l
      BY <1>1, <2>2, EmptySeq, LenProperties
    <3>2. Logged(pa, status, n) = [pubRows[pa] EXCEPT ![l] = row]
      BY <2>2 DEF Logged
    <3> HIDE DEF row
    <3> QED BY <1>1, <3>1, <3>2, ExceptSeq
  <2> QED BY <2>1, <2>2
<1>3. pubRows' = [pubRows EXCEPT ![pa] = Logged(pa, status, n)]
  BY DEF LogAttempt
<1>4. pubRows'[pa] = Logged(pa, status, n) /\ RowsTyped' /\ OtherRows(pa)
  BY <1>2, <1>3 DEF RowsTyped, OtherRows
<1>5. row.status = status /\ row.retry = n
  OBVIOUS
<1> HIDE DEF row
<1> QED BY <1>2, <1>4, <1>5

\* logPublication keeps the rows there are.
LEMMA AppendedRows ==
  ASSUME RowsTyped, NEW pa \in Deliveries,
         pubRows' = [pubRows EXCEPT ![pa] = Append(@, [status |-> "published", retry |-> 0])]
  PROVE  /\ RowsTyped' /\ OtherRows(pa) /\ IsPublished(pa)'
         /\ \A k \in 1..Len(pubRows[pa]) : k \in 1..Len(pubRows'[pa]) /\ pubRows'[pa][k] = pubRows[pa][k]
<1> DEFINE row == [status |-> "published", retry |-> 0]
           s == pubRows[pa]
<1>0. row \in RowRecords
  BY LegacyAssumption DEF LegacyAssumption, RowRecords, RowStatus
<1>1. s \in Seq(RowRecords) /\ row \in RowRecords
  BY <1>0 DEF RowsTyped
<1>2. pubRows'[pa] = Append(s, row) /\ OtherRows(pa)
  BY DEF RowsTyped, OtherRows
<1>3. /\ Append(s, row) \in Seq(RowRecords) /\ Len(Append(s, row)) = Len(s) + 1 /\ Len(s) \in Nat
      /\ \A k \in 1..Len(s) : Append(s, row)[k] = s[k]
      /\ Append(s, row)[Len(s) + 1] = row
  BY <1>1, AppendProperties
<1>4. RowsTyped'
  BY <1>2, <1>3 DEF RowsTyped
<1>5. Len(s) + 1 \in 1..Len(pubRows'[pa]) /\ pubRows'[pa][Len(s) + 1].status = "published"
  BY <1>2, <1>3
<1> HIDE DEF row, s
<1>6. IsPublished(pa)'
  BY <1>5 DEF IsPublished
<1>7. \A k \in 1..Len(s) : k \in 1..Len(pubRows'[pa]) /\ pubRows'[pa][k] = s[k]
  BY <1>2, <1>3
<1> QED BY <1>2, <1>4, <1>6, <1>7 DEF s

\* The manual retry marks one row that is not published.
LEMMA MarkedRows ==
  ASSUME RowsTyped, NEW pa \in Deliveries, NEW n \in 1..Len(pubRows[pa]),
         pubRows[pa][n].status # "published",
         pubRows' = [pubRows EXCEPT ![pa][n].status = "retrying"]
  PROVE  /\ RowsTyped' /\ OtherRows(pa) /\ Len(pubRows'[pa]) = Len(pubRows[pa])
         /\ \A k \in 1..Len(pubRows[pa]) : /\ pubRows'[pa][k].retry = pubRows[pa][k].retry
                                           /\ k # n => pubRows'[pa][k].status = pubRows[pa][k].status
<1> DEFINE s == pubRows[pa]
           row == [s[n] EXCEPT !.status = "retrying"]
<1>1. s \in Seq(RowRecords) /\ s[n] \in RowRecords
  BY DEF RowsTyped
<1>2. row \in RowRecords /\ row.retry = s[n].retry
  BY <1>1 DEF RowRecords, RowStatus
<1>3. pubRows'[pa] = [s EXCEPT ![n] = row] /\ OtherRows(pa)
  BY DEF RowsTyped, OtherRows
<1> HIDE DEF row, s
<1>4. /\ [s EXCEPT ![n] = row] \in Seq(RowRecords) /\ Len([s EXCEPT ![n] = row]) = Len(s)
      /\ \A k \in 1..Len(s) : [s EXCEPT ![n] = row][k] = IF k = n THEN row ELSE s[k]
  BY <1>1, <1>2, ExceptSeq DEF s
<1>5. RowsTyped'
  BY <1>3, <1>4 DEF RowsTyped
<1> QED BY <1>2, <1>3, <1>4, <1>5 DEF s

-----------------------------------------------------------------------------
(* What a step does to a worker.                                           *)

\* Only w moves.
Stepped(w) ==
  /\ worker' \in [Workers -> WorkerRecords]
  /\ \A v \in Workers \ {w} : worker'[v] = worker[v]

\* It stays with its packet and its account.
Stays(w) ==
  /\ Stepped(w) /\ worker'[w].pc # "idle"
  /\ worker'[w].raw = worker[w].raw /\ worker'[w].account = worker[w].account
  /\ worker'[w].targets = worker[w].targets /\ worker'[w].todo = worker[w].todo

\* The parts of a worker's record.
LEMMA WorkerFields ==
  ASSUME WorkersTyped, NEW w \in Workers
  PROVE  /\ worker[w] \in WorkerRecords /\ WorkerFine(worker[w])
         /\ worker[w].pc \in WorkerPcs /\ worker[w].raw \in Items /\ worker[w].raw.packet \in Packets
         /\ worker[w].targets \in SUBSET Senders /\ worker[w].todo \in SUBSET Senders
         /\ worker[w].account \in Senders \cup {NoAccount} /\ worker[w].retries \in 0..MaxRetries
         /\ worker[w].failure \in {"none", "permanent", "suspended", "transient", "unknown"}
         /\ worker[w].pc \notin {"idle", "pick"} => Handled(w) \in Deliveries /\ worker[w].account \in Senders
<1>1. worker[w] \in WorkerRecords /\ WorkerFine(worker[w])
  BY DEF WorkersTyped
<1>2. worker[w].raw \in Items /\ worker[w].raw.packet \in Packets
  BY <1>1 DEF WorkerRecords, Items
<1>3. /\ worker[w].pc \in WorkerPcs
      /\ worker[w].targets \in SUBSET Senders /\ worker[w].todo \in SUBSET Senders
      /\ worker[w].account \in Senders \cup {NoAccount} /\ worker[w].retries \in 0..MaxRetries
      /\ worker[w].failure \in {"none", "permanent", "suspended", "transient", "unknown"}
  BY <1>1 DEF WorkerRecords
<1>4. worker[w].pc \notin {"idle", "pick"} => worker[w].account \in Senders
  BY <1>1, <1>3 DEF WorkerFine
<1> QED BY <1>1, <1>2, <1>3, <1>4 DEF Handled, Deliveries

\* A worker that goes on keeps all but its place.
LEMMA GotoMoves ==
  ASSUME WorkersTyped, NEW w \in Workers, NEW pc \in WorkerPcs \ {"idle"}, Goto(w, pc)
  PROVE  /\ Stays(w) /\ worker'[w].pc = pc
         /\ worker'[w].failure = worker[w].failure /\ worker'[w].retries = worker[w].retries
<1> DEFINE r == [worker[w] EXCEPT !.pc = pc]
<1>1. worker[w] \in WorkerRecords
  BY WorkerFields
<1>2. r \in WorkerRecords
  BY <1>1 DEF WorkerRecords
<1>3. /\ r.pc = pc /\ r.raw = worker[w].raw /\ r.account = worker[w].account /\ r.targets = worker[w].targets
      /\ r.todo = worker[w].todo /\ r.failure = worker[w].failure /\ r.retries = worker[w].retries
  BY <1>1 DEF WorkerRecords
<1>4. worker' = [worker EXCEPT ![w] = r]
  BY DEF Goto
<1> HIDE DEF r
<1> QED BY <1>2, <1>3, <1>4 DEF Stays, Stepped, WorkersTyped

\* A worker whose attempt fails keeps its packet and account.
LEMMA FailsMoves ==
  ASSUME WorkersTyped, NEW w \in Workers, NEW kind \in {"permanent", "suspended", "transient", "unknown"},
         Fails(w, kind)
  PROVE  Stays(w) /\ worker'[w].pc = "count failure" /\ worker'[w].failure = kind
<1> DEFINE r == [worker[w] EXCEPT !.pc = "count failure", !.failure = kind]
<1>1. worker[w] \in WorkerRecords
  BY WorkerFields
<1>2. r \in WorkerRecords
  BY <1>1 DEF WorkerRecords, WorkerPcs
<1>3. /\ r.pc = "count failure" /\ r.failure = kind /\ r.raw = worker[w].raw /\ r.account = worker[w].account
      /\ r.targets = worker[w].targets /\ r.todo = worker[w].todo
  BY <1>1 DEF WorkerRecords
<1>4. worker' = [worker EXCEPT ![w] = r]
  BY DEF Fails
<1> HIDE DEF r
<1> QED BY <1>2, <1>3, <1>4 DEF Stays, Stepped, WorkersTyped

\* It is done with its account.
Leaves(w) ==
  /\ Stepped(w)
  /\ worker'[w].pc = "pick" /\ worker'[w].account = NoAccount
  /\ worker'[w].raw = worker[w].raw /\ worker'[w].targets = worker[w].targets
  /\ worker'[w].todo = worker[w].todo \ {worker[w].account}

\* A worker that goes on to the next account has left this one.
LEMMA NextMoves ==
  ASSUME WorkersTyped, NEW w \in Workers, NextAccount(w)
  PROVE  Leaves(w)
<1> DEFINE r == [worker[w] EXCEPT !.pc = "pick", !.todo = @ \ {worker[w].account}, !.account = NoAccount,
                                  !.failure = "none", !.retries = 0]
<1>1. worker[w] \in WorkerRecords /\ 0 \in 0..MaxRetries
  BY WorkerFields, LegacyAssumption DEF LegacyAssumption
<1>2. r \in WorkerRecords
  BY <1>1 DEF WorkerRecords, WorkerPcs
<1>3. /\ r.pc = "pick" /\ r.raw = worker[w].raw /\ r.account = NoAccount
      /\ r.targets = worker[w].targets /\ r.todo = worker[w].todo \ {worker[w].account}
  BY <1>1 DEF WorkerRecords
<1>4. worker' = [worker EXCEPT ![w] = r]
  BY DEF NextAccount
<1> HIDE DEF r
<1> QED BY <1>2, <1>3, <1>4 DEF Leaves, Stepped, WorkersTyped

\* A worker without a packet.
LEMMA FreeFields ==
  /\ Free \in WorkerRecords /\ WorkerFine(Free)
  /\ Free.pc = "idle" /\ Free.todo = {} /\ Free.account = NoAccount
<1>1. NoItem \in Items /\ 0 \in 0..MaxRetries
  BY LegacyAssumption DEF LegacyAssumption, NoItem, Items
<1> HIDE DEF NoItem
<1> QED BY <1>1 DEF Free, WorkerRecords, WorkerPcs, WorkerFine

\* A worker that is done, or has died, has nothing.
LEMMA FreeMoves ==
  ASSUME WorkersTyped, NEW w \in Workers, worker' = [worker EXCEPT ![w] = Free]
  PROVE  Stepped(w) /\ worker'[w] = Free
  BY FreeFields DEF WorkersTyped, Stepped

\* The step keeps the types if the worker that moved is fine.
LEMMA SteppedTyped ==
  ASSUME WorkersTyped, NEW w \in Workers, Stepped(w), WorkerFine(worker'[w])
  PROVE  WorkersTyped'
<1>1. \A v \in Workers : WorkerFine(worker'[v])
  BY DEF Stepped, WorkersTyped
<1>2. \A v \in Workers : WorkerFine(worker[v])' <=> WorkerFine(worker'[v])
  BY DEF WorkerFine
<1> QED BY <1>1, <1>2 DEF Stepped, WorkersTyped

\* A worker that stays with its account keeps the types ...
LEMMA StaysTyped ==
  ASSUME WorkersTyped, NEW w \in Workers, Stays(w), worker[w].pc \notin {"idle", "pick"}
  PROVE  WorkersTyped'
  BY SteppedTyped, WorkerFields DEF Stays, WorkerFine

\* ... and so does one that leaves it ...
LEMMA LeavesTyped ==
  ASSUME WorkersTyped, NEW w \in Workers, Leaves(w)
  PROVE  WorkersTyped'
  BY SteppedTyped, WorkerFields DEF Leaves, WorkerFine

\* ... and one that is free.
LEMMA FreeTyped ==
  ASSUME WorkersTyped, NEW w \in Workers, worker' = [worker EXCEPT ![w] = Free]
  PROVE  WorkersTyped'
  BY SteppedTyped, FreeMoves, FreeFields

-----------------------------------------------------------------------------
(* The types.                                                              *)

\* The types of the induction are those of the model.
LEMMA LegacyTypes == LegacyTyped => LegacyTypeOK
  BY DEF LegacyTyped, LegacyTypeOK, WorkersTyped, WorkerRecords, WorkerFine, RowsTyped, RowRecords, ListsTyped, CountsTyped

\* They hold at the start.
LEMMA LegacyInitTyped == LegacyInit => LegacyTyped
<1> SUFFICES ASSUME LegacyInit PROVE LegacyTyped
  OBVIOUS
<1>1. WorkersTyped
  BY FreeFields DEF LegacyInit, WorkersTyped
<1>2. RowsTyped
  BY DEF LegacyInit, RowsTyped
<1>3. ListsTyped
  BY DEF LegacyInit, ListsTyped, Quiet
<1>4. CountsTyped
  BY DEF LegacyInit, CountsTyped
<1> QED BY <1>1, <1>2, <1>3, <1>4 DEF LegacyTyped

\* The poller, the operator, the accounts and the clock.
LEMMA PollerTyped ==
  ASSUME LegacyTyped, NEW q \in Pollers, Poll(q) \/ PollerDies(q)
  PROVE  LegacyTyped'
<1> USE DEF LegacyTyped
<1>1. WorkersTyped' /\ RowsTyped'
  BY DEF Poll, PollRead, PollRemove, PollPush, PollerDies, WorkersTyped, RowsTyped, WorkerFine
<1>2. CountsTyped'
  BY DEF Poll, PollRead, PollRemove, PollPush, PollerDies, accountVars, worldVars, spentVars, CountsTyped
<1>3. ListsTyped'
  <2> USE DEF ListsTyped
  <2>q. poller[q].read \in SUBSET Items /\ poller[q].pushed \in SUBSET Items
    OBVIOUS
  <2>1. CASE PollRead(q)
    <3>1. [poller[q] EXCEPT !.read = due] \in [read : SUBSET Items, pushed : SUBSET Items]
      OBVIOUS
    <3> QED BY <2>1, <3>1 DEF PollRead, queueVars
  <2>2. CASE PollRemove(q)
    <3>1. [read |-> poller[q].read \ poller[q].pushed, pushed |-> {}] \in [read : SUBSET Items, pushed : SUBSET Items]
      BY <2>q
    <3>2. poller' \in [Pollers -> [read : SUBSET Items, pushed : SUBSET Items]]
      BY <2>2, <3>1 DEF PollRemove
    <3> QED BY <2>2, <2>q, <3>2 DEF PollRemove
  <2>3. ASSUME NEW i \in Items, PollPush(q, i) PROVE ListsTyped'
    <3>1. [poller[q] EXCEPT !.pushed = {i}] \in [read : SUBSET Items, pushed : SUBSET Items]
      BY <2>q
    <3>2. poller' \in [Pollers -> [read : SUBSET Items, pushed : SUBSET Items]]
      BY <2>3, <3>1 DEF PollPush
    <3>3. queue' \in [Items -> Nat]
      BY <2>3 DEF PollPush
    <3> QED BY <2>3, <3>2, <3>3 DEF PollPush
  <2>4. CASE PollerDies(q)
    BY <2>4 DEF PollerDies, Quiet, queueVars
  <2> QED BY <2>1, <2>2, <2>3, <2>4 DEF Poll
<1> QED BY <1>1, <1>2, <1>3

\* The end of a delay, the operator, the accounts and the clock keep the types.
LEMMA OutsideTyped ==
  ASSUME LegacyTyped,
         \/ \E i \in Items : DelayEnds(i)
         \/ \E pa \in Deliveries : ManualRetry(pa)
         \/ \E a \in Senders : SetBlocked(a) \/ IntervalEnds(a)
         \/ NewDay
  PROVE  LegacyTyped'
<1> USE DEF LegacyTyped
<1>1. WorkersTyped'
  BY DEF DelayEnds, ManualRetry, SetBlocked, IntervalEnds, NewDay, WorkersTyped, WorkerFine
<1>2. RowsTyped'
  <2>1. ASSUME NEW pa \in Deliveries, ManualRetry(pa) PROVE RowsTyped'
    BY <2>1, MarkedRows DEF ManualRetry, Retryable
  <2> QED BY <2>1 DEF DelayEnds, SetBlocked, IntervalEnds, NewDay, RowsTyped
<1>3. ListsTyped'
  <2>1. ASSUME NEW pa \in Deliveries, ManualRetry(pa) PROVE ListsTyped'
    <3>1. [packet |-> pa[1], accounts |-> {pa[2]}] \in Items
      BY DEF Deliveries, Items
    <3> QED BY <2>1, <3>1 DEF ManualRetry, PushDelayed, ListsTyped
  <2> QED BY <2>1 DEF DelayEnds, SetBlocked, IntervalEnds, NewDay, ListsTyped, queueVars
<1>4. CountsTyped'
  <2>1. CASE NewDay
    BY <2>1 DEF NewDay, CountsTyped, spentVars
  <2>2. ASSUME NEW pa \in Deliveries, ManualRetry(pa) PROVE CountsTyped'
    BY <2>2 DEF ManualRetry, CountsTyped, accountVars, worldVars
  <2> QED BY <2>1, <2>2 DEF DelayEnds, SetBlocked, IntervalEnds, CountsTyped, accountVars, worldVars, spentVars
<1> QED BY <1>1, <1>2, <1>3, <1>4

\* A worker takes a packet, or looks an account up.
LEMMA TakeMoves ==
  ASSUME LegacyTyped, NEW w \in Workers, NEW i \in Items, Receive(w, i)
  PROVE  /\ Stepped(w) /\ WorkersTyped'
         /\ worker'[w].pc = "pick" /\ worker'[w].raw = i
         /\ worker'[w].targets = i.accounts /\ worker'[w].todo = i.accounts
<1> DEFINE r == [Free EXCEPT !.pc = "pick", !.raw = i, !.targets = i.accounts, !.todo = i.accounts]
<1>1. r \in WorkerRecords
  BY FreeFields DEF WorkerRecords, WorkerPcs, Items
<1>2. r.pc = "pick" /\ r.raw = i /\ r.targets = i.accounts /\ r.todo = i.accounts
  BY FreeFields DEF WorkerRecords
<1>3. worker' = [worker EXCEPT ![w] = r]
  BY DEF Receive
<1> HIDE DEF r
<1>4. Stepped(w) /\ worker'[w] = r
  BY <1>1, <1>3 DEF LegacyTyped, WorkersTyped, Stepped
<1> QED BY <1>2, <1>4, SteppedTyped DEF LegacyTyped, WorkerFine

\* An account the worker turns to, or leaves because it has a published row.
LEMMA LookupMoves ==
  ASSUME LegacyTyped, NEW w \in Workers, NEW a \in Senders, Lookup(w, a)
  PROVE  /\ Stepped(w) /\ WorkersTyped'
         /\ worker'[w].raw = worker[w].raw /\ worker'[w].targets = worker[w].targets
         /\ \/ /\ IsPublished(<<worker[w].raw.packet, a>>)
               /\ worker'[w].pc = "pick" /\ worker'[w].todo = worker[w].todo \ {a}
            \/ /\ ~IsPublished(<<worker[w].raw.packet, a>>)
               /\ worker'[w].pc = "guard" /\ worker'[w].todo = worker[w].todo /\ worker'[w].account = a
<1>0. worker[w] \in WorkerRecords /\ WorkerFine(worker[w]) /\ worker[w].pc = "pick" /\ a \in worker[w].todo
  BY WorkerFields DEF LegacyTyped, Lookup, WorkerAt
<1>1. CASE IsPublished(<<worker[w].raw.packet, a>>)
  <2> DEFINE r == [worker[w] EXCEPT !.todo = worker[w].todo \ {a}]
  <2>1. r \in WorkerRecords
    BY <1>0 DEF WorkerRecords
  <2>2. r.pc = "pick" /\ r.raw = worker[w].raw /\ r.targets = worker[w].targets /\ r.todo = worker[w].todo \ {a}
    BY <1>0 DEF WorkerRecords
  <2>3. worker' = [worker EXCEPT ![w] = r]
    BY <1>1 DEF Lookup
  <2> HIDE DEF r
  <2>4. Stepped(w) /\ worker'[w] = r
    BY <2>1, <2>3 DEF LegacyTyped, WorkersTyped, Stepped
  <2> QED BY <1>0, <1>1, <2>2, <2>4, SteppedTyped DEF LegacyTyped, WorkerFine
<1>2. CASE ~IsPublished(<<worker[w].raw.packet, a>>)
  <2> DEFINE r == [worker[w] EXCEPT !.account = a, !.pc = "guard"]
  <2>1. r \in WorkerRecords
    BY <1>0 DEF WorkerRecords, WorkerPcs
  <2>2. r.pc = "guard" /\ r.raw = worker[w].raw /\ r.targets = worker[w].targets /\ r.todo = worker[w].todo /\ r.account = a
    BY <1>0 DEF WorkerRecords
  <2>3. worker' = [worker EXCEPT ![w] = r]
    BY <1>2 DEF Lookup
  <2> HIDE DEF r
  <2>4. Stepped(w) /\ worker'[w] = r
    BY <2>1, <2>3 DEF LegacyTyped, WorkersTyped, Stepped
  <2> QED BY <1>0, <1>2, <2>2, <2>4, SteppedTyped DEF LegacyTyped, WorkerFine
<1> QED BY <1>1, <1>2

\* The packet a worker would put back.
LEMMA ItemIn ==
  ASSUME WorkersTyped, NEW w \in Workers
  PROVE  Item(w) \in Items /\ Item(w).packet = worker[w].raw.packet /\ Item(w).accounts = worker[w].targets
  BY WorkerFields DEF Item, Items

\* A suspension: the account is left, and another one may be added.
LEMMA AlertMoves ==
  ASSUME LegacyTyped, NEW w \in Workers, Alert(w)
  PROVE  /\ Stepped(w) /\ WorkersTyped'
         /\ worker'[w].pc = "pick" /\ worker'[w].account = NoAccount /\ worker'[w].raw = worker[w].raw
         /\ worker[w].todo \ {worker[w].account} \subseteq worker'[w].todo
<1>0. /\ worker[w] \in WorkerRecords /\ WorkerFine(worker[w]) /\ worker[w].pc = "alert"
      /\ worker[w].targets \in SUBSET Senders /\ worker[w].todo \in SUBSET Senders
  BY WorkerFields DEF LegacyTyped, Alert, WorkerAt
<1>1. PICK more \in SUBSET Senders :
        worker' = [worker EXCEPT ![w] =
          [worker[w] EXCEPT !.pc = "pick", !.account = NoAccount, !.failure = "none", !.retries = 0,
                            !.targets = worker[w].targets \cup more,
                            !.todo = (worker[w].todo \cup more) \ {worker[w].account}]]
  BY DEF Alert
<1> DEFINE r == [worker[w] EXCEPT !.pc = "pick", !.account = NoAccount, !.failure = "none", !.retries = 0,
                                  !.targets = worker[w].targets \cup more,
                                  !.todo = (worker[w].todo \cup more) \ {worker[w].account}]
<1>2. r \in WorkerRecords
  <2>1. 0 \in 0..MaxRetries
    BY LegacyAssumption DEF LegacyAssumption
  <2> QED BY <1>0, <2>1 DEF WorkerRecords, WorkerPcs
<1>3. /\ r.pc = "pick" /\ r.account = NoAccount /\ r.raw = worker[w].raw
      /\ r.targets = worker[w].targets \cup more /\ r.todo = (worker[w].todo \cup more) \ {worker[w].account}
  BY <1>0 DEF WorkerRecords
<1>4. worker' = [worker EXCEPT ![w] = r]
  BY <1>1
<1> HIDE DEF r
<1>5. Stepped(w) /\ worker'[w] = r
  BY <1>2, <1>4 DEF LegacyTyped, WorkersTyped, Stepped
<1>6. WorkerFine(r)
  BY <1>0, <1>3 DEF WorkerFine
<1> QED BY <1>3, <1>5, <1>6, SteppedTyped DEF LegacyTyped

\* The steps of an attempt: where the worker goes.
LEMMA AttemptMoves ==
  ASSUME LegacyTyped, NEW w \in Workers
  PROVE  /\ Guard(w) => /\ worker[w].pc = "guard" /\ Stays(w)
                        /\ worker'[w].pc \in {"turn away", "postpone", "requeue", "post"}
                        /\ worker'[w].pc = "post" => ~AtLimit(worker[w].account)
         /\ TurnAway(w) => worker[w].pc = "turn away" /\ Leaves(w)
         /\ Postpone(w) => worker[w].pc = "postpone" /\ Stays(w) /\ worker'[w].pc = "requeue"
         /\ Requeue(w) => worker[w].pc = "requeue" /\ Leaves(w)
         /\ SkipPosted(w) => worker[w].pc = "post" /\ Leaves(w)
         /\ PostSucceeds(w) => worker[w].pc = "post" /\ Stays(w) /\ worker'[w].pc = "insert"
         /\ SendFails(w) => worker[w].pc = "post" /\ Stays(w) /\ worker'[w].pc = "count failure"
         /\ PostUnanswered(w) => worker[w].pc = "post" /\ Stays(w) /\ worker'[w].pc = "count failure"
<1> USE DEF LegacyTyped
<1>1. ASSUME Guard(w)
      PROVE  /\ worker[w].pc = "guard" /\ Stays(w)
             /\ worker'[w].pc \in {"turn away", "postpone", "requeue", "post"}
             /\ worker'[w].pc = "post" => ~AtLimit(worker[w].account)
  <2>1. PICK pc \in {"turn away", "postpone", "requeue", "post"} :
               Goto(w, pc) /\ (pc = "post" => ~AtLimit(worker[w].account))
    <3> DEFINE a == worker[w].account
    <3>1. CASE a \in blocked
      BY <1>1, <3>1 DEF Guard
    <3>2. CASE a \notin blocked /\ AtLimit(a)
      BY <1>1, <3>2 DEF Guard
    <3>3. CASE a \notin blocked /\ ~AtLimit(a) /\ a \in recent
      BY <1>1, <3>3 DEF Guard
    <3>4. CASE a \notin blocked /\ ~AtLimit(a) /\ a \notin recent
      BY <1>1, <3>4 DEF Guard
    <3> QED BY <3>1, <3>2, <3>3, <3>4
  <2> QED BY <1>1, <2>1, GotoMoves DEF Guard, WorkerAt, WorkerPcs
<1>2. TurnAway(w) => worker[w].pc = "turn away" /\ Leaves(w)
  BY NextMoves DEF TurnAway, WorkerAt
<1>3. Postpone(w) => worker[w].pc = "postpone" /\ Stays(w) /\ worker'[w].pc = "requeue"
  BY GotoMoves DEF Postpone, WorkerAt, WorkerPcs
<1>4. (Requeue(w) => worker[w].pc = "requeue" /\ Leaves(w)) /\ (SkipPosted(w) => worker[w].pc = "post" /\ Leaves(w))
  BY NextMoves DEF Requeue, SkipPosted, WorkerAt
<1>5. PostSucceeds(w) => worker[w].pc = "post" /\ Stays(w) /\ worker'[w].pc = "insert"
  BY GotoMoves DEF PostSucceeds, WorkerAt, WorkerPcs
<1>6. SendFails(w) => worker[w].pc = "post" /\ Stays(w) /\ worker'[w].pc = "count failure"
  BY FailsMoves DEF SendFails, WorkerAt
<1>7. PostUnanswered(w) => worker[w].pc = "post" /\ Stays(w) /\ worker'[w].pc = "count failure"
  BY FailsMoves DEF PostUnanswered, WorkerAt
<1> QED BY <1>1, <1>2, <1>3, <1>4, <1>5, <1>6, <1>7

\* Where a worker goes that has dealt with a failure.
LEMMA FailureMoves ==
  ASSUME LegacyTyped, NEW w \in Workers, AfterFailure(w)
  PROVE  \/ worker[w].failure = "suspended" /\ Final(w) /\ Stays(w) /\ worker'[w].pc = "alert"
         \/ Final(w) /\ Leaves(w)
         \/ ~Final(w) /\ Stays(w) /\ worker'[w].pc = "requeue"
<1> USE DEF LegacyTyped
<1>1. CASE worker[w].failure = "suspended"
  <2>1. Goto(w, "alert")
    BY <1>1 DEF AfterFailure
  <2> QED BY <1>1, <2>1, GotoMoves DEF Final, WorkerPcs
<1>2. CASE worker[w].failure # "suspended" /\ Final(w)
  <2>1. NextAccount(w)
    BY <1>2 DEF AfterFailure
  <2> QED BY <1>2, <2>1, NextMoves
<1>3. CASE worker[w].failure # "suspended" /\ ~Final(w)
  <2>1. Goto(w, "requeue")
    BY <1>3 DEF AfterFailure
  <2> QED BY <1>3, <2>1, GotoMoves DEF WorkerPcs
<1> QED BY <1>1, <1>2, <1>3

\* A worker that has counted a failure goes on to log it.
LEMMA LogMoves ==
  ASSUME LegacyTyped, NEW w \in Workers, NEW n \in 0..MaxRetries,
         worker' = [worker EXCEPT ![w].pc = "log failure", ![w].retries = n]
  PROVE  Stays(w) /\ worker'[w].pc = "log failure" /\ worker'[w].retries = n
<1> USE DEF LegacyTyped
<1>1. worker[w] \in WorkerRecords
  BY WorkerFields
<1> DEFINE r == [worker[w] EXCEPT !.pc = "log failure", !.retries = n]
<1>2. r \in WorkerRecords
  BY <1>1 DEF WorkerRecords, WorkerPcs
<1>3. /\ r.pc = "log failure" /\ r.retries = n /\ r.raw = worker[w].raw /\ r.account = worker[w].account
      /\ r.targets = worker[w].targets /\ r.todo = worker[w].todo
  BY <1>1 DEF WorkerRecords
<1>4. worker' = [worker EXCEPT ![w] = r]
  BY <1>1 DEF WorkersTyped
<1> HIDE DEF r
<1>5. Stays(w) /\ worker'[w] = r
  BY <1>2, <1>3, <1>4 DEF Stays, Stepped, WorkersTyped
<1> QED BY <1>3, <1>5

\* The steps after an attempt.
LEMMA ConcludeMoves ==
  ASSUME LegacyTyped, NEW w \in Workers
  PROVE  /\ InsertPublished(w) => worker[w].pc = "insert" /\ Stays(w) /\ worker'[w].pc = "activity"
         /\ UpdateActivity(w) => worker[w].pc = "activity" /\ Stays(w) /\ worker'[w].pc = "count success"
         /\ Count(w) =>
              \/ worker[w].pc = "count success" /\ Leaves(w)
              \/ /\ worker[w].pc = "count failure" /\ Stays(w) /\ worker'[w].pc = "log failure"
                 /\ worker'[w].retries = RetryCount(Handled(w))
         /\ LogFailure(w) =>
              /\ worker[w].pc = "log failure"
              /\ \/ worker[w].failure = "suspended" /\ Final(w) /\ Stays(w) /\ worker'[w].pc = "alert"
                 \/ Final(w) /\ Leaves(w)
                 \/ ~Final(w) /\ Stays(w) /\ worker'[w].pc = "requeue"
<1> USE DEF LegacyTyped
<1>1. InsertPublished(w) => worker[w].pc = "insert" /\ Stays(w) /\ worker'[w].pc = "activity"
  BY GotoMoves DEF InsertPublished, WorkerAt, WorkerPcs
<1>2. UpdateActivity(w) => worker[w].pc = "activity" /\ Stays(w) /\ worker'[w].pc = "count success"
  BY GotoMoves DEF UpdateActivity, WorkerAt, WorkerPcs
<1>3. ASSUME Count(w)
      PROVE  \/ worker[w].pc = "count success" /\ Leaves(w)
             \/ /\ worker[w].pc = "count failure" /\ Stays(w) /\ worker'[w].pc = "log failure"
                /\ worker'[w].retries = RetryCount(Handled(w))
  <2>1. CASE WorkerAt(w, "count success") /\ NextAccount(w)
    BY <2>1, NextMoves DEF WorkerAt
  <2>2. CASE /\ WorkerAt(w, "count failure")
             /\ worker' = [worker EXCEPT ![w].pc = "log failure", ![w].retries = RetryCount(Handled(w))]
    <3>1. worker[w].pc = "count failure" /\ RetryCount(Handled(w)) \in 0..MaxRetries
      BY <2>2, WorkerFields, RetryCountIn DEF WorkerAt
    <3> QED BY <2>2, <3>1, LogMoves
  <2> QED BY <1>3, <2>1, <2>2 DEF Count
<1>4. ASSUME LogFailure(w)
      PROVE  /\ worker[w].pc = "log failure"
             /\ \/ worker[w].failure = "suspended" /\ Final(w) /\ Stays(w) /\ worker'[w].pc = "alert"
                \/ Final(w) /\ Leaves(w)
                \/ ~Final(w) /\ Stays(w) /\ worker'[w].pc = "requeue"
  BY <1>4, FailureMoves DEF LogFailure, WorkerAt
<1> QED BY <1>1, <1>2, <1>3, <1>4

\* The look for a published row throws: the worker is left with an account of those to do.
LEMMA LookupThrowsMoves ==
  ASSUME LegacyTyped, NEW w \in Workers, NEW a \in Senders, LookupThrows(w, a)
  PROVE  /\ Stepped(w) /\ WorkersTyped' /\ worker[w].pc = "pick" /\ worker'[w].pc = "count failure"
         /\ worker'[w].raw = worker[w].raw
<1>0. worker[w] \in WorkerRecords /\ WorkerFine(worker[w]) /\ worker[w].pc = "pick" /\ a \in worker[w].todo
  BY WorkerFields DEF LegacyTyped, LookupThrows, WorkerAt
<1> DEFINE r == [worker[w] EXCEPT !.account = a, !.pc = "count failure", !.failure = "unknown"]
<1>1. r \in WorkerRecords
  BY <1>0 DEF WorkerRecords, WorkerPcs
<1>2. /\ r.pc = "count failure" /\ r.raw = worker[w].raw /\ r.targets = worker[w].targets
      /\ r.todo = worker[w].todo /\ r.account = a
  BY <1>0 DEF WorkerRecords
<1>3. worker' = [worker EXCEPT ![w] = r]
  BY DEF LookupThrows
<1> HIDE DEF r
<1>4. Stepped(w) /\ worker'[w] = r
  BY <1>1, <1>3 DEF LegacyTyped, WorkersTyped, Stepped
<1> QED BY <1>0, <1>2, <1>4, SteppedTyped DEF LegacyTyped, WorkerFine

\* A statement that throws.
LEMMA ThrowMoves ==
  ASSUME LegacyTyped, NEW w \in Workers, StatementThrows(w)
  PROVE  \/ /\ worker[w].pc \in {"guard", "post", "alert", "activity", "requeue"}
            /\ Stays(w) /\ worker'[w].pc = "count failure"
         \/ worker[w].pc \in {"insert", "requeue"} /\ Stepped(w) /\ worker'[w] = Free
<1> USE DEF LegacyTyped
<1>1. CASE worker[w].pc \in {"guard", "post", "alert", "activity"} /\ Unexpected(w)
  BY <1>1, FailsMoves DEF Unexpected
<1>2. CASE worker[w].pc \in {"insert", "requeue"} /\ worker' = [worker EXCEPT ![w] = Free]
  BY <1>2, FreeMoves
<1>3. CASE worker[w].pc = "requeue" /\ Unexpected(w)
  BY <1>3, FailsMoves DEF Unexpected
<1> QED BY <1>1, <1>2, <1>3 DEF StatementThrows, WorkerAt

\* An error that is caught at once.
LEMMA SwallowMoves ==
  ASSUME LegacyTyped, NEW w \in Workers, ErrorSwallowed(w)
  PROVE  \/ worker[w].pc \in {"turn away", "count success", "log failure"} /\ Leaves(w)
         \/ /\ worker[w].pc \in {"postpone", "log failure", "count failure"} /\ Stays(w)
            /\ worker'[w].pc \in {"requeue", "alert", "log failure"}
<1> USE DEF LegacyTyped
<1>1. CASE worker[w].pc \in {"turn away", "count success"} /\ NextAccount(w)
  BY <1>1, NextMoves
<1>2. CASE worker[w].pc = "postpone" /\ Goto(w, "requeue")
  BY <1>2, GotoMoves DEF WorkerPcs
<1>3. CASE worker[w].pc = "log failure" /\ AfterFailure(w)
  BY <1>3, FailureMoves
<1>4. ASSUME worker[w].pc = "count failure", NEW n \in {0, RetryCount(Handled(w))},
             worker' = [worker EXCEPT ![w].pc = "log failure", ![w].retries = n]
      PROVE  Stays(w) /\ worker'[w].pc = "log failure"
  <2>1. n \in 0..MaxRetries
    <3>1. RetryCount(Handled(w)) \in 0..MaxRetries
      BY <1>4, WorkerFields, RetryCountIn
    <3>2. 0 \in 0..MaxRetries
      BY LegacyAssumption DEF LegacyAssumption
    <3> QED BY <3>1, <3>2
  <2> QED BY <1>4, <2>1, LogMoves
<1> QED BY <1>1, <1>2, <1>3, <1>4 DEF ErrorSwallowed, WorkerAt

\* A failing statement, or a death.
LEMMA FaultMoves ==
  ASSUME LegacyTyped, NEW w \in Workers, DbError(w) \/ Crash(w)
  PROVE  \/ worker[w].pc \notin {"idle", "pick", "insert"} /\ Leaves(w)
         \/ /\ worker[w].pc \notin {"idle", "pick", "insert"} /\ Stays(w)
            /\ worker'[w].pc \in {"count failure", "log failure", "requeue", "alert"}
         \/ worker[w].pc # "idle" /\ Stepped(w) /\ worker'[w] = Free
         \/ /\ Stepped(w) /\ WorkersTyped' /\ worker[w].pc = "pick" /\ worker'[w].pc = "count failure"
            /\ worker'[w].raw = worker[w].raw
<1> USE DEF LegacyTyped
<1>1. CASE Crash(w)
  BY <1>1, FreeMoves DEF Crash, WorkerAt
<1>2. CASE StatementThrows(w)
  BY <1>2, ThrowMoves
<1>3. CASE ErrorSwallowed(w)
  BY <1>3, SwallowMoves
<1>4. ASSUME NEW a \in Senders, LookupThrows(w, a)
      PROVE  /\ Stepped(w) /\ WorkersTyped' /\ worker[w].pc = "pick" /\ worker'[w].pc = "count failure"
             /\ worker'[w].raw = worker[w].raw
  BY <1>4, LookupThrowsMoves
<1> QED BY <1>1, <1>2, <1>3, <1>4 DEF DbError

\* What else a failing statement changes.
LEMMA FaultChanges ==
  ASSUME LegacyTyped, NEW w \in Workers, DbError(w)
  PROVE  /\ UNCHANGED <<poller, pubRows, blocked, recent, published, today, sent, turnedAway, shared, lost, manual, crashes>>
         /\ dbErrors' = dbErrors + 1
         /\ unlogged' = IF worker[w].pc = "insert" THEN unlogged + 1 ELSE unlogged
         /\ UNCHANGED <<delayed, due, moved, swept>>
         /\ queue' \in {queue, [queue EXCEPT ![worker[w].raw] = @ + 1]}
         /\ count' \in {count, [count EXCEPT ![worker[w].account] = @ + 1]}
         /\ \/ attempts' = attempts
            \/ \E pa \in Deliveries : attempts' = [attempts EXCEPT ![pa] = @ + 1]
<1> USE DEF LegacyTyped
<1>0. /\ UNCHANGED <<poller, pubRows, blocked, recent, published, today, sent, turnedAway, shared, lost, manual, crashes>>
      /\ dbErrors' = dbErrors + 1
  BY DEF DbError
<1>1. CASE StatementThrows(w)
  <2>1. Handled(w) \in Deliveries
    BY <1>1, ThrowMoves, WorkerFields
  <2> QED BY <1>0, <1>1, <2>1 DEF StatementThrows, Unexpected, WorkerAt, queueVars
<1>2. CASE ErrorSwallowed(w)
  <2>1. worker[w].pc # "insert"
    BY <1>2, SwallowMoves
  <2>2. count' \in {count, [count EXCEPT ![worker[w].account] = @ + 1]}
    BY <1>2 DEF ErrorSwallowed
  <2> QED BY <1>0, <1>2, <2>1, <2>2 DEF ErrorSwallowed, queueVars
<1>3. ASSUME NEW a \in Senders, LookupThrows(w, a)
      PROVE  /\ UNCHANGED <<queueVars, unlogged, count>> /\ worker[w].pc # "insert"
             /\ \E pa \in Deliveries : attempts' = [attempts EXCEPT ![pa] = @ + 1]
  <2>1. <<worker[w].raw.packet, a>> \in Deliveries
    BY WorkerFields DEF Deliveries
  <2> QED BY <1>3, <2>1 DEF LookupThrows, WorkerAt
<1> QED BY <1>0, <1>1, <1>2, <1>3 DEF DbError, queueVars

\* The steps of a worker keep the types.
LEMMA WorkersKept ==
  ASSUME LegacyTyped, NEW w \in Workers, WorkerStep(w) \/ DbError(w) \/ Crash(w)
  PROVE  WorkersTyped'
<1> USE DEF LegacyTyped
<1>0. WorkersTyped
  OBVIOUS
<1>1. CASE \E i \in Items : Receive(w, i)
  BY <1>1, TakeMoves
<1>2. CASE PacketDone(w) \/ DbError(w) \/ Crash(w)
  <2>1. CASE PacketDone(w)
    BY <1>0, <2>1, FreeTyped DEF PacketDone
  <2>2. CASE DbError(w) \/ Crash(w)
    BY <1>0, <2>2, FaultMoves, FreeFields, StaysTyped, LeavesTyped, SteppedTyped
  <2> QED BY <1>2, <2>1, <2>2
<1>3. CASE \E a \in Senders : Lookup(w, a)
  BY <1>3, LookupMoves
<1>4. CASE Attempt(w)
  BY <1>0, <1>4, AttemptMoves, StaysTyped, LeavesTyped DEF Attempt
<1>5. CASE Conclude(w)
  BY <1>0, <1>5, ConcludeMoves, AlertMoves, StaysTyped, LeavesTyped DEF Conclude
<1> QED BY <1>1, <1>2, <1>3, <1>4, <1>5 DEF WorkerStep

\* The rows a worker logs.
LEMMA LogFailureRows ==
  ASSUME LegacyTyped, NEW w \in Workers, LogFailure(w)
  PROVE  IF Final(w)
         THEN LogAttempt(Handled(w), "permanently_failed", 0)
         ELSE /\ LogAttempt(Handled(w), "retrying", worker[w].retries + 1)
              /\ worker[w].retries + 1 \in 0..MaxRetries
<1>1. worker[w].retries \in 0..MaxRetries /\ MaxRetries \in Nat
  BY WorkerFields, LegacyAssumption DEF LegacyTyped, LegacyAssumption
<1>2. IF Final(w)
      THEN LogAttempt(Handled(w), "permanently_failed", 0)
      ELSE LogAttempt(Handled(w), "retrying", worker[w].retries + 1)
  BY DEF LogFailure
<1>3. ~Final(w) => worker[w].retries < MaxRetries
  BY <1>1 DEF Final
<1>4. ~Final(w) => worker[w].retries + 1 \in 0..MaxRetries
  BY <1>1, <1>3
<1> QED BY <1>2, <1>4

\* A worker's step keeps the types of the rows ...
LEMMA LegacyRowsKept ==
  ASSUME LegacyTyped, NEW w \in Workers, WorkerStep(w) \/ DbError(w) \/ Crash(w)
  PROVE  RowsTyped'
<1> USE DEF LegacyTyped
<1>0. RowsTyped /\ 0 \in 0..MaxRetries /\ {"failed", "retrying", "permanently_failed"} \subseteq RowStatus
  BY LegacyAssumption DEF LegacyAssumption, RowStatus
<1>1. CASE UNCHANGED pubRows
  BY <1>1 DEF RowsTyped
<1>2. CASE TurnAway(w) \/ Postpone(w)
  <2>1. Handled(w) \in Deliveries /\ LogAttempt(Handled(w), "failed", 0)
    BY <1>2, WorkerFields DEF TurnAway, Postpone, WorkerAt
  <2> QED BY <1>0, <2>1, LoggedRows
<1>3. CASE LogFailure(w)
  <2>1. Handled(w) \in Deliveries
    BY <1>3, WorkerFields DEF LogFailure, WorkerAt
  <2> QED BY <1>0, <1>3, <2>1, LogFailureRows, LoggedRows
<1>4. CASE InsertPublished(w)
  <2>1. Handled(w) \in Deliveries
    BY <1>4, WorkerFields DEF InsertPublished, WorkerAt
  <2> QED BY <1>1, <1>4, <2>1, AppendedRows DEF InsertPublished
<1>5. \/ UNCHANGED pubRows \/ TurnAway(w) \/ Postpone(w) \/ LogFailure(w) \/ InsertPublished(w)
  BY DEF WorkerStep, Receive, PacketDone, Lookup, Attempt, Guard, Requeue, SkipPosted, PostSucceeds, SendFails,
    PostUnanswered, Conclude, UpdateActivity, Count, Alert, DbError, Crash
<1> QED BY <1>1, <1>2, <1>3, <1>4, <1>5

\* ... of the lists ...
LEMMA ListsKept ==
  ASSUME LegacyTyped, NEW w \in Workers, WorkerStep(w) \/ DbError(w) \/ Crash(w)
  PROVE  ListsTyped'
<1> USE DEF LegacyTyped
<1>1. CASE UNCHANGED <<queueVars, poller>>
  BY <1>1 DEF ListsTyped, queueVars
<1>2. ASSUME NEW i \in Items, Receive(w, i) PROVE ListsTyped'
  <2>1. queue' \in [Items -> Nat]
    BY <1>2 DEF Receive, ListsTyped
  <2> QED BY <1>2, <2>1 DEF Receive, ListsTyped
<1>3. CASE Requeue(w)
  BY <1>3, ItemIn DEF Requeue, PushDelayed, ListsTyped
<1>4. CASE DbError(w)
  <2>1. UNCHANGED <<delayed, due, moved, swept, poller>> /\ queue' \in {queue, [queue EXCEPT ![worker[w].raw] = @ + 1]}
    BY <1>4, FaultChanges
  <2>2. queue' \in [Items -> Nat]
    BY <2>1, WorkerFields DEF ListsTyped
  <2> QED BY <2>1, <2>2 DEF ListsTyped
<1>6. \/ UNCHANGED <<queueVars, poller>> \/ (\E i \in Items : Receive(w, i)) \/ Requeue(w) \/ DbError(w)
  BY DEF WorkerStep, PacketDone, Lookup, Attempt, Guard, TurnAway, Postpone, SkipPosted, PostSucceeds, SendFails,
    PostUnanswered, Conclude, InsertPublished, UpdateActivity, Count, LogFailure, Alert, Crash
<1> QED BY <1>1, <1>2, <1>3, <1>4, <1>6

\* ... and of the counts.
LEMMA LegacyCountsKept ==
  ASSUME LegacyTyped, NEW w \in Workers, WorkerStep(w) \/ DbError(w) \/ Crash(w)
  PROVE  CountsTyped'
<1> USE DEF LegacyTyped
<1>0. /\ worker[w].raw.packet \in Packets
      /\ worker[w].pc \notin {"idle", "pick"} => Handled(w) \in Deliveries /\ worker[w].account \in Senders
      /\ Handled(w)[2] = worker[w].account
  BY WorkerFields DEF Handled
<1>1. CASE \/ \E i \in Items : Receive(w, i)
           \/ PacketDone(w) \/ \E a \in Senders : Lookup(w, a)
           \/ Guard(w) \/ Requeue(w) \/ SkipPosted(w)
  <2>1. ASSUME NEW i \in Items, Receive(w, i) PROVE CountsTyped'
    <3>1. i.packet \in Packets
      BY DEF Items
    <3> QED BY <2>1, <3>1 DEF Receive, CountsTyped, accountVars, spentVars
  <2> QED BY <1>1, <2>1 DEF PacketDone, Lookup, Guard, Requeue, SkipPosted, CountsTyped, accountVars, worldVars, spentVars
<1>2. CASE TurnAway(w) \/ Postpone(w)
  <2>1. Handled(w) \in Deliveries /\ attempts' = [attempts EXCEPT ![Handled(w)] = 0]
    BY <1>0, <1>2 DEF TurnAway, Postpone, WorkerAt
  <2>2. turnedAway' \subseteq Deliveries /\ UNCHANGED <<accountVars, worldVars, spentVars>>
    BY <1>2, <2>1 DEF TurnAway, Postpone, CountsTyped
  <2>3. attempts' \in [Deliveries -> Nat]
    BY <2>1 DEF CountsTyped
  <2> QED BY <2>2, <2>3 DEF CountsTyped, accountVars, worldVars, spentVars
<1>3. CASE PostSucceeds(w) \/ SendFails(w) \/ PostUnanswered(w)
  <2>1. Handled(w) \in Deliveries /\ Handled(w)[2] \in Senders
    BY <1>0, <1>3 DEF PostSucceeds, SendFails, PostUnanswered, WorkerAt
  <2>2. CASE PostSucceeds(w)
    BY <2>1, <2>2 DEF PostSucceeds, PostGoesOut, CountsTyped, accountVars, spentVars
  <2>3. CASE SendFails(w)
    BY <2>1, <2>3 DEF SendFails, CountsTyped, accountVars, worldVars, spentVars
  <2>4. CASE PostUnanswered(w)
    BY <2>1, <2>4 DEF PostUnanswered, PostGoesOut, CountsTyped, accountVars
  <2> QED BY <1>3, <2>2, <2>3, <2>4
<1>4. CASE InsertPublished(w) \/ UpdateActivity(w) \/ Count(w) \/ Alert(w)
  <2>1. Handled(w) \in Deliveries /\ Handled(w)[2] \in Senders /\ worker[w].account \in Senders
    BY <1>0, <1>4 DEF InsertPublished, UpdateActivity, Count, Alert, WorkerAt
  <2>2. CASE InsertPublished(w)
    <3>1. /\ published' \in {published, [published EXCEPT ![Handled(w)[2]] = @ + 1]}
          /\ unlogged' \in {unlogged, unlogged + 1}
          /\ UNCHANGED <<blocked, recent, count, today, sent, shared, attempts, turnedAway, spentVars>>
      BY <2>2 DEF InsertPublished
    <3> QED BY <2>1, <3>1 DEF CountsTyped, spentVars
  <2>3. CASE UpdateActivity(w)
    BY <2>1, <2>3 DEF UpdateActivity, CountsTyped, worldVars, spentVars
  <2>4. CASE Count(w)
    <3>1. /\ count' = [count EXCEPT ![worker[w].account] = @ + 1]
          /\ UNCHANGED <<blocked, recent, published, worldVars, attempts, turnedAway, spentVars>>
      BY <2>4 DEF Count
    <3> QED BY <2>1, <3>1 DEF CountsTyped, worldVars, spentVars
  <2>5. CASE Alert(w)
    BY <2>1, <2>5 DEF Alert, CountsTyped, worldVars, spentVars
  <2> QED BY <1>4, <2>2, <2>3, <2>4, <2>5
<1>5. CASE LogFailure(w)
  <2>1. Handled(w) \in Deliveries
    BY <1>0, <1>5 DEF LogFailure, WorkerAt
  <2>2. /\ attempts' \in {attempts, [attempts EXCEPT ![Handled(w)] = 0]}
        /\ UNCHANGED <<accountVars, worldVars, turnedAway, spentVars>>
    BY <1>5 DEF LogFailure
  <2>3. attempts' \in [Deliveries -> Nat]
    BY <2>1, <2>2 DEF CountsTyped
  <2> QED BY <2>2, <2>3 DEF CountsTyped, accountVars, worldVars, spentVars
<1>6. CASE DbError(w) \/ Crash(w)
  <2>1. CASE Crash(w)
    BY <2>1 DEF Crash, CountsTyped, accountVars
  <2>2. CASE DbError(w)
    <3>1. attempts' \in [Deliveries -> Nat]
      BY <2>2, FaultChanges DEF CountsTyped
    <3>2. count' \in [Senders -> Nat]
      <4>1. count' = count \/ count' = [count EXCEPT ![worker[w].account] = @ + 1]
        BY <2>2, FaultChanges
      <4> QED BY <4>1 DEF CountsTyped
    <3>3. unlogged' \in Nat
      BY <2>2, FaultChanges DEF CountsTyped
    <3> QED BY <2>2, <3>1, <3>2, <3>3, FaultChanges DEF CountsTyped
  <2> QED BY <1>6, <2>1, <2>2
<1> QED BY <1>1, <1>2, <1>3, <1>4, <1>5, <1>6 DEF WorkerStep, Attempt, Conclude

\* Every step keeps the types.
LEMMA LegacyStepTyped == LegacyTyped /\ [LegacyNext]_legacyVars => LegacyTyped'
<1> SUFFICES ASSUME LegacyTyped, [LegacyNext]_legacyVars PROVE LegacyTyped'
  OBVIOUS
<1>1. CASE UNCHANGED legacyVars
  BY <1>1 DEF legacyVars, queueVars, accountVars, worldVars, spentVars, LegacyTyped, WorkersTyped, WorkerFine, RowsTyped,
    ListsTyped, CountsTyped
<1>2. ASSUME NEW w \in Workers, WorkerStep(w) \/ DbError(w) \/ Crash(w) PROVE LegacyTyped'
  BY <1>2, WorkersKept, LegacyRowsKept, ListsKept, LegacyCountsKept DEF LegacyTyped
<1>3. ASSUME NEW q \in Pollers, Poll(q) \/ PollerDies(q) PROVE LegacyTyped'
  BY <1>3, PollerTyped
<1> QED BY <1>1, <1>2, <1>3, OutsideTyped DEF LegacyNext, Environment

\* The types hold for good.
LEMMA LegacyTypedKept == LegacySpec => []LegacyTyped
  BY LegacyInitTyped, LegacyStepTyped, PTL DEF LegacySpec

-----------------------------------------------------------------------------
(* How far the limit can be overrun.                                       *)

\* Sets of workers that differ in one of them.
LEMMA OneMoves ==
  ASSUME NEW S \in SUBSET Workers, NEW T \in SUBSET Workers, NEW w \in Workers, S \ {w} = T \ {w}
  PROVE  /\ Cardinality(S) \in Nat /\ Cardinality(T) \in Nat /\ Cardinality(Workers) \in Nat
         /\ Cardinality(T) <= Cardinality(Workers)
         /\ Cardinality(S) + (IF w \in T THEN 1 ELSE 0) = Cardinality(T) + (IF w \in S THEN 1 ELSE 0)
<1>1. IsFiniteSet(Workers)
  BY LegacyAssumption DEF LegacyAssumption
<1>2. /\ IsFiniteSet(S) /\ IsFiniteSet(T) /\ Cardinality(S) \in Nat /\ Cardinality(T) \in Nat
      /\ Cardinality(Workers) \in Nat /\ Cardinality(T) <= Cardinality(Workers)
  BY <1>1, FS_Subset, FS_CardinalityType
<1>3. Cardinality(S \ {w}) = (IF w \in S THEN Cardinality(S) - 1 ELSE Cardinality(S))
  BY <1>2, FS_RemoveElement
<1>4. Cardinality(T \ {w}) = (IF w \in T THEN Cardinality(T) - 1 ELSE Cardinality(T))
  BY <1>2, FS_RemoveElement
<1> QED BY <1>2, <1>3, <1>4

\* Whether a worker has passed the limit of a and not recorded its post, and whether it has posted.
Past(r, a) == IF r.account = a /\ r.pc \in {"post", "insert"} THEN 1 ELSE 0
Owes(r, a) == IF r.account = a /\ r.pc = "insert" THEN 1 ELSE 0

LimitCounted == PublishedBounded /\ TodayCounted

\* A step of a worker: whoever passes the limit is below it, and a post is owed, recorded or unlogged.
LEMMA WorkerCounts ==
  ASSUME LegacyTyped, LegacyTyped', LimitCounted, NEW w \in Workers, Stepped(w),
         \A a \in Senders :
           \/ published'[a] + Past(worker'[w], a) <= published[a] + Past(worker[w], a)
           \/ published'[a] = published[a] /\ published[a] < WarmupLimit,
         \A a \in Senders :
           today'[a] + (published[a] + Owes(worker[w], a) + unlogged)
             <= today[a] + (published'[a] + Owes(worker'[w], a) + unlogged')
  PROVE  LimitCounted'
<1> SUFFICES ASSUME NEW a \in Senders
             PROVE  /\ published'[a] + Cardinality(Window(a)') <= WarmupLimit + Cardinality(Workers) - 1
                    /\ today'[a] <= published'[a] + Cardinality(Unwritten(a)') + unlogged'
  BY DEF LimitCounted, PublishedBounded, TodayCounted
<1>1. /\ published[a] \in Nat /\ published'[a] \in Nat /\ today[a] \in Nat /\ today'[a] \in Nat
      /\ unlogged \in Nat /\ unlogged' \in Nat /\ WarmupLimit \in Nat
  BY LegacyAssumption DEF LegacyAssumption, LegacyTyped, CountsTyped
<1>2. /\ Window(a) \in SUBSET Workers /\ Window(a)' \in SUBSET Workers
      /\ Unwritten(a) \in SUBSET Workers /\ Unwritten(a)' \in SUBSET Workers
      /\ Window(a) \ {w} = Window(a)' \ {w} /\ Unwritten(a) \ {w} = Unwritten(a)' \ {w}
  BY DEF Window, Unwritten, Stepped, WorkerAt
<1>3. /\ Past(worker[w], a) = (IF w \in Window(a) THEN 1 ELSE 0)
      /\ Past(worker'[w], a) = (IF w \in Window(a)' THEN 1 ELSE 0)
      /\ Owes(worker[w], a) = (IF w \in Unwritten(a) THEN 1 ELSE 0)
      /\ Owes(worker'[w], a) = (IF w \in Unwritten(a)' THEN 1 ELSE 0)
  BY DEF Past, Owes, Window, Unwritten, WorkerAt
<1>4. /\ Past(worker[w], a) \in 0..1 /\ Past(worker'[w], a) \in 0..1
      /\ Owes(worker[w], a) \in 0..1 /\ Owes(worker'[w], a) \in 0..1
  BY DEF Past, Owes
<1>5. /\ Cardinality(Window(a)) \in Nat /\ Cardinality(Window(a)') \in Nat /\ Cardinality(Workers) \in Nat
      /\ Cardinality(Window(a)') <= Cardinality(Workers)
      /\ Cardinality(Window(a)) + Past(worker'[w], a) = Cardinality(Window(a)') + Past(worker[w], a)
  BY <1>2, <1>3, OneMoves
<1>6. /\ Cardinality(Unwritten(a)) \in Nat /\ Cardinality(Unwritten(a)') \in Nat
      /\ Cardinality(Unwritten(a)) + Owes(worker'[w], a) = Cardinality(Unwritten(a)') + Owes(worker[w], a)
  BY <1>2, <1>3, OneMoves
<1>7. /\ published[a] + Cardinality(Window(a)) <= WarmupLimit + Cardinality(Workers) - 1
      /\ today[a] <= published[a] + Cardinality(Unwritten(a)) + unlogged
  BY DEF LimitCounted, PublishedBounded, TodayCounted
<1>8. published'[a] + Cardinality(Window(a)') <= WarmupLimit + Cardinality(Workers) - 1
  <2>1. \/ published'[a] + Past(worker'[w], a) <= published[a] + Past(worker[w], a)
        \/ published'[a] = published[a] /\ published[a] < WarmupLimit
    OBVIOUS
  <2> QED BY <1>1, <1>4, <1>5, <1>7, <2>1
<1>9. today'[a] <= published'[a] + Cardinality(Unwritten(a)') + unlogged'
  <2>1. today'[a] + (published[a] + Owes(worker[w], a) + unlogged)
             <= today[a] + (published'[a] + Owes(worker'[w], a) + unlogged')
    OBVIOUS
  <2> QED BY <1>1, <1>4, <1>6, <1>7, <2>1
<1> QED BY <1>8, <1>9

\* A step of a worker that has no part in it.
LEMMA QuietCounts ==
  ASSUME LegacyTyped, LegacyTyped', LimitCounted, NEW w \in Workers, Stepped(w),
         UNCHANGED <<published, today, unlogged>>, worker[w].pc # "insert",
         \/ worker'[w].pc \notin {"post", "insert"}
         \/ worker'[w].pc = "post" /\ worker'[w].account \in Senders /\ published[worker'[w].account] < WarmupLimit
  PROVE  LimitCounted'
<1>1. \A a \in Senders : published[a] \in Nat /\ today[a] \in Nat /\ unlogged \in Nat
  BY DEF LegacyTyped, CountsTyped
<1>2. \A a \in Senders : /\ Past(worker[w], a) \in 0..1 /\ Owes(worker[w], a) = 0 /\ Owes(worker'[w], a) = 0
                         /\ Past(worker'[w], a) = 0 \/ published[a] < WarmupLimit
  BY DEF Past, Owes
<1>3. \A a \in Senders :
           \/ published'[a] + Past(worker'[w], a) <= published[a] + Past(worker[w], a)
           \/ published'[a] = published[a] /\ published[a] < WarmupLimit
  BY <1>1, <1>2
<1>4. \A a \in Senders :
           today'[a] + (published[a] + Owes(worker[w], a) + unlogged)
             <= today[a] + (published'[a] + Owes(worker'[w], a) + unlogged')
  BY <1>1, <1>2
<1> QED BY <1>3, <1>4, WorkerCounts

\* A post that is recorded later.
LEMMA PostCounts ==
  ASSUME LegacyTyped, LegacyTyped', LimitCounted, NEW w \in Workers,
         PostSucceeds(w) \/ PostUnanswered(w)
  PROVE  LimitCounted'
<1> DEFINE x == worker[w].account
<1>1. /\ x \in Senders /\ Handled(w)[2] = x /\ worker[w].pc = "post" /\ Stays(w) /\ published' = published
      /\ \/ worker'[w].pc = "insert" /\ unlogged' = unlogged
         \/ worker'[w].pc = "count failure" /\ unlogged' = unlogged + 1
      /\ today' = [today EXCEPT ![x] = @ + 1]
  <2>1. worker[w].pc = "post" /\ Stays(w)
    BY AttemptMoves
  <2>2. x \in Senders
    BY <2>1, WorkerFields DEF LegacyTyped
  <2>3. CASE PostSucceeds(w)
    BY <2>1, <2>2, <2>3, AttemptMoves DEF PostSucceeds, PostGoesOut, accountVars, Handled
  <2>4. CASE PostUnanswered(w)
    BY <2>1, <2>2, <2>4, AttemptMoves DEF PostUnanswered, PostGoesOut, accountVars, Handled
  <2> QED BY <2>3, <2>4
<1>2. \A a \in Senders : published[a] \in Nat /\ today[a] \in Nat /\ unlogged \in Nat
  BY DEF LegacyTyped, CountsTyped
<1>3. \A a \in Senders : today'[a] = IF a = x THEN today[a] + 1 ELSE today[a]
  BY <1>1 DEF LegacyTyped, CountsTyped
<1>4. \A a \in Senders :
        /\ Past(worker[w], a) \in 0..1 /\ Past(worker'[w], a) \in 0..1 /\ Past(worker'[w], a) <= Past(worker[w], a)
        /\ Owes(worker[w], a) = 0
        /\ Owes(worker'[w], a) = (IF a = x /\ worker'[w].pc = "insert" THEN 1 ELSE 0)
  <2> TAKE a \in Senders
  <2>1. worker'[w].account = x /\ worker[w].account = x /\ worker[w].pc = "post"
    BY <1>1 DEF Stays
  <2>2. CASE a = x
    BY <2>1, <2>2 DEF Past, Owes
  <2>3. CASE a # x
    BY <2>1, <2>3 DEF Past, Owes
  <2> QED BY <2>2, <2>3
<1>5. \A a \in Senders :
           \/ published'[a] + Past(worker'[w], a) <= published[a] + Past(worker[w], a)
           \/ published'[a] = published[a] /\ published[a] < WarmupLimit
  <2> TAKE a \in Senders
  <2>1. Past(worker[w], a) \in Nat /\ Past(worker'[w], a) \in Nat /\ Past(worker'[w], a) <= Past(worker[w], a)
    BY <1>4
  <2>2. published'[a] = published[a] /\ published[a] \in Nat
    BY <1>1, <1>2
  <2> QED BY <2>1, <2>2
<1>6. \A a \in Senders :
           today'[a] + (published[a] + Owes(worker[w], a) + unlogged)
             <= today[a] + (published'[a] + Owes(worker'[w], a) + unlogged')
  <2> TAKE a \in Senders
  <2>1. published'[a] = published[a] /\ published[a] \in Nat /\ today[a] \in Nat /\ unlogged \in Nat
    BY <1>1, <1>2
  <2>2. CASE worker'[w].pc = "insert"
    BY <1>1, <1>3, <1>4, <2>1, <2>2
  <2>3. CASE worker'[w].pc # "insert"
    <3>1. unlogged' = unlogged + 1 /\ Owes(worker[w], a) = 0 /\ Owes(worker'[w], a) = 0
      BY <1>1, <1>4, <2>3
    <3>2. today'[a] <= today[a] + 1 /\ today'[a] \in Nat
      BY <1>3, <2>1
    <3> QED BY <2>1, <3>1, <3>2
  <2> QED BY <2>2, <2>3
<1> QED BY <1>1, <1>5, <1>6, WorkerCounts DEF Stays

\* A post that is recorded, or will not be.
LEMMA EndCounts ==
  ASSUME LegacyTyped, LegacyTyped', LimitCounted, NEW w \in Workers, worker[w].pc = "insert", Stepped(w),
         worker'[w].pc \notin {"post", "insert"}, today' = today,
         \/ unlogged' = unlogged + 1 /\ published' = published
         \/ unlogged' = unlogged /\ published' = [published EXCEPT ![worker[w].account] = @ + 1]
  PROVE  LimitCounted'
<1> DEFINE x == worker[w].account
<1>1. x \in Senders
  BY WorkerFields DEF LegacyTyped
<1>2. \A a \in Senders : published[a] \in Nat /\ today[a] \in Nat /\ unlogged \in Nat
  BY DEF LegacyTyped, CountsTyped
<1>3. \/ unlogged' = unlogged + 1 /\ \A a \in Senders : published'[a] = published[a]
      \/ unlogged' = unlogged /\ \A a \in Senders : published'[a] = IF a = x THEN published[a] + 1 ELSE published[a]
  BY <1>1 DEF LegacyTyped, CountsTyped
<1>4. \A a \in Senders :
        /\ Past(worker[w], a) = (IF a = x THEN 1 ELSE 0) /\ Past(worker'[w], a) = 0
        /\ Owes(worker[w], a) = (IF a = x THEN 1 ELSE 0) /\ Owes(worker'[w], a) = 0
  BY DEF Past, Owes
<1> HIDE DEF x
<1>5. \A a \in Senders :
           \/ published'[a] + Past(worker'[w], a) <= published[a] + Past(worker[w], a)
           \/ published'[a] = published[a] /\ published[a] < WarmupLimit
  BY <1>2, <1>3, <1>4
<1>6. \A a \in Senders :
           today'[a] + (published[a] + Owes(worker[w], a) + unlogged)
             <= today[a] + (published'[a] + Owes(worker'[w], a) + unlogged')
  BY <1>2, <1>3, <1>4
<1> QED BY <1>5, <1>6, WorkerCounts

\* A step of a worker keeps both bounds.
LEMMA WorkerStepCounts ==
  ASSUME LegacyTyped, LegacyTyped', LimitCounted, NEW w \in Workers, WorkerStep(w) \/ DbError(w) \/ Crash(w)
  PROVE  LimitCounted'
<1>0. WorkersTyped /\ WorkersTyped'
  BY DEF LegacyTyped
<1>1. ASSUME NEW i \in Items, Receive(w, i) PROVE LimitCounted'
  <2>1. Stepped(w) /\ worker'[w].pc = "pick" /\ worker[w].pc = "idle" /\ UNCHANGED <<published, today, unlogged>>
    BY <1>1, TakeMoves DEF Receive, WorkerAt, accountVars
  <2> QED BY <2>1, QuietCounts
<1>2. CASE PacketDone(w)
  <2>1. Stepped(w) /\ worker'[w].pc = "idle" /\ worker[w].pc = "pick" /\ UNCHANGED <<published, today, unlogged>>
    BY <1>0, <1>2, FreeMoves, FreeFields DEF PacketDone, WorkerAt, accountVars, worldVars
  <2> QED BY <2>1, QuietCounts
<1>3. ASSUME NEW a \in Senders, Lookup(w, a) PROVE LimitCounted'
  <2>1. Stepped(w) /\ worker'[w].pc \in {"pick", "guard"} /\ worker[w].pc = "pick"
    BY <1>3, LookupMoves DEF Lookup, WorkerAt
  <2>2. UNCHANGED <<published, today, unlogged>>
    BY <1>3 DEF Lookup, accountVars, worldVars
  <2> QED BY <2>1, <2>2, QuietCounts
<1>4. CASE Guard(w)
  <2>1. /\ Stays(w) /\ worker[w].pc = "guard" /\ worker[w].account \in Senders
        /\ worker'[w].pc \in {"turn away", "postpone", "requeue", "post"}
        /\ worker'[w].pc = "post" => ~AtLimit(worker[w].account)
    BY <1>0, <1>4, AttemptMoves, WorkerFields
  <2>2. UNCHANGED <<published, today, unlogged>>
    BY <1>4 DEF Guard, accountVars, worldVars
  <2>3. worker'[w].pc = "post" => published[worker[w].account] < WarmupLimit
    BY <2>1, LegacyAssumption DEF AtLimit, LegacyAssumption, LegacyTyped, CountsTyped
  <2> QED BY <2>1, <2>2, <2>3, QuietCounts DEF Stays
<1>5. CASE TurnAway(w) \/ Postpone(w) \/ Requeue(w) \/ SkipPosted(w) \/ SendFails(w)
  <2>1. Stepped(w) /\ worker[w].pc # "insert" /\ worker'[w].pc \notin {"post", "insert"}
    BY <1>5, AttemptMoves DEF Stays, Leaves
  <2>2. UNCHANGED <<published, today, unlogged>>
    BY <1>5 DEF TurnAway, Postpone, Requeue, SkipPosted, SendFails, accountVars, worldVars
  <2> QED BY <2>1, <2>2, QuietCounts
<1>6. CASE PostSucceeds(w) \/ PostUnanswered(w)
  BY <1>6, PostCounts
<1>7. CASE InsertPublished(w)
  <2>1. worker[w].pc = "insert" /\ Stepped(w) /\ worker'[w].pc \notin {"post", "insert"}
    BY <1>7, ConcludeMoves DEF Stays
  <2>2. /\ today' = today
        /\ \/ unlogged' = unlogged + 1 /\ published' = published
           \/ unlogged' = unlogged /\ published' = [published EXCEPT ![worker[w].account] = @ + 1]
    BY <1>7 DEF InsertPublished, Handled
  <2> QED BY <2>1, <2>2, EndCounts
<1>8. CASE UpdateActivity(w) \/ Count(w) \/ LogFailure(w) \/ Alert(w)
  <2>1. Stepped(w) /\ worker'[w].pc \notin {"post", "insert"}
    BY <1>8, ConcludeMoves, AlertMoves DEF Stays, Leaves
  <2>2. worker[w].pc # "insert" /\ UNCHANGED <<published, today, unlogged>>
    BY <1>8 DEF UpdateActivity, Count, LogFailure, Alert, WorkerAt, accountVars, worldVars
  <2> QED BY <2>1, <2>2, QuietCounts
<1>9. CASE DbError(w) \/ Crash(w)
  <2>1. Stepped(w) /\ worker'[w].pc \notin {"post", "insert"}
    BY <1>9, FaultMoves, FreeFields DEF Stays, Leaves
  <2>2. published' = published /\ today' = today /\ unlogged' = IF worker[w].pc = "insert" THEN unlogged + 1 ELSE unlogged
    BY <1>9, FaultChanges DEF Crash, WorkerAt, accountVars
  <2>3. CASE worker[w].pc = "insert"
    BY <2>1, <2>2, <2>3, EndCounts
  <2>4. CASE worker[w].pc # "insert"
    <3>1. UNCHANGED <<published, today, unlogged>>
      BY <2>2, <2>4
    <3> QED BY <2>1, <2>4, <3>1, QuietCounts
  <2> QED BY <2>3, <2>4
<1> QED BY <1>1, <1>2, <1>3, <1>4, <1>5, <1>6, <1>7, <1>8, <1>9 DEF WorkerStep, Attempt, Conclude

\* Whatever moves no worker keeps them, and so does a new day.
LEMMA OutsideCounts ==
  ASSUME LegacyTyped, LimitCounted,
         \/ UNCHANGED <<worker, published, today, unlogged>>
         \/ NewDay
  PROVE  LimitCounted'
<1>1. CASE UNCHANGED <<worker, published, today, unlogged>>
  BY <1>1 DEF LimitCounted, PublishedBounded, TodayCounted, Window, Unwritten, WorkerAt
<1>2. CASE NewDay
  <2> SUFFICES ASSUME NEW a \in Senders
               PROVE  /\ published'[a] + Cardinality(Window(a)') <= WarmupLimit + Cardinality(Workers) - 1
                      /\ today'[a] <= published'[a] + Cardinality(Unwritten(a)') + unlogged'
    BY DEF LimitCounted, PublishedBounded, TodayCounted
  <2>1. /\ published'[a] = 0 /\ today'[a] = 0 /\ unlogged' \in Nat /\ WarmupLimit \in Nat \ {0} /\ Workers # {}
    BY <1>2, LegacyAssumption DEF LegacyAssumption, NewDay, LegacyTyped, CountsTyped
  <2>2. PICK w \in Workers : TRUE
    BY <2>1
  <2>3. Window(a)' \in SUBSET Workers /\ Unwritten(a)' \in SUBSET Workers
    BY DEF Window, Unwritten
  <2>4. /\ Cardinality(Window(a)') \in Nat /\ Cardinality(Workers) \in Nat /\ Cardinality(Window(a)') <= Cardinality(Workers)
        /\ Cardinality(Unwritten(a)') \in Nat
    BY <2>2, <2>3, OneMoves
  <2> QED BY <2>1, <2>4
<1> QED BY <1>1, <1>2

\* They hold at the start.
LEMMA LimitInit == LegacyInit => LimitCounted
<1> SUFFICES ASSUME LegacyInit, NEW a \in Senders
             PROVE  /\ published[a] + Cardinality(Window(a)) <= WarmupLimit + Cardinality(Workers) - 1
                    /\ today[a] <= published[a] + Cardinality(Unwritten(a)) + unlogged
  BY DEF LimitCounted, PublishedBounded, TodayCounted
<1>1. Window(a) = {} /\ Unwritten(a) = {} /\ published[a] = 0 /\ today[a] = 0 /\ unlogged = 0
  BY FreeFields DEF LegacyInit, Window, Unwritten, WorkerAt
<1>2. Cardinality({}) = 0 /\ Cardinality(Workers) \in Nat
  BY LegacyAssumption, FS_EmptySet, FS_CardinalityType DEF LegacyAssumption
<1> QED BY <1>1, <1>2, LegacyAssumption DEF LegacyAssumption

\* The publications of a day exceed the warm-up limit by less than the calls of processPacket that run
\* at a time, and the posts exceed the publications by those that are not recorded yet or left no row.
THEOREM LegacyKept == LegacySpec => []LegacyInvariant
<1>1. ASSUME LegacyTyped, LegacyTyped', LimitCounted, [LegacyNext]_legacyVars PROVE LimitCounted'
  <2>1. ASSUME NEW w \in Workers, WorkerStep(w) \/ DbError(w) \/ Crash(w) PROVE LimitCounted'
    BY <1>1, <2>1, WorkerStepCounts
  <2>2. CASE UNCHANGED legacyVars
    BY <1>1, <2>2, OutsideCounts DEF legacyVars, accountVars, worldVars
  <2>3. CASE \/ \E q \in Pollers : Poll(q) \/ PollerDies(q)
             \/ \E i \in Items : DelayEnds(i)
             \/ \E pa \in Deliveries : ManualRetry(pa)
             \/ \E a \in Senders : SetBlocked(a) \/ IntervalEnds(a)
    <3>1. UNCHANGED <<worker, published, today, unlogged>>
      BY <2>3 DEF Poll, PollRead, PollRemove, PollPush, PollerDies, DelayEnds, ManualRetry, SetBlocked, IntervalEnds,
        accountVars, worldVars
    <3> QED BY <1>1, <3>1, OutsideCounts
  <2>4. CASE NewDay
    BY <1>1, <2>4, OutsideCounts
  <2> QED BY <1>1, <2>1, <2>2, <2>3, <2>4 DEF LegacyNext, Environment
<1>2. LegacyTyped /\ LimitCounted => LegacyInvariant
  BY LegacyTypes DEF LegacyInvariant, LimitCounted
<1> QED BY <1>1, <1>2, LegacyTypedKept, LimitInit, PTL DEF LegacySpec

-----------------------------------------------------------------------------
(* Posted once.                                                            *)

\* Where a worker may be that has yet to post, or to log a failure.
Trying == {"guard", "turn away", "postpone", "requeue", "post", "count failure", "log failure", "alert"}

\* One worker has a packet that is not shared.
HeldAlone ==
  \A v, w \in Workers :
    /\ worker[v].pc # "idle" /\ worker[w].pc # "idle"
    /\ worker[v].raw.packet = worker[w].raw.packet /\ worker[v].raw.packet \notin shared
    => v = w

\* The events that may repeat a post.
Faults == lost + dbErrors + crashes

\* Of the posts that no fault explains one has its row, or a worker that inserts it; and for whoever
\* tries the faults explain them all.
Once(pa) ==
  /\ sent[pa] <= Faults + 1
  /\ sent[pa] = Faults + 1 => IsPublished(pa) \/ \E w \in Workers : WorkerAt(w, "insert") /\ Handled(w) = pa
  /\ \A w \in Workers : worker[w].pc \in Trying /\ Handled(w) = pa => sent[pa] <= Faults

SentOnce == \A pa \in Deliveries : pa[1] \notin shared => Once(pa)

\* A worker that keeps its packet, or takes one nobody holds or that is shared, leaves the packets held alone.
LEMMA HeldAloneKept ==
  ASSUME LegacyTyped, HeldAlone, NEW w \in Workers, Stepped(w), shared \subseteq shared',
         \/ worker'[w].pc = "idle"
         \/ worker[w].pc # "idle" /\ worker'[w].raw = worker[w].raw
         \/ worker'[w].raw.packet \in shared'
         \/ \A v \in Workers : worker[v].pc = "idle" \/ worker[v].raw.packet # worker'[w].raw.packet
  PROVE  HeldAlone'
  BY DEF HeldAlone, Stepped

\* How a worker moves.
LEMMA StepMoves ==
  ASSUME LegacyTyped, NEW w \in Workers, WorkerStep(w)
  PROVE  /\ Stepped(w) /\ shared \subseteq shared'
         /\ \/ \E i \in Items : Receive(w, i)
            \/ \E a \in Senders : Lookup(w, a)
            \/ PacketDone(w) /\ worker[w].pc = "pick" /\ worker'[w] = Free
            \/ worker[w].pc \notin {"idle", "pick"} /\ Stays(w)
            \/ worker[w].pc \notin {"idle", "pick"} /\ Leaves(w)
            \/ Alert(w) /\ worker[w].pc = "alert"
<1>0. WorkersTyped
  BY DEF LegacyTyped
<1>1. CASE \E i \in Items : Receive(w, i)
  BY <1>1, TakeMoves DEF Receive
<1>2. CASE PacketDone(w)
  BY <1>0, <1>2, FreeMoves DEF PacketDone, WorkerAt, worldVars
<1>4. CASE \E a \in Senders : Lookup(w, a)
  BY <1>4, LookupMoves DEF Lookup, worldVars
<1>5. CASE Attempt(w)
  <2>1. shared' = shared
    BY <1>5 DEF Attempt, Guard, TurnAway, Postpone, Requeue, SkipPosted, PostSucceeds, SendFails, PostUnanswered, worldVars
  <2> QED BY <1>5, <2>1, AttemptMoves DEF Attempt, Stays, Leaves
<1>6. CASE InsertPublished(w) \/ UpdateActivity(w) \/ Count(w) \/ LogFailure(w)
  <2>1. shared' = shared
    BY <1>6 DEF InsertPublished, UpdateActivity, Count, LogFailure, worldVars
  <2> QED BY <1>6, <2>1, ConcludeMoves DEF Stays, Leaves
<1>7. CASE Alert(w)
  BY <1>7, AlertMoves DEF Alert, WorkerAt, worldVars
<1> QED BY <1>1, <1>2, <1>4, <1>5, <1>6, <1>7 DEF WorkerStep, Conclude

\* ... and what a fault makes of it.
LEMMA WorkerMoves ==
  ASSUME LegacyTyped, NEW w \in Workers, WorkerStep(w) \/ DbError(w) \/ Crash(w)
  PROVE  /\ Stepped(w) /\ shared \subseteq shared'
         /\ \/ \E i \in Items : Receive(w, i)
            \/ worker'[w].pc = "idle"
            \/ worker[w].pc # "idle" /\ worker'[w].raw = worker[w].raw
<1>1. CASE WorkerStep(w)
  BY <1>1, StepMoves, LookupMoves, AlertMoves, FreeFields DEF Stays, Leaves, Lookup, WorkerAt
<1>2. CASE DbError(w) \/ Crash(w)
  <2>1. shared' = shared
    BY <1>2, FaultChanges DEF Crash
  <2> QED BY <1>2, <2>1, FaultMoves, FreeFields DEF Stays, Leaves
<1> QED BY <1>1, <1>2

\* BRPOP of a packet somebody holds makes it shared.
LEMMA AloneStep ==
  ASSUME LegacyTyped, HeldAlone, NEW w \in Workers, WorkerStep(w) \/ DbError(w) \/ Crash(w)
  PROVE  HeldAlone'
<1>1. Stepped(w) /\ shared \subseteq shared'
  BY WorkerMoves
<1>2. ASSUME NEW i \in Items, Receive(w, i) PROVE HeldAlone'
  <2>1. worker'[w].raw = i
    BY <1>2, TakeMoves
  <2>2. CASE \E v \in Workers : worker[v].pc # "idle" /\ worker[v].raw.packet = i.packet
    <3>1. worker'[w].raw.packet \in shared'
      BY <1>2, <2>1, <2>2 DEF Receive, WorkerAt
    <3> QED BY <1>1, <3>1, HeldAloneKept
  <2>3. CASE ~\E v \in Workers : worker[v].pc # "idle" /\ worker[v].raw.packet = i.packet
    BY <1>1, <2>1, <2>3, HeldAloneKept
  <2> QED BY <2>2, <2>3
<1>3. CASE ~\E i \in Items : Receive(w, i)
  <2>1. worker'[w].pc = "idle" \/ (worker[w].pc # "idle" /\ worker'[w].raw = worker[w].raw)
    BY <1>3, WorkerMoves
  <2> QED BY <1>1, <2>1, HeldAloneKept
<1> QED BY <1>2, <1>3

\* A delivery nothing happens to, or that has its row in the end.
LEMMA OnceStays ==
  ASSUME NEW pa \in Deliveries, Once(pa), NEW w \in Workers, Stepped(w), sent'[pa] = sent[pa], Faults' = Faults,
         IsPublished(pa) => IsPublished(pa)',
         WorkerAt(w, "insert") /\ Handled(w) = pa => IsPublished(pa)',
         worker'[w].pc \in Trying /\ Handled(w)' = pa => sent[pa] <= Faults
  PROVE  Once(pa)'
<1>1. sent'[pa] <= Faults' + 1
  BY DEF Once
<1>2. ASSUME sent'[pa] = Faults' + 1
      PROVE  IsPublished(pa)' \/ \E v \in Workers : WorkerAt(v, "insert")' /\ Handled(v)' = pa
  <2>1. CASE IsPublished(pa)
    BY <2>1
  <2>2. ASSUME NEW v \in Workers, WorkerAt(v, "insert"), Handled(v) = pa
        PROVE  IsPublished(pa)' \/ \E u \in Workers : WorkerAt(u, "insert")' /\ Handled(u)' = pa
    BY <2>2 DEF Stepped, WorkerAt, Handled
  <2> QED BY <1>2, <2>1, <2>2 DEF Once
<1>3. ASSUME NEW v \in Workers, worker'[v].pc \in Trying, Handled(v)' = pa PROVE sent'[pa] <= Faults'
  BY <1>3 DEF Once, Stepped, Handled
<1> QED BY <1>1, <1>2, <1>3 DEF Once

\* A delivery whose posts the faults explain.
LEMMA OnceFaulted ==
  ASSUME NEW pa, sent'[pa] \in Nat, Faults' \in Nat, sent'[pa] <= Faults'
  PROVE  Once(pa)'
<1>1. sent'[pa] <= Faults' + 1 /\ sent'[pa] # Faults' + 1
  OBVIOUS
<1> QED BY <1>1 DEF Once

\* The rows of the deliveries a worker does not handle, and those of one that is published.
LEMMA RowsStay ==
  ASSUME LegacyTyped, NEW w \in Workers, WorkerStep(w) \/ DbError(w) \/ Crash(w)
  PROVE  /\ \/ pubRows' = pubRows
            \/ worker[w].pc \in {"turn away", "postpone", "log failure", "insert"} /\ OtherRows(Handled(w))
         /\ worker[w].pc = "insert" => \A pa \in Deliveries : IsPublished(pa) => IsPublished(pa)'
         /\ InsertPublished(w) => \A pa \in Deliveries : pa = Handled(w) => IsPublished(pa)'
<1>0. RowsTyped /\ WorkersTyped /\ 0 \in 0..MaxRetries /\ {"failed", "retrying", "permanently_failed"} \subseteq RowStatus
  BY LegacyAssumption DEF LegacyAssumption, RowStatus, LegacyTyped
<1>1. CASE UNCHANGED pubRows /\ ~InsertPublished(w)
  BY <1>1 DEF IsPublished
<1>2. CASE TurnAway(w) \/ Postpone(w)
  <2>1. Handled(w) \in Deliveries /\ LogAttempt(Handled(w), "failed", 0) /\ worker[w].pc \in {"turn away", "postpone"}
    BY <1>0, <1>2, WorkerFields DEF TurnAway, Postpone, WorkerAt
  <2> QED BY <1>0, <2>1, LoggedRows DEF InsertPublished, WorkerAt
<1>3. CASE LogFailure(w)
  <2>1. Handled(w) \in Deliveries /\ worker[w].pc = "log failure"
    BY <1>0, <1>3, WorkerFields DEF LogFailure, WorkerAt
  <2> QED BY <1>0, <1>3, <2>1, LogFailureRows, LoggedRows DEF InsertPublished, WorkerAt
<1>4. CASE InsertPublished(w)
  <2>1. Handled(w) \in Deliveries /\ worker[w].pc = "insert"
    BY <1>0, <1>4, WorkerFields DEF InsertPublished, WorkerAt
  <2>2. PICK pa \in Deliveries : pa = Handled(w)
    BY <2>1
  <2>3. CASE IsPublished(pa)
    <3>1. pubRows' = pubRows
      BY <1>4, <2>2, <2>3 DEF InsertPublished
    <3>2. \A pb \in Deliveries : IsPublished(pb)' = IsPublished(pb)
      BY <3>1 DEF IsPublished
    <3> QED BY <2>1, <2>2, <2>3, <3>1, <3>2
  <2>4. CASE ~IsPublished(pa)
    <3>1. pubRows' = [pubRows EXCEPT ![pa] = Append(@, [status |-> "published", retry |-> 0])]
      BY <1>4, <2>2, <2>4 DEF InsertPublished
    <3>2. OtherRows(pa) /\ IsPublished(pa)'
      BY <1>0, <3>1, AppendedRows
    <3>3. \A pb \in Deliveries : IsPublished(pb) => IsPublished(pb)'
      BY <3>2 DEF OtherRows, IsPublished
    <3>4. OtherRows(Handled(w))
      BY <2>2, <3>2
    <3> QED BY <2>1, <2>2, <3>2, <3>3, <3>4
  <2> QED BY <2>3, <2>4
<1>5. \/ UNCHANGED pubRows /\ ~InsertPublished(w)
      \/ TurnAway(w) \/ Postpone(w) \/ LogFailure(w) \/ InsertPublished(w)
  BY DEF WorkerStep, Receive, PacketDone, Lookup, Attempt, Guard, Requeue, SkipPosted, PostSucceeds, SendFails,
    PostUnanswered, Conclude, UpdateActivity, Count, Alert, DbError, Crash
<1> QED BY <1>1, <1>2, <1>3, <1>4, <1>5

\* A fault explains one post more.
LEMMA OnceFault ==
  ASSUME LegacyTyped, LegacyTyped', NEW pa \in Deliveries, Once(pa), sent'[pa] = sent[pa], Faults' = Faults + 1
  PROVE  Once(pa)'
<1>1. sent[pa] \in Nat /\ Faults \in Nat /\ sent[pa] <= Faults + 1
  BY DEF LegacyTyped, CountsTyped, Faults, Once
<1>2. sent'[pa] \in Nat /\ Faults' \in Nat /\ sent'[pa] <= Faults'
  BY <1>1
<1> QED BY <1>2, OnceFaulted

\* A worker that posts has yet to do so, and nobody else tries.
LEMMA OncePosts ==
  ASSUME LegacyTyped, LegacyTyped', HeldAlone, NEW w \in Workers, NEW pa \in Deliveries, pa[1] \notin shared, Once(pa),
         PostSucceeds(w) \/ PostUnanswered(w), Handled(w) = pa
  PROVE  Once(pa)'
<1>1. /\ worker[w].pc = "post" /\ Stays(w) /\ sent[pa] <= Faults /\ sent[pa] \in Nat /\ Faults \in Nat
      /\ sent'[pa] = sent[pa] + 1
  <2>1. worker[w].pc = "post" /\ Stays(w)
    BY AttemptMoves
  <2>2. sent[pa] <= Faults
    BY <2>1 DEF Once, Trying
  <2>3. sent' = [sent EXCEPT ![pa] = @ + 1]
    BY DEF PostSucceeds, PostUnanswered, PostGoesOut
  <2> QED BY <2>1, <2>2, <2>3 DEF LegacyTyped, CountsTyped, Faults
<1>2. CASE PostUnanswered(w)
  <2>1. Faults' = Faults + 1
    BY <1>2 DEF PostUnanswered, Faults, LegacyTyped, CountsTyped
  <2>2. sent'[pa] \in Nat /\ Faults' \in Nat /\ sent'[pa] <= Faults'
    BY <1>1, <2>1
  <2> QED BY <2>2, OnceFaulted
<1>3. CASE PostSucceeds(w)
  <2>0. worker'[w].pc = "insert" /\ Faults' = Faults
    BY <1>3, AttemptMoves DEF PostSucceeds, Faults, spentVars
  <2>1. sent'[pa] <= Faults' + 1
    BY <1>1, <2>0
  <2>2. WorkerAt(w, "insert")' /\ Handled(w)' = pa
    BY <1>1, <2>0 DEF Stays, Handled, WorkerAt
  <2>3. ASSUME NEW v \in Workers, worker'[v].pc \in Trying, Handled(v)' = pa PROVE FALSE
    <3>1. v # w
      BY <2>0, <2>3 DEF Trying
    <3>2. \A u \in Workers \ {w} : worker'[u] = worker[u]
      BY <1>1 DEF Stays, Stepped
    <3>0. worker'[v] = worker[v]
      BY <3>1, <3>2
    <3>7. Handled(v)' = <<worker'[v].raw.packet, worker'[v].account>>
      BY DEF Handled
    <3>8. worker'[v].raw.packet = pa[1]
      BY <2>3, <3>7
    <3>9. worker'[v].pc # "idle"
      BY <2>3 DEF Trying
    <3>6. worker'[v].pc # "idle" /\ worker'[v].raw.packet = pa[1]
      BY <3>8, <3>9
    <3>3. worker[v].pc # "idle" /\ worker[v].raw.packet = pa[1]
      BY <3>0, <3>6
    <3>4. worker[w].raw.packet = pa[1]
      BY DEF Handled
    <3>5. worker[w].pc # "idle"
      BY <1>1
    <3> QED BY <3>1, <3>3, <3>4, <3>5 DEF HeldAlone
  <2> QED BY <2>1, <2>2, <2>3 DEF Once
<1> QED BY <1>2, <1>3

\* Who begins to try has found no row, and nobody else has the packet.
LEMMA BeginsToTry ==
  ASSUME LegacyTyped, HeldAlone, NEW w \in Workers, WorkerStep(w), NEW pa \in Deliveries, pa[1] \notin shared, Once(pa),
         ~(worker[w].pc \in Trying /\ Handled(w) = pa), worker'[w].pc \in Trying, Handled(w)' = pa
  PROVE  sent[pa] <= Faults
<1>t. WorkersTyped
  BY DEF LegacyTyped
<1>1. ASSUME NEW a \in Senders, Lookup(w, a) PROVE sent[pa] <= Faults
  <2>1. worker[w].pc = "pick" /\ worker'[w].pc = "guard" /\ ~IsPublished(pa) /\ worker[w].raw.packet = pa[1]
    BY <1>1, LookupMoves DEF Lookup, WorkerAt, Handled, Trying
  <2>2. ~\E v \in Workers : WorkerAt(v, "insert") /\ Handled(v) = pa
    BY <2>1 DEF HeldAlone, WorkerAt, Handled
  <2>3. sent[pa] \in Nat /\ Faults \in Nat
    BY DEF LegacyTyped, CountsTyped, Faults
  <2> QED BY <2>1, <2>2, <2>3 DEF Once
<1>2. CASE Stays(w) /\ ~\E a \in Senders : Lookup(w, a)
  <2>1. Handled(w) = pa /\ worker[w].pc \notin Trying
    BY <1>2 DEF Stays, Handled
  <2>2. worker[w].pc \in {"idle", "pick", "insert", "activity", "count success"}
    BY <1>t, <2>1, WorkerFields DEF Trying, WorkerPcs
  <2>3. worker[w].pc \notin {"idle", "pick"}
    BY <1>2, StepMoves, TakeMoves, FreeFields DEF Trying, Leaves, Alert
  <2>4. Attempt(w) \/ Conclude(w)
    BY <2>3 DEF WorkerStep, Receive, PacketDone, Lookup, WorkerAt
  <2>5. InsertPublished(w) \/ UpdateActivity(w) \/ (Count(w) /\ worker[w].pc = "count success")
    BY <2>2, <2>3, <2>4, AttemptMoves, ConcludeMoves DEF Attempt, Conclude, Alert, WorkerAt
  <2> QED BY <2>5, ConcludeMoves DEF Trying, Leaves
<1>3. CASE ~Stays(w) /\ ~\E a \in Senders : Lookup(w, a)
  BY <1>3, StepMoves, TakeMoves, AlertMoves, FreeFields DEF Trying, Leaves
<1> QED BY <1>1, <1>2, <1>3

\* A step of a worker repeats no post, unless it is a fault.
LEMMA OnceStep ==
  ASSUME LegacyTyped, LegacyTyped', HeldAlone, SentOnce, NEW w \in Workers, WorkerStep(w) \/ DbError(w) \/ Crash(w)
  PROVE  SentOnce'
<1> SUFFICES ASSUME NEW pa \in Deliveries, pa[1] \notin shared' PROVE Once(pa)'
  BY DEF SentOnce
<1>1. Stepped(w) /\ shared \subseteq shared' /\ Once(pa) /\ pa[1] \notin shared
  BY WorkerMoves DEF SentOnce
<1>2. CASE (PostSucceeds(w) \/ PostUnanswered(w)) /\ Handled(w) = pa
  BY <1>1, <1>2, OncePosts
<1>3. CASE DbError(w) \/ Crash(w)
  <2>0. /\ sent' = sent /\ lost' = lost
        /\ \/ dbErrors' = dbErrors + 1 /\ crashes' = crashes
           \/ dbErrors' = dbErrors /\ crashes' = crashes + 1
    <3>1. CASE DbError(w)
      BY <3>1 DEF DbError
    <3>2. CASE Crash(w)
      BY <3>2 DEF Crash
    <3> QED BY <1>3, <3>1, <3>2
  <2>t. lost \in Nat /\ dbErrors \in Nat /\ crashes \in Nat
    BY DEF LegacyTyped, CountsTyped
  <2>1. sent' = sent /\ Faults' = Faults + 1
    BY <2>0, <2>t DEF Faults
  <2> QED BY <1>1, <2>1, OnceFault
<1>4. CASE PostUnanswered(w) /\ Handled(w) # pa
  <2>1. sent' = [sent EXCEPT ![Handled(w)] = @ + 1] /\ Faults' = Faults + 1
    BY <1>4 DEF PostUnanswered, PostGoesOut, Faults, LegacyTyped, CountsTyped
  <2>2. sent'[pa] = sent[pa]
    BY <1>4, <2>1 DEF LegacyTyped, CountsTyped
  <2> QED BY <1>1, <2>1, <2>2, OnceFault
<1>5. CASE WorkerStep(w) /\ ~PostUnanswered(w) /\ ~(PostSucceeds(w) /\ Handled(w) = pa)
  <2>0. sent'[pa] = sent[pa] /\ Faults' = Faults
    <3>1. PostSucceeds(w) \/ sent' = sent
      BY <1>5 DEF WorkerStep, Receive, PacketDone, Lookup, Attempt, Guard, TurnAway, Postpone, Requeue, SkipPosted,
        SendFails, Conclude, InsertPublished, UpdateActivity, Count, LogFailure, Alert, worldVars
    <3>2. UNCHANGED <<lost, dbErrors, crashes>>
      BY <1>5 DEF WorkerStep, Receive, PacketDone, Lookup, Attempt, Guard, TurnAway, Postpone, Requeue, SkipPosted, PostSucceeds,
        SendFails, Conclude, InsertPublished, UpdateActivity, Count, LogFailure, Alert, spentVars
    <3>3. PostSucceeds(w) => sent' = [sent EXCEPT ![Handled(w)] = @ + 1] /\ Handled(w) # pa
      BY <1>5 DEF PostSucceeds, PostGoesOut
    <3> QED BY <3>1, <3>2, <3>3 DEF LegacyTyped, CountsTyped, Faults
  <2>1. CASE worker[w].pc \in Trying /\ Handled(w) = pa
    <3>1. sent[pa] \in Nat /\ Faults \in Nat
      BY DEF LegacyTyped, CountsTyped, Faults
    <3>2. sent[pa] <= Faults
      BY <1>1, <2>1 DEF Once
    <3>3. sent'[pa] \in Nat /\ Faults' \in Nat /\ sent'[pa] <= Faults'
      BY <2>0, <3>1, <3>2
    <3> QED BY <3>3, OnceFaulted
  <2>2. CASE ~(worker[w].pc \in Trying /\ Handled(w) = pa)
    <3>1. IsPublished(pa) => IsPublished(pa)'
      <4>1. CASE pubRows' = pubRows \/ worker[w].pc = "insert"
        BY <4>1, RowsStay DEF IsPublished
      <4>2. CASE worker[w].pc \in {"turn away", "postpone", "log failure"} /\ OtherRows(Handled(w))
        <5>1. Handled(w) # pa
          BY <2>2, <4>2 DEF Trying
        <5> QED BY <4>2, <5>1 DEF OtherRows, IsPublished
      <4> QED BY <4>1, <4>2, RowsStay
    <3>2. WorkerAt(w, "insert") /\ Handled(w) = pa => IsPublished(pa)'
      <4>1. WorkerAt(w, "insert") => InsertPublished(w)
        BY <1>5 DEF WorkerAt, WorkerStep, Receive, PacketDone, Lookup, Attempt, Guard, TurnAway, Postpone, Requeue, SkipPosted,
          PostSucceeds, SendFails, PostUnanswered, Conclude, UpdateActivity, Count, LogFailure, Alert
      <4> QED BY <4>1, RowsStay
    <3>3. worker'[w].pc \in Trying /\ Handled(w)' = pa => sent[pa] <= Faults
      BY <1>1, <1>5, <2>2, BeginsToTry
    <3> QED BY <1>1, <2>0, <3>1, <3>2, <3>3, OnceStays
  <2> QED BY <2>1, <2>2
<1> QED BY <1>2, <1>3, <1>4, <1>5

\* A step of the others: no worker moves, nothing is posted, and no row loses what it counts.
OthersStep ==
  /\ worker' = worker /\ UNCHANGED <<sent, attempts, shared, turnedAway>>
  /\ Faults' \in {Faults, Faults + 1}
  /\ \A pa \in Deliveries :
       /\ Len(pubRows'[pa]) = Len(pubRows[pa])
       /\ \A k \in 1..Len(pubRows[pa]) :
            /\ pubRows'[pa][k].retry = pubRows[pa][k].retry
            /\ pubRows[pa][k].status = "published" => pubRows'[pa][k].status = "published"

\* What is not a step of a worker is a step of the others.
LEMMA OthersAre ==
  ASSUME LegacyTyped, [LegacyNext]_legacyVars,
         ~\E w \in Workers : WorkerStep(w) \/ DbError(w) \/ Crash(w)
  PROVE  OthersStep
<1>1. ASSUME NEW pa \in Deliveries, ManualRetry(pa) PROVE OthersStep
  <2>1. PICK n \in 1..Len(pubRows[pa]) : /\ pubRows[pa][n].status # "published"
                                         /\ pubRows' = [pubRows EXCEPT ![pa][n].status = "retrying"]
    BY <1>1 DEF ManualRetry, Retryable
  <2>2. /\ OtherRows(pa) /\ Len(pubRows'[pa]) = Len(pubRows[pa])
        /\ \A k \in 1..Len(pubRows[pa]) : /\ pubRows'[pa][k].retry = pubRows[pa][k].retry
                                          /\ k # n => pubRows'[pa][k].status = pubRows[pa][k].status
    BY <2>1, MarkedRows DEF LegacyTyped
  <2>3. ASSUME NEW pb \in Deliveries
        PROVE  /\ Len(pubRows'[pb]) = Len(pubRows[pb])
               /\ \A k \in 1..Len(pubRows[pb]) :
                    /\ pubRows'[pb][k].retry = pubRows[pb][k].retry
                    /\ pubRows[pb][k].status = "published" => pubRows'[pb][k].status = "published"
    BY <2>1, <2>2 DEF OtherRows
  <2>4. worker' = worker /\ UNCHANGED <<sent, attempts, shared, turnedAway>> /\ Faults' = Faults
    BY <1>1 DEF ManualRetry, worldVars, Faults
  <2> QED BY <2>3, <2>4 DEF OthersStep
<1>2. CASE UNCHANGED <<worker, pubRows, sent, attempts, shared, turnedAway>> /\ Faults' \in {Faults, Faults + 1}
  BY <1>2 DEF OthersStep
<1>3. CASE NewDay \/ UNCHANGED legacyVars
  BY <1>2, <1>3 DEF NewDay, legacyVars, worldVars, spentVars, Faults
<1>4. CASE \E a \in Senders : SetBlocked(a) \/ IntervalEnds(a)
  BY <1>2, <1>4 DEF SetBlocked, IntervalEnds, worldVars, spentVars, Faults
<1>5. CASE \E q \in Pollers : Poll(q) \/ PollerDies(q)
  <2>1. CASE \E q \in Pollers : Poll(q)
    BY <1>2, <2>1 DEF Poll, PollRead, PollRemove, PollPush, worldVars, spentVars, Faults
  <2>2. CASE \E q \in Pollers : PollerDies(q)
    <3>1. UNCHANGED <<worker, pubRows, sent, attempts, shared, turnedAway, lost, dbErrors>> /\ crashes' = crashes + 1
      BY <2>2 DEF PollerDies, worldVars
    <3>2. Faults' = Faults + 1
      BY <3>1 DEF Faults, LegacyTyped, CountsTyped
    <3> QED BY <1>2, <3>1, <3>2
  <2> QED BY <1>5, <2>1, <2>2
<1>6. CASE \E i \in Items : DelayEnds(i)
  BY <1>2, <1>6 DEF DelayEnds, worldVars, spentVars, Faults
<1> QED BY <1>1, <1>3, <1>4, <1>5, <1>6 DEF LegacyNext, Environment

\* The others post nothing and hold nothing.
LEMMA OthersOnce ==
  ASSUME LegacyTyped, LegacyTyped', HeldAlone, SentOnce, OthersStep
  PROVE  HeldAlone' /\ SentOnce'
<1>1. HeldAlone'
  BY DEF HeldAlone, OthersStep
<1>2. ASSUME NEW pa \in Deliveries, Once(pa) PROVE Once(pa)'
  <2>1. IsPublished(pa) => IsPublished(pa)'
    BY DEF IsPublished, OthersStep
  <2>2. \A w \in Workers : WorkerAt(w, "insert")' = WorkerAt(w, "insert") /\ Handled(w)' = Handled(w)
    BY DEF OthersStep, WorkerAt, Handled
  <2>3. CASE Faults' = Faults
    BY <1>2, <2>1, <2>2, <2>3 DEF OthersStep, Once
  <2>4. CASE Faults' = Faults + 1
    BY <1>2, <2>4, OnceFault DEF OthersStep
  <2> QED BY <2>3, <2>4 DEF OthersStep
<1> QED BY <1>1, <1>2 DEF OthersStep, SentOnce

\* Nothing is posted at the start.
LEMMA InitOnce == LegacyInit => HeldAlone /\ SentOnce
<1> SUFFICES ASSUME LegacyInit PROVE HeldAlone /\ SentOnce
  OBVIOUS
<1>1. HeldAlone
  BY FreeFields DEF LegacyInit, HeldAlone
<1>2. \A pa \in Deliveries : Once(pa)
  BY FreeFields DEF LegacyInit, Once, Trying, Faults
<1> QED BY <1>1, <1>2 DEF SentOnce

\* No fault explains more than one post.
LEMMA OncePosted == LegacyTyped /\ SentOnce => PostedOnce
<1> SUFFICES ASSUME LegacyTyped, SentOnce, NEW pa \in Deliveries, pa[1] \notin shared PROVE sent[pa] <= 1 + lost + dbErrors + crashes
  BY DEF PostedOnce
<1>1. sent[pa] <= Faults + 1
  BY DEF SentOnce, Once
<1>2. Faults + 1 = 1 + lost + dbErrors + crashes
  BY DEF Faults, LegacyTyped, CountsTyped
<1> QED BY <1>1, <1>2

-----------------------------------------------------------------------------
(* The budget of retries.                                                  *)

\* A row has counted n tries.
Noted(pa, n) == n <= 0 \/ \E k \in 1..Len(pubRows[pa]) : pubRows[pa][k].retry >= n

AtFailure(w, pa) == worker[w].pc \in {"count failure", "log failure"} /\ Handled(w) = pa

\* The failures of a delivery have been counted in a row, but for the one a worker is logging.
Tried(pa) ==
  /\ Noted(pa, attempts[pa]) \/ \E w \in Workers : AtFailure(w, pa)
  /\ \A w \in Workers : WorkerAt(w, "count failure") /\ Handled(w) = pa => Noted(pa, attempts[pa] - 1)
  /\ \A w \in Workers : WorkerAt(w, "log failure") /\ Handled(w) = pa => attempts[pa] <= worker[w].retries + 1

TriesNoted == dbErrors + crashes = 0 => \A pa \in Deliveries : pa[1] \notin shared => Tried(pa)

\* The rows keep what they have counted.
RetriesKept(pa) ==
  \A k \in 1..Len(pubRows[pa]) : k \in 1..Len(pubRows'[pa]) /\ pubRows'[pa][k].retry = pubRows[pa][k].retry

\* A try that is noted stays noted while the rows keep what they have counted.
LEMMA NotedKept ==
  ASSUME NEW pa, NEW n, RetriesKept(pa), Noted(pa, n)
  PROVE  n <= 0 \/ \E k \in 1..Len(pubRows'[pa]) : pubRows'[pa][k].retry >= n
  BY DEF RetriesKept, Noted

\* Nothing happens to the delivery.
LEMMA TriedStays ==
  ASSUME NEW pa \in Deliveries, Tried(pa), NEW w \in Workers, Stepped(w), attempts'[pa] = attempts[pa], RetriesKept(pa),
         ~AtFailure(w, pa), ~AtFailure(w, pa)'
  PROVE  Tried(pa)'
<1>1. \A n : Noted(pa, n) => Noted(pa, n)'
  BY NotedKept DEF Noted
<1>2. \A v \in Workers \ {w} : worker'[v] = worker[v] /\ Handled(v)' = Handled(v)
  BY DEF Stepped, Handled
<1>3. Noted(pa, attempts[pa])' \/ \E v \in Workers : AtFailure(v, pa)'
  <2>1. CASE Noted(pa, attempts[pa])
    <3>1. PICK n : n = attempts[pa] /\ n = attempts'[pa]
      OBVIOUS
    <3> QED BY <1>1, <2>1, <3>1 DEF Noted
  <2>2. CASE \E v \in Workers : AtFailure(v, pa)
    BY <1>2, <2>2 DEF AtFailure
  <2> QED BY <2>1, <2>2 DEF Tried
<1>4. ASSUME NEW v \in Workers, WorkerAt(v, "count failure")', Handled(v)' = pa PROVE Noted(pa, attempts[pa] - 1)'
  <2>1. v # w
    BY <1>4 DEF AtFailure, WorkerAt
  <2>2. Noted(pa, attempts[pa] - 1)
    BY <1>2, <1>4, <2>1 DEF Tried, WorkerAt
  <2> QED BY <2>2, NotedKept DEF Noted
<1>5. ASSUME NEW v \in Workers, WorkerAt(v, "log failure")', Handled(v)' = pa PROVE attempts'[pa] <= worker'[v].retries + 1
  <2>1. v # w
    BY <1>5 DEF AtFailure, WorkerAt
  <2> QED BY <1>2, <1>5, <2>1 DEF Tried, WorkerAt
<1> QED BY <1>3, <1>4, <1>5 DEF Tried

\* No one else handles the delivery of a worker.
LEMMA NoOther ==
  ASSUME LegacyTyped, HeldAlone, NEW w \in Workers, Stepped(w), NEW pa \in Deliveries, pa[1] \notin shared,
         worker[w].pc # "idle", Handled(w) = pa,
         NEW v \in Workers, v # w
  PROVE  ~AtFailure(v, pa) /\ ~AtFailure(v, pa)'
<1>1. worker[v].pc # "idle" /\ Handled(v) = pa => v = w
  BY DEF HeldAlone, Handled
<1> QED BY <1>1 DEF Stepped, AtFailure, Handled

\* The delivery a worker handles: what must hold of the worker alone.
LEMMA TriedByOne ==
  ASSUME LegacyTyped, HeldAlone, NEW w \in Workers, Stepped(w), NEW pa \in Deliveries, pa[1] \notin shared,
         worker[w].pc # "idle", Handled(w) = pa,
         Noted(pa, attempts[pa])' \/ AtFailure(w, pa)',
         WorkerAt(w, "count failure")' => Noted(pa, attempts[pa] - 1)',
         WorkerAt(w, "log failure")' => attempts'[pa] <= worker'[w].retries + 1
  PROVE  Tried(pa)'
<1>1. \A v \in Workers : v # w => ~AtFailure(v, pa)'
  BY NoOther
<1> QED BY <1>1 DEF Tried, AtFailure, WorkerAt

\* Only the steps that log an attempt lower what a row has counted.
LEMMA RetriesStay ==
  ASSUME LegacyTyped, NEW w \in Workers, WorkerStep(w), NEW pa \in Deliveries
  PROVE  \/ RetriesKept(pa)
         \/ Handled(w) = pa /\ worker[w].pc \in {"turn away", "postpone", "log failure"}
<1>0. RowsTyped /\ WorkersTyped
  BY DEF LegacyTyped
<1>1. CASE pubRows'[pa] = pubRows[pa]
  BY <1>1 DEF RetriesKept
<1>2. CASE InsertPublished(w) /\ Handled(w) = pa /\ pubRows'[pa] # pubRows[pa]
  <2>1. pubRows' = [pubRows EXCEPT ![pa] = Append(@, [status |-> "published", retry |-> 0])]
    BY <1>2 DEF InsertPublished
  <2> QED BY <1>0, <2>1, AppendedRows DEF RetriesKept
<1>3. InsertPublished(w) <=> worker[w].pc = "insert"
  BY DEF WorkerStep, Receive, PacketDone, Lookup, Attempt, Guard, TurnAway, Postpone, Requeue, SkipPosted, PostSucceeds,
    SendFails, PostUnanswered, Conclude, InsertPublished, UpdateActivity, Count, LogFailure, Alert, WorkerAt
<1> QED BY <1>1, <1>2, <1>3, RowsStay DEF OtherRows

\* Which steps change the count of failed attempts.
LEMMA AttemptsStay ==
  ASSUME LegacyTyped, NEW w \in Workers, WorkerStep(w), NEW pa \in Deliveries
  PROVE  \/ attempts'[pa] = attempts[pa]
         \/ /\ Handled(w) = pa
            /\ SendFails(w) \/ PostUnanswered(w) \/ TurnAway(w) \/ Postpone(w) \/ LogFailure(w)
<1>1. attempts' = attempts \/ SendFails(w) \/ PostUnanswered(w) \/ TurnAway(w) \/ Postpone(w) \/ LogFailure(w)
  BY DEF WorkerStep, Receive, PacketDone, Lookup, Attempt, Guard, Requeue, SkipPosted, PostSucceeds,
    Conclude, InsertPublished, UpdateActivity, Count, Alert
<1>2. \/ attempts' = attempts \/ attempts' = [attempts EXCEPT ![Handled(w)] = attempts[Handled(w)] + 1]
      \/ attempts' = [attempts EXCEPT ![Handled(w)] = 0]
  BY <1>1 DEF SendFails, PostUnanswered, TurnAway, Postpone, LogFailure
<1> QED BY <1>1, <1>2 DEF LegacyTyped, CountsTyped

\* Who comes to count or to log a failure, or leaves there.
LEMMA ToFailure ==
  ASSUME LegacyTyped, NEW w \in Workers, WorkerStep(w), NEW pa \in Deliveries, AtFailure(w, pa) \/ AtFailure(w, pa)'
  PROVE  /\ worker[w].pc \notin {"idle", "pick"} /\ Handled(w) = pa
         /\ SendFails(w) \/ PostUnanswered(w) \/ Count(w) \/ LogFailure(w)
<1>0. WorkersTyped
  BY DEF LegacyTyped
<1>1. CASE AtFailure(w, pa)
  <2>1. worker[w].pc \in {"count failure", "log failure"}
    BY <1>1 DEF AtFailure
  <2>2. Attempt(w) \/ Conclude(w)
    BY <2>1 DEF WorkerStep, Receive, PacketDone, Lookup, WorkerAt
  <2>3. Count(w) \/ LogFailure(w)
    BY <2>1, <2>2, AttemptMoves, ConcludeMoves DEF Attempt, Conclude, Alert, WorkerAt
  <2> QED BY <1>1, <2>1, <2>3 DEF AtFailure
<1>2. CASE AtFailure(w, pa)'
  <2>1. worker'[w].pc \in {"count failure", "log failure"}
    BY <1>2 DEF AtFailure
  <2>2. ~(\E i \in Items : Receive(w, i)) /\ ~(\E a \in Senders : Lookup(w, a)) /\ worker'[w] # Free /\ ~Leaves(w) /\ ~Alert(w)
    BY <2>1, TakeMoves, LookupMoves, AlertMoves, FreeFields DEF Leaves
  <2>3. Stays(w) /\ worker[w].pc \notin {"idle", "pick"}
    BY <2>2, StepMoves
  <2>4. Handled(w) = pa
    BY <1>2, <2>3 DEF AtFailure, Stays, Handled
  <2>5. Attempt(w) \/ Conclude(w)
    BY <2>3 DEF WorkerStep, Receive, PacketDone, Lookup, WorkerAt
  <2>6. SendFails(w) \/ PostUnanswered(w) \/ Count(w) \/ LogFailure(w)
    BY <2>1, <2>2, <2>5, AttemptMoves, ConcludeMoves DEF Attempt, Conclude
  <2> QED BY <2>3, <2>4, <2>6
<1> QED BY <1>1, <1>2

\* A worker's step: what it counts as failed it logs before it leaves the delivery.
LEMMA TriedByWorker ==
  ASSUME LegacyTyped, LegacyTyped', HeldAlone, NEW w \in Workers, WorkerStep(w), NEW pa \in Deliveries, pa[1] \notin shared,
         Tried(pa)
  PROVE  Tried(pa)'
<1>0. /\ WorkersTyped /\ RowsTyped /\ Stepped(w) /\ attempts[pa] \in Nat /\ attempts'[pa] \in Nat
      /\ \A b \in Deliveries : attempts[b] \in Nat
      /\ attempts \in [Deliveries -> Nat]
  BY WorkerMoves DEF LegacyTyped, CountsTyped
<1>1. ASSUME SendFails(w) \/ PostUnanswered(w), Handled(w) = pa PROVE Tried(pa)'
  <2>1. worker[w].pc = "post" /\ Stays(w) /\ worker'[w].pc = "count failure"
    BY <1>1, AttemptMoves
  <2>2. attempts' = [attempts EXCEPT ![pa] = @ + 1] /\ pubRows' = pubRows
    BY <1>1 DEF SendFails, PostUnanswered
  <2>3. attempts'[pa] - 1 = attempts[pa]
    BY <1>0, <2>2
  <2>4. Handled(w)' = pa
    BY <1>1, <2>1 DEF Stays, Handled
  <2>5. ~\E v \in Workers : AtFailure(v, pa)
    BY <1>0, <1>1, <2>1, NoOther DEF AtFailure
  <2>6. Noted(pa, attempts[pa] - 1)'
    <3>1. Noted(pa, attempts[pa])
      BY <2>5 DEF Tried
    <3> QED BY <2>2, <2>3, <3>1 DEF Noted
  <2> QED BY <1>0, <1>1, <2>1, <2>4, <2>6, TriedByOne DEF AtFailure, WorkerAt
<1>2. ASSUME Count(w), Handled(w) = pa, worker[w].pc = "count failure" PROVE Tried(pa)'
  <2>1. /\ Stays(w) /\ worker'[w].pc = "log failure" /\ worker'[w].retries = RetryCount(pa)
    BY <1>2, ConcludeMoves
  <2>2. attempts' = attempts /\ pubRows' = pubRows
    BY <1>2 DEF Count
  <2>3. Noted(pa, attempts[pa] - 1)
    BY <1>2 DEF Tried, WorkerAt
  <2>4. RetryCount(pa) \in Nat /\ \A n \in 1..Len(pubRows[pa]) : pubRows[pa][n].retry <= RetryCount(pa)
    BY <1>0, RetryCountIn
  <2>5. \A n \in 1..Len(pubRows[pa]) : pubRows[pa][n].retry \in Int
    <3>1. pubRows[pa] \in Seq(RowRecords) /\ MaxRetries \in Nat
      BY <1>0, LegacyAssumption DEF RowsTyped, LegacyAssumption
    <3>2. \A n \in 1..Len(pubRows[pa]) : pubRows[pa][n] \in RowRecords
      BY <3>1
    <3> QED BY <3>1, <3>2 DEF RowRecords
  <2>6. attempts[pa] - 1 <= RetryCount(pa)
    BY <1>0, <2>3, <2>4, <2>5 DEF Noted
  <2>7. attempts'[pa] <= worker'[w].retries + 1
    <3>1. attempts[pa] <= RetryCount(pa) + 1
      BY <1>0, <2>4, <2>6
    <3>2. attempts'[pa] = attempts[pa] /\ worker'[w].retries = RetryCount(pa)
      BY <2>1, <2>2
    <3> QED BY <3>1, <3>2
  <2>8. AtFailure(w, pa)'
    BY <1>2, <2>1 DEF AtFailure, Stays, Handled
  <2> QED BY <1>0, <1>2, <2>1, <2>7, <2>8, TriedByOne DEF WorkerAt
<1>3. ASSUME LogFailure(w), Handled(w) = pa PROVE Tried(pa)'
  <2>1. worker[w].pc = "log failure" /\ worker'[w].pc \notin {"count failure", "log failure"}
    BY <1>3, ConcludeMoves DEF Leaves
  <2>2. Noted(pa, attempts[pa])'
    <3>1. CASE Final(w)
      <4>1. attempts'[pa] = 0
        BY <1>0, <1>3, <3>1 DEF LogFailure
      <4> QED BY <4>1 DEF Noted
    <3>2. CASE ~Final(w)
      <4>1. LogAttempt(pa, "retrying", worker[w].retries + 1) /\ worker[w].retries + 1 \in 0..MaxRetries /\ attempts' = attempts
        BY <1>3, <3>2, LogFailureRows DEF LogFailure
      <4>2. \E k \in 1..Len(pubRows'[pa]) : pubRows'[pa][k].retry = worker[w].retries + 1
        BY <1>0, <4>1, LoggedRows DEF RowStatus
      <4>3. attempts[pa] <= worker[w].retries + 1
        BY <1>3, <2>1 DEF Tried, WorkerAt
      <4> QED BY <4>1, <4>2, <4>3 DEF Noted
    <3> QED BY <3>1, <3>2
  <2> QED BY <1>0, <1>3, <2>1, <2>2, TriedByOne DEF WorkerAt
<1>4. ASSUME TurnAway(w) \/ Postpone(w), Handled(w) = pa PROVE Tried(pa)'
  <2>1. worker[w].pc \in {"turn away", "postpone"} /\ worker'[w].pc \notin {"count failure", "log failure"}
    BY <1>4, AttemptMoves DEF Leaves
  <2>2. attempts'[pa] = 0
    BY <1>0, <1>4 DEF TurnAway, Postpone
  <2>3. Noted(pa, attempts[pa])'
    BY <2>2 DEF Noted
  <2> QED BY <1>0, <1>4, <2>1, <2>3, TriedByOne DEF WorkerAt
<1>5. ASSUME Count(w), Handled(w) = pa, worker[w].pc # "count failure" PROVE Tried(pa)'
  <2>1. worker[w].pc = "count success" /\ Leaves(w)
    BY <1>5, ConcludeMoves
  <2>2. ~AtFailure(w, pa) /\ ~AtFailure(w, pa)'
    BY <2>1 DEF AtFailure, Leaves
  <2>3. attempts'[pa] = attempts[pa] /\ RetriesKept(pa)
    BY <1>5 DEF Count, RetriesKept
  <2> QED BY <1>0, <2>2, <2>3, TriedStays
<1>6. CASE ~(Handled(w) = pa /\ (SendFails(w) \/ PostUnanswered(w) \/ Count(w) \/ LogFailure(w) \/ TurnAway(w) \/ Postpone(w)))
  <2>1. attempts'[pa] = attempts[pa]
    BY <1>6, AttemptsStay
  <2>2. ~AtFailure(w, pa) /\ ~AtFailure(w, pa)'
    BY <1>6, ToFailure
  <2>3. RetriesKept(pa)
    <3>1. ASSUME Handled(w) = pa, worker[w].pc \in {"turn away", "postpone", "log failure"} PROVE FALSE
      <4>1. worker[w].pc \notin {"log failure"}
        BY <2>2, <3>1 DEF AtFailure
      <4>2. worker[w].pc \in {"turn away", "postpone"}
        BY <3>1, <4>1
      <4>3. Attempt(w) \/ Conclude(w)
        BY <4>2 DEF WorkerStep, Receive, PacketDone, Lookup, WorkerAt
      <4>4. TurnAway(w) \/ Postpone(w)
        BY <4>2, <4>3, AttemptMoves, ConcludeMoves DEF Attempt, Conclude, Alert, WorkerAt
      <4> QED BY <1>6, <3>1, <4>4
    <3> QED BY <3>1, RetriesStay
  <2> QED BY <1>0, <2>1, <2>2, <2>3, TriedStays
<1> QED BY <1>1, <1>2, <1>3, <1>4, <1>5, <1>6

\* The others fail at nothing; a manual retry leaves the counts in the rows.
LEMMA OthersTried ==
  ASSUME NEW pa \in Deliveries, Tried(pa), OthersStep
  PROVE  Tried(pa)'
<1>1. RetriesKept(pa) /\ attempts' = attempts /\ worker' = worker
  BY DEF OthersStep, RetriesKept
<1>2. \A n : Noted(pa, n) => n <= 0 \/ \E k \in 1..Len(pubRows'[pa]) : pubRows'[pa][k].retry >= n
  BY <1>1, NotedKept
<1>3. /\ Noted(pa, attempts[pa]) => Noted(pa, attempts[pa])'
      /\ Noted(pa, attempts[pa] - 1) => Noted(pa, attempts[pa] - 1)'
  BY <1>1, <1>2 DEF Noted
<1>4. \A v \in Workers : /\ AtFailure(v, pa)' = AtFailure(v, pa) /\ WorkerAt(v, "count failure")' = WorkerAt(v, "count failure")
                         /\ WorkerAt(v, "log failure")' = WorkerAt(v, "log failure") /\ Handled(v)' = Handled(v)
  BY <1>1 DEF AtFailure, WorkerAt, Handled
<1> QED BY <1>1, <1>3, <1>4 DEF Tried

\* Nothing has been tried at the start.
LEMMA InitTried == LegacyInit => TriesNoted
<1> SUFFICES ASSUME LegacyInit, NEW pa \in Deliveries PROVE Tried(pa)
  BY DEF TriesNoted
<1>1. attempts[pa] = 0 /\ \A w \in Workers : worker[w].pc = "idle"
  BY FreeFields DEF LegacyInit
<1>2. Noted(pa, attempts[pa])
  BY <1>1 DEF Noted
<1> QED BY <1>1, <1>2 DEF Tried, WorkerAt

\* Failing statements and deaths are never taken back.
LEMMA FaultsKept ==
  ASSUME LegacyTyped, [LegacyNext]_legacyVars, dbErrors' + crashes' = 0
  PROVE  /\ dbErrors + crashes = 0 /\ ~\E w \in Workers : DbError(w) \/ Crash(w)
         /\ ~\E q \in Pollers : PollerDies(q)
<1>0. dbErrors \in Nat /\ crashes \in Nat
  BY DEF LegacyTyped, CountsTyped
<1>1. CASE UNCHANGED <<dbErrors, crashes>>
  <2>1. dbErrors' # dbErrors + 1 /\ crashes' # crashes + 1
    BY <1>0, <1>1
  <2> QED BY <1>1, <2>1 DEF DbError, Crash, PollerDies
<1>2. CASE \E w \in Workers : DbError(w) \/ Crash(w)
  <2>1. \/ dbErrors' = dbErrors + 1 /\ crashes' = crashes
        \/ dbErrors' = dbErrors /\ crashes' = crashes + 1
    BY <1>2 DEF DbError, Crash
  <2> QED BY <1>0, <2>1
<1>3. CASE \E q \in Pollers : PollerDies(q)
  BY <1>0, <1>3 DEF PollerDies
<1>4. \/ UNCHANGED <<dbErrors, crashes>> \/ \E w \in Workers : DbError(w) \/ Crash(w)
      \/ \E q \in Pollers : PollerDies(q)
  <2>1. \/ \E w \in Workers : WorkerStep(w)
        \/ \E q \in Pollers : Poll(q)
        \/ NewDay \/ UNCHANGED legacyVars
        \/ \E i \in Items : DelayEnds(i)
        \/ \E a \in Senders : SetBlocked(a) \/ IntervalEnds(a)
        => UNCHANGED <<dbErrors, crashes>>
    BY DEF WorkerStep, Receive, PacketDone, Lookup, Attempt, Guard, TurnAway, Postpone, Requeue, SkipPosted, PostSucceeds,
      SendFails, PostUnanswered, Conclude, InsertPublished, UpdateActivity, Count, LogFailure, Alert, Poll, PollRead, PollPush,
      PollRemove, NewDay, DelayEnds, SetBlocked, IntervalEnds, spentVars, legacyVars
  <2>2. (\E pa \in Deliveries : ManualRetry(pa)) => UNCHANGED <<dbErrors, crashes>>
    BY DEF ManualRetry
  <2> QED BY <2>1, <2>2 DEF LegacyNext, Environment
<1> QED BY <1>1, <1>2, <1>3, <1>4

\* No row counts more than max_retries, so no delivery is tried more than once more than that.
LEMMA TriedWithin ==
  ASSUME LegacyTyped, TriesNoted
  PROVE  BudgetRespected
<1> SUFFICES ASSUME NEW pa \in Deliveries, attempts[pa] > MaxRetries + 1, pa[1] \notin shared, ~(dbErrors + crashes > 0)
             PROVE  FALSE
  BY DEF BudgetRespected
<1>1. dbErrors \in Nat /\ crashes \in Nat /\ attempts[pa] \in Nat /\ MaxRetries \in Nat
  BY LegacyAssumption DEF LegacyTyped, CountsTyped, LegacyAssumption
<1>2. Tried(pa)
  BY <1>1 DEF TriesNoted
<1>3. ASSUME NEW n \in Int, n > MaxRetries, Noted(pa, n) PROVE FALSE
  <2>1. PICK k \in 1..Len(pubRows[pa]) : pubRows[pa][k].retry >= n
    BY <1>1, <1>3 DEF Noted
  <2>2. pubRows[pa] \in Seq(RowRecords)
    BY DEF LegacyTyped, RowsTyped
  <2>3. pubRows[pa][k] \in RowRecords
    BY <2>2
  <2>4. pubRows[pa][k].retry \in 0..MaxRetries
    BY <2>3 DEF RowRecords
  <2> QED BY <1>1, <1>3, <2>1, <2>4
<1>4. CASE Noted(pa, attempts[pa])
  BY <1>1, <1>3, <1>4
<1>5. ASSUME NEW w \in Workers, AtFailure(w, pa) PROVE FALSE
  <2>1. CASE worker[w].pc = "count failure"
    <3>1. Noted(pa, attempts[pa] - 1)
      BY <1>2, <1>5, <2>1 DEF Tried, WorkerAt, AtFailure
    <3> QED BY <1>1, <1>3, <3>1
  <2>2. CASE worker[w].pc = "log failure"
    <3>1. attempts[pa] <= worker[w].retries + 1
      BY <1>2, <1>5, <2>2 DEF Tried, WorkerAt, AtFailure
    <3>2. worker[w].retries \in 0..MaxRetries
      BY WorkerFields DEF LegacyTyped
    <3> QED BY <1>1, <3>1, <3>2
  <2> QED BY <1>5, <2>1, <2>2 DEF AtFailure
<1> QED BY <1>2, <1>4, <1>5 DEF Tried

-----------------------------------------------------------------------------
(* Nothing is lost.                                                        *)

\* Where a worker may be that has done what it does for its account, but for counting it.
Recorded == {"activity", "count success", "alert"}

Listed(pa) ==
  \E i \in Items : i.packet = pa[1] /\ pa[2] \in i.accounts /\ (queue[i] > 0 \/ i \in delayed \ moved)

\* The delivery is left to a worker, and not one that has recorded it.
InHand(r, pa) ==
  /\ r.raw.packet = pa[1] /\ pa[2] \in r.todo
  /\ ~(r.account = pa[2] /\ r.pc \in Recorded)

Swept(pa) == \E i \in swept : i.packet = pa[1]

\* A delivery is settled, or it is listed, in a worker's hands or swept away.
Followed(pa) == Settled(pa) \/ Listed(pa) \/ (\E w \in Workers : InHand(worker[w], pa)) \/ Swept(pa)

OnItsWay ==
  dbErrors + crashes = 0 => \A pa \in Deliveries : pa[2] \in TargetsOf[pa[1]] => Followed(pa)

\* A delivery stays settled while its rows stay.
LEMMA SettledStays ==
  ASSUME NEW pa, Settled(pa), pubRows'[pa] = pubRows[pa], turnedAway \subseteq turnedAway'
  PROVE  Settled(pa)'
  BY DEF Settled

\* What becomes of a delivery in the hands of a worker that stays with its account or leaves it.
LEMMA HandStays ==
  ASSUME NEW w \in Workers, NEW pa, InHand(worker[w], pa), Stays(w),
         worker[w].account # pa[2] \/ worker'[w].pc \notin Recorded
  PROVE  InHand(worker'[w], pa)
  BY DEF InHand, Stays

\* ... and when it leaves another account.
LEMMA HandLeaves ==
  ASSUME NEW w \in Workers, NEW pa, InHand(worker[w], pa), Leaves(w), worker[w].account # pa[2]
  PROVE  InHand(worker'[w], pa)
  BY DEF InHand, Leaves, Recorded

\* A worker's step and the lists: only Receive takes from them.
LEMMA ListedStays ==
  ASSUME LegacyTyped, NEW w \in Workers, WorkerStep(w), NEW pa \in Deliveries, Listed(pa)
  PROVE  Listed(pa)' \/ InHand(worker'[w], pa)
<1>1. PICK i \in Items : i.packet = pa[1] /\ pa[2] \in i.accounts /\ (queue[i] > 0 \/ i \in delayed \ moved)
  BY DEF Listed
<1>2. ASSUME NEW j \in Items, Receive(w, j) PROVE Listed(pa)' \/ InHand(worker'[w], pa)
  <2>1. CASE i = j
    <3>1. worker'[w].raw = i /\ worker'[w].todo = i.accounts /\ worker'[w].pc = "pick"
      BY <1>2, <2>1, TakeMoves
    <3> QED BY <1>1, <3>1 DEF InHand, Recorded
  <2>2. CASE i # j
    <3>1. queue' = [queue EXCEPT ![j] = @ - 1] /\ delayed' = delayed /\ moved' = moved
      BY <1>2 DEF Receive
    <3>2. queue'[i] = queue[i]
      BY <2>2, <3>1 DEF LegacyTyped, ListsTyped
    <3> QED BY <1>1, <3>1, <3>2 DEF Listed
  <2> QED BY <2>1, <2>2
<1>3. CASE Requeue(w)
  <2>1. queue' = queue /\ delayed \subseteq delayed' /\ moved' \subseteq moved
    BY <1>3 DEF Requeue, PushDelayed
  <2> QED BY <1>1, <2>1 DEF Listed
<1>4. CASE UNCHANGED <<queue, delayed, moved>>
  BY <1>1, <1>4 DEF Listed
<1>5. (\E j \in Items : Receive(w, j)) \/ Requeue(w) \/ UNCHANGED <<queue, delayed, moved>>
  BY DEF WorkerStep, PacketDone, Lookup, Attempt, Guard, TurnAway, Postpone, SkipPosted, PostSucceeds,
    SendFails, PostUnanswered, Conclude, InsertPublished, UpdateActivity, Count, LogFailure, Alert, queueVars
<1> QED BY <1>2, <1>3, <1>4, <1>5

\* A worker's step and what is swept or given up.
LEMMA SweptStays ==
  ASSUME NEW w \in Workers, WorkerStep(w)
  PROVE  swept' = swept /\ turnedAway \subseteq turnedAway'
  BY DEF WorkerStep, Receive, PacketDone, Lookup, Attempt, Guard, TurnAway, Postpone, Requeue, SkipPosted, PostSucceeds, PushDelayed,
    SendFails, PostUnanswered, Conclude, InsertPublished, UpdateActivity, Count, LogFailure, Alert, queueVars

\* What a failure for good is logged as.
LEMMA GivenUp == "permanently_failed" \in RowStatus /\ 0 \in 0..MaxRetries
  BY LegacyAssumption DEF LegacyAssumption, RowStatus

\* The steps that write a row settle the delivery, or keep it in hand.
LEMMA WrittenFollowed ==
  ASSUME LegacyTyped, NEW w \in Workers, WorkerStep(w), NEW pa \in Deliveries, pa = Handled(w),
         worker[w].pc \in {"turn away", "postpone", "log failure", "insert"}
  PROVE  Settled(pa)' \/ InHand(worker'[w], pa)
<1>0. WorkersTyped /\ RowsTyped /\ worker[w].account \in worker[w].todo /\ worker[w].raw.packet = pa[1] /\ worker[w].account = pa[2]
  BY WorkerFields DEF LegacyTyped, WorkerFine, Handled
<1>1. CASE worker[w].pc = "turn away"
  <2>1. TurnAway(w)
    BY <1>1, AttemptMoves, ConcludeMoves DEF WorkerStep, Receive, PacketDone, Lookup, Attempt, Conclude, Alert, WorkerAt
  <2>2. pa \in turnedAway'
    BY <2>1 DEF TurnAway
  <2> QED BY <2>2 DEF Settled
<1>2. CASE worker[w].pc = "postpone"
  <2>1. Postpone(w)
    BY <1>2, AttemptMoves, ConcludeMoves DEF WorkerStep, Receive, PacketDone, Lookup, Attempt, Conclude, Alert, WorkerAt
  <2>2. Stays(w) /\ worker'[w].pc = "requeue"
    BY <2>1, AttemptMoves
  <2> QED BY <1>0, <2>2 DEF Stays, InHand, Recorded
<1>3. CASE worker[w].pc = "log failure"
  <2>1. LogFailure(w)
    BY <1>3, AttemptMoves, ConcludeMoves DEF WorkerStep, Receive, PacketDone, Lookup, Attempt, Conclude, Alert, WorkerAt
  <2>2. CASE Final(w)
    <3>1. LogAttempt(pa, "permanently_failed", 0)
      BY <2>1, <2>2, LogFailureRows
    <3>3. PICK status \in RowStatus, n \in 0..MaxRetries : status = "permanently_failed" /\ n = 0
      BY GivenUp
    <3>4. LogAttempt(pa, status, n)
      BY <3>1, <3>3
    <3>5. \E k \in 1..Len(pubRows'[pa]) : pubRows'[pa][k].status = status
      BY <1>0, <3>4, LoggedRows
    <3> QED BY <3>3, <3>5 DEF Settled
  <2>3. CASE ~Final(w)
    <3>1. Stays(w) /\ worker'[w].pc = "requeue"
      BY <2>1, <2>3, ConcludeMoves
    <3> QED BY <1>0, <3>1 DEF Stays, InHand, Recorded
  <2> QED BY <2>2, <2>3
<1>4. CASE worker[w].pc = "insert"
  <2>1. InsertPublished(w)
    BY <1>4, AttemptMoves, ConcludeMoves DEF WorkerStep, Receive, PacketDone, Lookup, Attempt, Conclude, Alert, WorkerAt
  <2>2. IsPublished(pa)'
    BY <2>1, RowsStay
  <2> QED BY <2>2 DEF Settled, IsPublished
<1> QED BY <1>1, <1>2, <1>3, <1>4

\* A delivery in the hands of the worker that steps.
LEMMA HandFollowed ==
  ASSUME LegacyTyped, NEW w \in Workers, WorkerStep(w), NEW pa \in Deliveries, InHand(worker[w], pa)
  PROVE  Settled(pa)' \/ Listed(pa)' \/ InHand(worker'[w], pa)
<1>0. /\ WorkersTyped /\ worker[w].raw.packet = pa[1] /\ pa[2] \in worker[w].todo /\ pa = <<pa[1], pa[2]>>
      /\ worker[w].todo \subseteq worker[w].targets
      /\ worker[w].pc # "idle"
  BY WorkerFields DEF LegacyTyped, InHand, WorkerFine, Deliveries
<1>p. IsPublished(pa) /\ pubRows' = pubRows => Settled(pa)'
  BY DEF IsPublished, Settled
<1>1. ASSUME NEW a \in Senders, Lookup(w, a) PROVE Settled(pa)' \/ Listed(pa)' \/ InHand(worker'[w], pa)
  <2>1. pubRows' = pubRows
    BY <1>1 DEF Lookup
  <2>2. /\ worker'[w].raw = worker[w].raw
        /\ \/ /\ IsPublished(<<pa[1], a>>)
              /\ worker'[w].pc = "pick" /\ worker'[w].todo = worker[w].todo \ {a}
           \/ worker'[w].pc = "guard" /\ worker'[w].todo = worker[w].todo
    BY <1>0, <1>1, LookupMoves
  <2>3. CASE a = pa[2] /\ IsPublished(<<pa[1], a>>)
    BY <1>0, <1>p, <2>1, <2>3
  <2>4. CASE ~(a = pa[2] /\ IsPublished(<<pa[1], a>>))
    BY <1>0, <2>2, <2>4 DEF InHand, Recorded
  <2> QED BY <2>3, <2>4
<1>2. CASE worker[w].pc = "pick" /\ ~\E a \in Senders : Lookup(w, a)
  <2>1. PacketDone(w)
    BY <1>2, AttemptMoves, ConcludeMoves DEF WorkerStep, Receive, Attempt, Conclude, Alert, WorkerAt
  <2> QED BY <1>0, <2>1 DEF PacketDone
<1>3. CASE Requeue(w)
  <2>1. /\ Item(w) \in Items /\ Item(w).packet = worker[w].raw.packet /\ Item(w).accounts = worker[w].targets
    BY <1>0, ItemIn
  <2>2. Item(w) \in delayed' \ moved'
    <3>1. PushDelayed(Item(w))
      BY <1>3 DEF Requeue
    <3> HIDE DEF Item
    <3> QED BY <3>1 DEF PushDelayed
  <2>3. PICK i \in Items : i.packet = pa[1] /\ pa[2] \in i.accounts /\ i \in delayed' \ moved'
    BY <1>0, <2>1, <2>2
  <2> QED BY <2>3 DEF Listed
<1>4. CASE worker[w].pc \notin {"idle", "pick"} /\ worker[w].account = pa[2] /\ ~Requeue(w)
  <2>0. pa = Handled(w)
    BY <1>0, <1>4 DEF Handled
  <2>1. CASE worker[w].pc \in {"turn away", "postpone", "log failure", "insert"}
    BY <2>0, <2>1, WrittenFollowed
  <2>2. CASE SkipPosted(w)
    <3>1. IsPublished(pa) /\ pubRows' = pubRows
      BY <2>0, <2>2 DEF SkipPosted
    <3> QED BY <1>p, <3>1
  <2>3. CASE worker[w].pc \notin {"turn away", "postpone", "log failure", "insert"} /\ ~SkipPosted(w)
    <3>1. worker[w].pc \notin Recorded
      BY <1>4 DEF InHand
    <3>2. Guard(w) \/ PostSucceeds(w) \/ SendFails(w) \/ PostUnanswered(w) \/ (Count(w) /\ worker[w].pc = "count failure")
      <4>1. Attempt(w) \/ Conclude(w)
        BY <1>4 DEF WorkerStep, Receive, PacketDone, Lookup, WorkerAt
      <4> QED BY <1>4, <2>3, <3>1, <4>1, AttemptMoves, ConcludeMoves DEF Attempt, Conclude, Alert, WorkerAt, Recorded
    <3>3. Stays(w) /\ worker'[w].pc \in {"turn away", "postpone", "requeue", "post", "insert", "count failure", "log failure"}
      BY <3>2, AttemptMoves, ConcludeMoves
    <3> QED BY <3>3, HandStays DEF Recorded
  <2> QED BY <2>1, <2>2, <2>3
<1>5. CASE worker[w].pc \notin {"idle", "pick"} /\ worker[w].account # pa[2]
  <2>1. CASE Stays(w)
    BY <1>5, <2>1, HandStays
  <2>2. CASE Leaves(w)
    BY <1>5, <2>2, HandLeaves
  <2>3. CASE Alert(w)
    <3>1. /\ worker'[w].pc = "pick" /\ worker'[w].raw = worker[w].raw
          /\ worker[w].todo \ {worker[w].account} \subseteq worker'[w].todo
      BY <2>3, AlertMoves
    <3> QED BY <1>0, <1>5, <3>1 DEF InHand, Recorded
  <2>4. Attempt(w) \/ Conclude(w)
    BY <1>5 DEF WorkerStep, Receive, PacketDone, Lookup, WorkerAt
  <2> QED BY <2>1, <2>2, <2>3, <2>4, AttemptMoves, ConcludeMoves DEF Attempt, Conclude
<1> QED BY <1>0, <1>1, <1>2, <1>3, <1>4, <1>5

\* A worker's step loses sight of no delivery.
LEMMA FollowedByWorker ==
  ASSUME LegacyTyped, NEW w \in Workers, WorkerStep(w), NEW pa \in Deliveries, Followed(pa)
  PROVE  Followed(pa)'
<1>0. Stepped(w) /\ swept' = swept /\ turnedAway \subseteq turnedAway'
  BY WorkerMoves, SweptStays
<1>h. InHand(worker'[w], pa) => Followed(pa)'
  BY DEF Followed
<1>1. CASE Settled(pa)
  <2>1. CASE pubRows'[pa] = pubRows[pa]
    BY <1>0, <1>1, <2>1, SettledStays DEF Followed
  <2>2. CASE pubRows'[pa] # pubRows[pa]
    <3>1. pa = Handled(w) /\ worker[w].pc \in {"turn away", "postpone", "log failure", "insert"}
      BY <2>2, RowsStay DEF OtherRows
    <3> QED BY <1>h, <3>1, WrittenFollowed DEF Followed
  <2> QED BY <2>1, <2>2
<1>2. CASE Listed(pa)
  BY <1>2, <1>h, ListedStays DEF Followed
<1>3. ASSUME NEW v \in Workers, InHand(worker[v], pa) PROVE Followed(pa)'
  <2>1. CASE v = w
    BY <1>h, <1>3, <2>1, HandFollowed DEF Followed
  <2>2. CASE v # w
    BY <1>0, <1>3, <2>2 DEF Stepped, Followed
  <2> QED BY <2>1, <2>2
<1>4. CASE Swept(pa)
  BY <1>0, <1>4 DEF Swept, Followed
<1> QED BY <1>1, <1>2, <1>3, <1>4 DEF Followed

\* What is listed stays listed, but for what a poller sweeps away.
LEMMA ListedByOthers ==
  ASSUME LegacyTyped, NEW pa \in Deliveries, Listed(pa), [LegacyNext]_legacyVars,
         ~\E w \in Workers : WorkerStep(w) \/ DbError(w) \/ Crash(w)
  PROVE  Listed(pa)' \/ Swept(pa)'
<1>1. PICK i \in Items : i.packet = pa[1] /\ pa[2] \in i.accounts /\ (queue[i] > 0 \/ i \in delayed \ moved)
  BY DEF Listed
<1>2. CASE queue' = queue /\ delayed \subseteq delayed' /\ moved' \subseteq moved
  BY <1>1, <1>2 DEF Listed
<1>3. ASSUME NEW q \in Pollers, PollRemove(q) PROVE Listed(pa)' \/ Swept(pa)'
  <2>1. /\ queue' = queue /\ delayed' = delayed \ poller[q].pushed /\ moved' = moved \ poller[q].pushed
        /\ swept' = swept \cup (poller[q].pushed \cap (delayed \ moved))
    BY <1>3 DEF PollRemove
  <2> QED BY <1>1, <2>1 DEF Listed, Swept
<1>4. ASSUME NEW q \in Pollers, NEW j \in Items, PollPush(q, j) PROVE Listed(pa)' \/ Swept(pa)'
  <2>1. queue' = [queue EXCEPT ![j] = @ + 1] /\ delayed' = delayed /\ moved' = moved \cup ({j} \cap delayed)
    BY <1>4 DEF PollPush
  <2>2. queue[i] \in Nat /\ queue'[i] \in Nat /\ queue'[j] = queue[j] + 1 /\ queue[j] \in Nat /\ (i # j => queue'[i] = queue[i])
    BY <2>1 DEF LegacyTyped, ListsTyped
  <2>3. i = j => queue'[i] > 0
    BY <2>2
  <2>4. i # j => queue'[i] = queue[i] /\ (i \in delayed \ moved => i \in delayed' \ moved')
    BY <2>1, <2>2
  <2> QED BY <1>1, <2>3, <2>4 DEF Listed
<1>5. CASE \/ \E q \in Pollers : PollRead(q) \/ PollerDies(q)
           \/ \E pb \in Deliveries : ManualRetry(pb)
           \/ \E j \in Items : DelayEnds(j)
           \/ \E a \in Senders : SetBlocked(a) \/ IntervalEnds(a)
           \/ NewDay \/ UNCHANGED legacyVars
  <2>1. queue' = queue /\ delayed \subseteq delayed' /\ moved' \subseteq moved
    BY <1>5 DEF PollRead, PollerDies, ManualRetry, PushDelayed, DelayEnds, SetBlocked, IntervalEnds, NewDay, legacyVars, queueVars
  <2> QED BY <1>2, <2>1
<1> QED BY <1>3, <1>4, <1>5 DEF LegacyNext, Environment, Poll

\* What has been swept away stays so.
LEMMA SweptByOthers ==
  ASSUME [LegacyNext]_legacyVars, ~\E w \in Workers : WorkerStep(w) \/ DbError(w) \/ Crash(w)
  PROVE  swept \subseteq swept'
  BY DEF LegacyNext, Environment, Poll, PollRead, PollPush, PollRemove, PollerDies, ManualRetry, PushDelayed, DelayEnds, SetBlocked,
    IntervalEnds, NewDay, legacyVars, queueVars

\* What is settled stays settled, unless the operator wants it tried again: then it is listed.
LEMMA SettledByOthers ==
  ASSUME LegacyTyped, NEW pa \in Deliveries, Settled(pa), [LegacyNext]_legacyVars,
         ~\E w \in Workers : WorkerStep(w) \/ DbError(w) \/ Crash(w)
  PROVE  Settled(pa)' \/ Listed(pa)'
<1>0. OthersStep
  BY OthersAre
<1>1. CASE pubRows'[pa] = pubRows[pa]
  BY <1>0, <1>1, SettledStays DEF OthersStep
<1>2. ASSUME NEW pb \in Deliveries, ManualRetry(pb), pubRows'[pa] # pubRows[pa] PROVE Listed(pa)'
  <2>1. PICK n \in 1..Len(pubRows[pb]) : /\ pubRows[pb][n].status # "published"
                                         /\ pubRows' = [pubRows EXCEPT ![pb][n].status = "retrying"]
    BY <1>2 DEF ManualRetry, Retryable
  <2>2. pa = pb
    BY <1>2, <2>1, MarkedRows DEF LegacyTyped, OtherRows
  <2> DEFINE i == [packet |-> pa[1], accounts |-> {pa[2]}]
  <2>3. i \in Items /\ i.packet = pa[1] /\ pa[2] \in i.accounts
    BY DEF Items, Deliveries
  <2>4. PushDelayed(i)
    BY <1>2, <2>2 DEF ManualRetry
  <2> HIDE DEF i
  <2>5. i \in delayed' \ moved'
    BY <2>4 DEF PushDelayed
  <2> QED BY <2>3, <2>5 DEF Listed
<1>3. (\E pb \in Deliveries : ManualRetry(pb)) \/ pubRows' = pubRows
  BY DEF LegacyNext, Environment, Poll, PollRead, PollPush, PollRemove, PollerDies, DelayEnds, SetBlocked,
    IntervalEnds, NewDay, legacyVars
<1> QED BY <1>1, <1>2, <1>3

\* A step of the others loses sight of no delivery.
LEMMA FollowedByOthers ==
  ASSUME LegacyTyped, NEW pa \in Deliveries, Followed(pa), [LegacyNext]_legacyVars,
         ~\E w \in Workers : WorkerStep(w) \/ DbError(w) \/ Crash(w)
  PROVE  Followed(pa)'
<1>1. swept \subseteq swept' /\ worker' = worker
  BY OthersAre, SweptByOthers DEF OthersStep
<1>2. CASE Settled(pa) \/ Listed(pa)
  BY <1>2, SettledByOthers, ListedByOthers DEF Followed
<1>3. CASE Swept(pa)
  BY <1>1, <1>3 DEF Swept, Followed
<1>4. CASE \E w \in Workers : InHand(worker[w], pa)
  BY <1>1, <1>4 DEF Followed
<1> QED BY <1>2, <1>3, <1>4 DEF Followed

\* At the start every packet is in content:ready for its accounts.
LEMMA InitFollowed == LegacyInit => OnItsWay
<1> SUFFICES ASSUME LegacyInit, NEW pa \in Deliveries, pa[2] \in TargetsOf[pa[1]] PROVE Followed(pa)
  BY DEF OnItsWay
<1> DEFINE i == [packet |-> pa[1], accounts |-> TargetsOf[pa[1]]]
<1>1. i \in Items /\ i.packet = pa[1] /\ i.accounts = TargetsOf[pa[1]]
  BY LegacyAssumption DEF LegacyAssumption, Items, Deliveries
<1> HIDE DEF i
<1>2. queue[i] = 1
  BY <1>1 DEF LegacyInit
<1>3. Listed(pa)
  BY <1>1, <1>2 DEF Listed
<1> QED BY <1>3 DEF Followed

\* A delivery that is followed is settled, carried or swept.
LEMMA FollowedKnown ==
  ASSUME LegacyTyped, OnItsWay
  PROVE  NothingLostUnlessSwept
<1> SUFFICES ASSUME crashes + dbErrors = 0, NEW p \in Packets, NEW a \in TargetsOf[p]
             PROVE  Settled(<<p, a>>) \/ Carried(<<p, a>>) \/ \E i \in swept : i.packet = p
  BY DEF NothingLostUnlessSwept
<1>1. PICK pa \in Deliveries : pa = <<p, a>>
  BY LegacyAssumption DEF LegacyAssumption, Deliveries
<1>2. dbErrors + crashes = 0
  BY DEF LegacyTyped, CountsTyped
<1>3. Followed(pa) /\ pa[1] = p /\ pa[2] = a
  BY <1>1, <1>2 DEF OnItsWay
<1>4. Listed(pa) \/ (\E w \in Workers : InHand(worker[w], pa)) => Carried(pa)
  BY DEF Listed, InHand, Carried
<1> QED BY <1>1, <1>3, <1>4 DEF Followed, Swept

-----------------------------------------------------------------------------
(* Posts, tries and losses together.                                       *)

DeliveriesFollowed == HeldAlone /\ SentOnce /\ TriesNoted /\ OnItsWay

\* Every step keeps the four facts.
LEMMA DeliveriesStep ==
  ASSUME LegacyTyped, LegacyTyped', DeliveriesFollowed, [LegacyNext]_legacyVars
  PROVE  DeliveriesFollowed'
<1>1. ASSUME NEW w \in Workers, WorkerStep(w) \/ DbError(w) \/ Crash(w) PROVE DeliveriesFollowed'
  <2>1. HeldAlone' /\ SentOnce'
    BY <1>1, AloneStep, OnceStep DEF DeliveriesFollowed
  <2>2. shared \subseteq shared'
    BY <1>1, WorkerMoves
  <2>3. TriesNoted'
    <3> SUFFICES ASSUME dbErrors' + crashes' = 0, NEW pa \in Deliveries, pa[1] \notin shared' PROVE Tried(pa)'
      BY DEF TriesNoted
    <3>1. WorkerStep(w) /\ dbErrors + crashes = 0
      BY <1>1, FaultsKept
    <3>2. pa[1] \notin shared /\ Tried(pa) /\ HeldAlone
      BY <2>2, <3>1 DEF DeliveriesFollowed, TriesNoted
    <3> QED BY <3>1, <3>2, TriedByWorker
  <2>4. OnItsWay'
    <3> SUFFICES ASSUME dbErrors' + crashes' = 0, NEW pa \in Deliveries, pa[2] \in TargetsOf[pa[1]] PROVE Followed(pa)'
      BY DEF OnItsWay
    <3>1. WorkerStep(w) /\ dbErrors + crashes = 0
      BY <1>1, FaultsKept
    <3>2. Followed(pa)
      BY <3>1 DEF DeliveriesFollowed, OnItsWay
    <3> QED BY <3>1, <3>2, FollowedByWorker
  <2> QED BY <2>1, <2>3, <2>4 DEF DeliveriesFollowed
<1>2. ASSUME ~\E w \in Workers : WorkerStep(w) \/ DbError(w) \/ Crash(w) PROVE DeliveriesFollowed'
  <2>0. OthersStep
    BY <1>2, OthersAre
  <2>1. HeldAlone' /\ SentOnce'
    BY <2>0, OthersOnce DEF DeliveriesFollowed
  <2>2. TriesNoted'
    <3> SUFFICES ASSUME dbErrors' + crashes' = 0, NEW pa \in Deliveries, pa[1] \notin shared' PROVE Tried(pa)'
      BY DEF TriesNoted
    <3>1. dbErrors + crashes = 0 /\ pa[1] \notin shared
      BY <2>0, FaultsKept DEF OthersStep
    <3>2. Tried(pa)
      BY <3>1 DEF DeliveriesFollowed, TriesNoted
    <3> QED BY <2>0, <3>2, OthersTried
  <2>3. OnItsWay'
    <3> SUFFICES ASSUME dbErrors' + crashes' = 0, NEW pa \in Deliveries, pa[2] \in TargetsOf[pa[1]] PROVE Followed(pa)'
      BY DEF OnItsWay
    <3>1. dbErrors + crashes = 0
      BY FaultsKept
    <3>2. Followed(pa)
      BY <3>1 DEF DeliveriesFollowed, OnItsWay
    <3> QED BY <1>2, <3>2, FollowedByOthers
  <2> QED BY <2>1, <2>2, <2>3 DEF DeliveriesFollowed
<1> QED BY <1>1, <1>2

\* A packet that no two workers have held is posted on an account once and at most once more for every
\* lost answer, failing statement and death; it is tried at most max_retries times after its first failure, unless two workers held it
\* or a fault interfered; and without faults none is lost but those a poller has swept away.
THEOREM DeliveriesKept == LegacySpec => []DeliveriesAccounted
<1>1. LegacyInit => DeliveriesFollowed
  BY InitOnce, InitTried, InitFollowed DEF DeliveriesFollowed
<1>2. LegacyTyped /\ LegacyTyped' /\ DeliveriesFollowed /\ [LegacyNext]_legacyVars => DeliveriesFollowed'
  BY DeliveriesStep
<1>3. LegacyTyped /\ DeliveriesFollowed => DeliveriesAccounted
  BY OncePosted, TriedWithin, FollowedKnown DEF DeliveriesFollowed, DeliveriesAccounted
<1> QED BY <1>1, <1>2, <1>3, LegacyTypedKept, PTL DEF LegacySpec

\* The posts of an account on a day exceed the warm-up limit by less than the calls of processPacket
\* that may run at a time, apart from posts that left no row.
THEOREM OverrunKept == LegacySpec => []WarmupOverrunBounded
<1>1. LegacyTyped /\ LegacyInvariant => WarmupOverrunBounded
  <2> SUFFICES ASSUME LegacyTyped, LegacyInvariant, NEW a \in Senders
               PROVE  today[a] <= WarmupLimit + Cardinality(Workers) - 1 + unlogged
    BY DEF WarmupOverrunBounded
  <2>1. Window(a) \in SUBSET Workers /\ Unwritten(a) \subseteq Window(a)
    BY DEF Window, Unwritten, WorkerAt
  <2>2. /\ Cardinality(Window(a)) \in Nat /\ Cardinality(Unwritten(a)) \in Nat /\ Cardinality(Workers) \in Nat
        /\ Cardinality(Unwritten(a)) <= Cardinality(Window(a))
    <3>1. IsFiniteSet(Workers) /\ IsFiniteSet(Window(a))
      BY <2>1, LegacyAssumption, FS_Subset DEF LegacyAssumption
    <3> QED BY <2>1, <3>1, FS_Subset, FS_CardinalityType
  <2>3. /\ published[a] + Cardinality(Window(a)) <= WarmupLimit + Cardinality(Workers) - 1
        /\ today[a] <= published[a] + Cardinality(Unwritten(a)) + unlogged
    BY DEF LegacyInvariant, PublishedBounded, TodayCounted
  <2>4. published[a] \in Nat /\ today[a] \in Nat /\ unlogged \in Nat /\ WarmupLimit \in Nat
    BY LegacyAssumption DEF LegacyTyped, CountsTyped, LegacyAssumption
  <2> QED BY <2>2, <2>3, <2>4
<1> QED BY <1>1, LegacyTypedKept, LegacyKept, PTL
=============================================================================
