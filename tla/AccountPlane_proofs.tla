------------------------ MODULE AccountPlane_proofs -------------------------
(***************************************************************************)
(* Proxies, personas and the care of accounts, for any number of rows,     *)
(* requests and tasks at a time.                                           *)
(***************************************************************************)
EXTENDS ProxyPool, AccountCare, FiniteSetTheorems, TLAPS

-----------------------------------------------------------------------------
(***************************************************************************)
(* ProxyPool, references. Every statement that writes a reference checks,  *)
(* in the step of its commit, that the row it refers to is there, whatever *)
(* was deleted since the request began; and every deletion clears what     *)
(* points at the row in the same step. What a request holds in its hands   *)
(* may be gone; what it writes is not. The invariant is inductive once it  *)
(* also says that the creation of an account knows the account's id.       *)
(***************************************************************************)

\* A creation has its account's id.
Named(t) == t.op \in {"create", "created"} => t.a \in Accounts

\* The requests in service.
RequestsTyped ==
  /\ request \in [Requests -> Todo]
  /\ \A r \in Requests : Named(request[r])
  /\ requested \in 0 .. MaxRequests

\* The rows.
RowsTyped ==
  /\ proxies \subseteq Proxies
  /\ active \in [Proxies -> BOOLEAN]
  /\ toAccount \in [Proxies -> Accounts \cup {None}]
  /\ toPersona \in [Proxies -> Personas \cup {None}]
  /\ accounts \subseteq Accounts
  /\ accountProxy \in [Accounts -> Proxies \cup {None}]
  /\ accountPersona \in [Accounts -> Personas \cup {None}]
  /\ personas \subseteq Personas
  /\ personaProxy \in [Personas -> Proxies \cup {None}]
  /\ dedicated \subseteq accounts
  /\ overtaken \subseteq accounts
  /\ racing \subseteq Requests

SweepTyped == sweep \subseteq Proxies /\ sweeps \in 0 .. MaxSweeps

RowsHeld == RequestsTyped /\ RowsTyped /\ SweepTyped /\ NoDangling

\* What an open transaction has updated stays until it commits, and it is the only one of its persona.
OpenHeld ==
  /\ \A r \in Requests :
        request[r].op = "giving" =>
          /\ request[r].p \in proxies /\ request[r].q \in personas
          /\ \A a \in request[r].took : a \in accounts /\ accountPersona[a] = request[r].q
  /\ \A r \in Requests, s \in Requests :
        request[r].op = "giving" /\ request[s].op = "giving" /\ request[r].q = request[s].q => r = s

PoolInductive == RowsHeld /\ OpenHeld

LEMMA InvariantFollows == PoolInductive => PoolInvariant
BY DEF PoolInductive, RowsHeld, PoolInvariant, TypeOK, RequestsTyped, RowsTyped, SweepTyped

-----------------------------------------------------------------------------
(* What a request has left to do.                                          *)

LEMMA IdleTyped == Idle \in Todo /\ Named(Idle)
BY DEF Idle, Todo, Operations, Named

\* What it may hold in its hands.
LEMMA TodoFields ==
  ASSUME RequestsTyped, NEW r \in Requests
  PROVE  /\ request[r] \in Todo
         /\ request[r].a \in Accounts \cup {None}
         /\ request[r].p \in Proxies \cup {None}
         /\ request[r].q \in Personas \cup {None}
         /\ request[r].cleared \in SUBSET Proxies /\ request[r].took \in SUBSET Accounts
BY DEF RequestsTyped, Todo

\* A request that goes on has the fields it had, but for those that the step replaces.
LEMMA TodoKept ==
  ASSUME NEW t \in Todo, NEW op \in Operations
  PROVE  /\ [t EXCEPT !.op = op] \in Todo
         /\ \A p \in Proxies \cup {None} : [t EXCEPT !.op = op, !.p = p] \in Todo
         /\ \A p \in Proxies \cup {None}, q \in Personas \cup {None} :
                [t EXCEPT !.op = op, !.p = p, !.q = q] \in Todo
         /\ \A cleared \in SUBSET Proxies : [t EXCEPT !.op = op, !.cleared = cleared] \in Todo
         /\ \A cleared \in SUBSET Proxies, took \in SUBSET Accounts :
                [t EXCEPT !.op = op, !.took = took, !.cleared = cleared] \in Todo
BY DEF Todo

LEMMA TodoBegun ==
  ASSUME NEW op \in Operations
  PROVE  /\ \A a \in Accounts : [Idle EXCEPT !.op = op, !.a = a] \in Todo
         /\ \A p \in Proxies : [Idle EXCEPT !.op = op, !.p = p] \in Todo
         /\ \A a \in Accounts, p \in Proxies : [Idle EXCEPT !.op = op, !.a = a, !.p = p] \in Todo
         /\ \A q \in Personas, p \in Proxies \cup {None} :
                [Idle EXCEPT !.op = op, !.p = p, !.q = q] \in Todo
         /\ \A a \in Accounts, q \in Personas, p \in Proxies \cup {None} :
                [Idle EXCEPT !.op = op, !.a = a, !.q = q, !.p = p] \in Todo
BY DEF Todo, Idle

\* A request is taken up, goes on, or is served at once.
LEMMA QueueKept ==
  ASSUME RequestsTyped, NEW r \in Requests, NEW todo \in Todo, Named(todo)
  PROVE  /\ Begin(r, todo) => RequestsTyped'
         /\ Continue(r, todo) => RequestsTyped'
         /\ Answer(r) => RequestsTyped'
         /\ Serve(r) => RequestsTyped'
BY PoolAssumption, IdleTyped DEF RequestsTyped, Begin, Continue, Answer, Serve

-----------------------------------------------------------------------------
(* One lemma per statement.                                                *)

\* A new proxy has nobody pointing at it.
LEMMA CreateProxyKept ==
  ASSUME PoolInductive, NEW r \in Requests, NEW p \in Proxies,
         CreateProxy(r, p)
  PROVE  RowsHeld'
<1>1. RequestsTyped'
  BY IdleTyped, QueueKept DEF PoolInductive, RowsHeld, CreateProxy
<1>2. RowsTyped'
  BY PoolAssumption DEF PoolInductive, RowsHeld, RowsTyped, NoDangling, rows, holders, marks, CreateProxy
<1>3. NoDangling'
  BY PoolAssumption DEF PoolInductive, RowsHeld, RowsTyped, NoDangling, rows, holders, marks, CreateProxy
<1>4. SweepTyped'
  BY DEF PoolInductive, RowsHeld, SweepTyped, CreateProxy
<1> QED BY <1>1, <1>2, <1>3, <1>4 DEF PoolInductive, RowsHeld

\* An operator's switch.
LEMMA UpdateProxyKept ==
  ASSUME PoolInductive, NEW r \in Requests, NEW p \in Proxies,
         UpdateProxy(r, p)
  PROVE  RowsHeld'
<1>1. RequestsTyped'
  BY IdleTyped, QueueKept DEF PoolInductive, RowsHeld, UpdateProxy
<1>2. RowsTyped'
  BY PoolAssumption DEF PoolInductive, RowsHeld, RowsTyped, NoDangling, rows, holders, marks, UpdateProxy
<1>3. NoDangling'
  BY PoolAssumption DEF PoolInductive, RowsHeld, RowsTyped, NoDangling, rows, holders, marks, UpdateProxy
<1>4. SweepTyped'
  BY DEF PoolInductive, RowsHeld, SweepTyped, UpdateProxy
<1> QED BY <1>1, <1>2, <1>3, <1>4 DEF PoolInductive, RowsHeld

\* The checks of a deletion change no row.
LEMMA DeleteProxyCheckKept ==
  ASSUME PoolInductive, NEW r \in Requests, NEW p \in Proxies,
         DeleteProxyCheck(r, p)
  PROVE  RowsHeld'
<1> DEFINE todo == [Idle EXCEPT !.op = "drop", !.p = p]
<1>a. "drop" \in Operations /\ p \in Proxies \cup {None}
  BY DEF PoolInductive, RowsHeld, Operations, RowsTyped
<1>0. todo \in Todo
  BY <1>a, TodoBegun, Zenon
<1>n. Named(todo)
  BY PoolAssumption DEF PoolInductive, RowsHeld, RequestsTyped, Named, Todo, Idle, DeleteProxyCheck
<1>1. RequestsTyped'
  BY <1>0, <1>n, QueueKept DEF PoolInductive, RowsHeld, DeleteProxyCheck
<1>2. RowsTyped'
  BY PoolAssumption DEF PoolInductive, RowsHeld, RowsTyped, NoDangling, rows, holders, marks, DeleteProxyCheck
<1>3. NoDangling'
  BY PoolAssumption DEF PoolInductive, RowsHeld, RowsTyped, NoDangling, rows, holders, marks, DeleteProxyCheck
<1>4. SweepTyped'
  BY DEF PoolInductive, RowsHeld, SweepTyped, DeleteProxyCheck
<1> QED BY <1>1, <1>2, <1>3, <1>4 DEF PoolInductive, RowsHeld

\* The DELETE clears the personas, and no account points at the proxy.
LEMMA DeleteProxyKept ==
  ASSUME PoolInductive, NEW r \in Requests,
         DeleteProxy(r)
  PROVE  RowsHeld'
<1>t. /\ request[r] \in Todo
      /\ request[r].a \in Accounts \cup {None}
      /\ request[r].p \in Proxies \cup {None}
      /\ request[r].q \in Personas \cup {None}
      /\ request[r].cleared \in SUBSET Proxies /\ request[r].took \in SUBSET Accounts
  BY TodoFields DEF PoolInductive, RowsHeld
<1>1. RequestsTyped'
  BY IdleTyped, QueueKept DEF PoolInductive, RowsHeld, DeleteProxy
<1>2. RowsTyped' /\ NoDangling'
  <2> DEFINE p == request[r].p
  <2>5. CASE p \notin proxies \/ Holders(p) # {}
    BY <2>5 DEF PoolInductive, RowsHeld, RowsTyped, NoDangling, rows, holders, marks, DeleteProxy
  <2>6. CASE p \in proxies /\ Holders(p) = {}
    <3>1. /\ proxies' = proxies \ {p}
          /\ active' = [active EXCEPT ![p] = FALSE]
          /\ toAccount' = [toAccount EXCEPT ![p] = None]
          /\ toPersona' = [toPersona EXCEPT ![p] = None]
          /\ personaProxy' = [q \in Personas |-> IF personaProxy[q] = p THEN None ELSE personaProxy[q]]
          /\ UNCHANGED <<accounts, accountProxy, accountPersona, personas, marks>>
      BY <2>6 DEF DeleteProxy
    <3>2. \A a \in Accounts : accountProxy[a] # p
      BY <2>6, PoolAssumption DEF PoolInductive, RowsHeld, RowsTyped, NoDangling, Holders
    <3> HIDE DEF p
    <3>3. active' \in [Proxies -> BOOLEAN] /\ \A x \in Proxies : x \notin proxies' => ~active'[x]
      BY <3>1 DEF PoolInductive, RowsHeld, RowsTyped, NoDangling
    <3> QED BY <2>6, <3>1, <3>2, <3>3 DEF PoolInductive, RowsHeld, RowsTyped, NoDangling, marks
  <2> QED BY <2>5, <2>6
<1>4. SweepTyped'
  BY DEF PoolInductive, RowsHeld, SweepTyped, DeleteProxy, Holders
<1> QED BY <1>1, <1>2, <1>4 DEF PoolInductive, RowsHeld

\* The proxies let go of an account in the transaction that deletes it.
LEMMA DeleteAccountKept ==
  ASSUME PoolInductive, NEW r \in Requests, NEW a \in Accounts,
         DeleteAccount(r, a)
  PROVE  RowsHeld'
<1>1. RequestsTyped'
  BY IdleTyped, QueueKept DEF PoolInductive, RowsHeld, DeleteAccount
<1>2. RowsTyped'
  BY PoolAssumption DEF PoolInductive, RowsHeld, RowsTyped, NoDangling, rows, holders, marks, DeleteAccount, Remove
<1>3. NoDangling'
  BY PoolAssumption DEF PoolInductive, RowsHeld, RowsTyped, NoDangling, rows, holders, marks, DeleteAccount, Remove
<1>4. SweepTyped'
  BY DEF PoolInductive, RowsHeld, SweepTyped, DeleteAccount, Remove
<1> QED BY <1>1, <1>2, <1>3, <1>4 DEF PoolInductive, RowsHeld

\* The checks of an assignment change no row.
LEMMA AssignCheckKept ==
  ASSUME PoolInductive, NEW r \in Requests, NEW a \in Accounts, NEW p \in Proxies,
         AssignCheck(r, a, p)
  PROVE  RowsHeld'
<1> DEFINE todo == [Idle EXCEPT !.op = "assign", !.a = a, !.p = p]
<1>a. "assign" \in Operations /\ p \in Proxies \cup {None}
  BY DEF PoolInductive, RowsHeld, Operations, RowsTyped
<1>0. todo \in Todo
  BY <1>a, TodoBegun, Zenon
<1>n. Named(todo)
  BY PoolAssumption DEF PoolInductive, RowsHeld, RequestsTyped, Named, Todo, Idle, AssignCheck
<1>1. RequestsTyped'
  BY <1>0, <1>n, QueueKept DEF PoolInductive, RowsHeld, AssignCheck
<1>2. RowsTyped'
  BY PoolAssumption DEF PoolInductive, RowsHeld, RowsTyped, NoDangling, rows, holders, marks, AssignCheck
<1>3. NoDangling'
  BY PoolAssumption DEF PoolInductive, RowsHeld, RowsTyped, NoDangling, rows, holders, marks, AssignCheck
<1>4. SweepTyped'
  BY DEF PoolInductive, RowsHeld, SweepTyped, AssignCheck
<1> QED BY <1>1, <1>2, <1>3, <1>4 DEF PoolInductive, RowsHeld

\* Its first UPDATE remembers which proxies it has seen pointing at the account.
LEMMA AssignClearKept ==
  ASSUME PoolInductive, NEW r \in Requests,
         AssignClear(r)
  PROVE  RowsHeld'
<1>t. /\ request[r] \in Todo
      /\ request[r].a \in Accounts \cup {None}
      /\ request[r].p \in Proxies \cup {None}
      /\ request[r].q \in Personas \cup {None}
      /\ request[r].cleared \in SUBSET Proxies /\ request[r].took \in SUBSET Accounts
  BY TodoFields DEF PoolInductive, RowsHeld
<1> DEFINE todo == [request[r] EXCEPT !.op = "assigning", !.cleared = Pointing(request[r].a)]
<1>a. "assigning" \in Operations /\ Pointing(request[r].a) \in SUBSET Proxies
  BY DEF PoolInductive, RowsHeld, Operations, RowsTyped, Pointing
<1>0. todo \in Todo
  BY <1>a, <1>t, TodoKept, IdleTyped, Zenon
<1>n. Named(todo)
  BY <1>t, PoolAssumption DEF PoolInductive, RowsHeld, RequestsTyped, Named, Todo, Idle, AssignClear
<1>1. RequestsTyped'
  BY <1>0, <1>n, QueueKept DEF PoolInductive, RowsHeld, AssignClear
<1>2. RowsTyped'
  BY <1>t, PoolAssumption DEF PoolInductive, RowsHeld, RowsTyped, NoDangling, rows, holders, marks, AssignClear
<1>3. NoDangling'
  BY <1>t, PoolAssumption DEF PoolInductive, RowsHeld, RowsTyped, NoDangling, rows, holders, marks, AssignClear
<1>4. SweepTyped'
  BY DEF PoolInductive, RowsHeld, SweepTyped, AssignClear
<1> QED BY <1>1, <1>2, <1>3, <1>4 DEF PoolInductive, RowsHeld

\* Its commit finds account and proxy in place, or does nothing.
LEMMA AssignCommitKept ==
  ASSUME PoolInductive, NEW r \in Requests,
         AssignCommit(r)
  PROVE  RowsHeld'
<1>t. /\ request[r] \in Todo
      /\ request[r].a \in Accounts \cup {None}
      /\ request[r].p \in Proxies \cup {None}
      /\ request[r].q \in Personas \cup {None}
      /\ request[r].cleared \in SUBSET Proxies /\ request[r].took \in SUBSET Accounts
  BY TodoFields DEF PoolInductive, RowsHeld
<1>1. RequestsTyped'
  BY IdleTyped, QueueKept DEF PoolInductive, RowsHeld, AssignCommit
<1>2. RowsTyped'
  BY <1>t, PoolAssumption DEF PoolInductive, RowsHeld, RowsTyped, NoDangling, rows, holders, marks, AssignCommit
<1>3. NoDangling'
  BY <1>t, PoolAssumption DEF PoolInductive, RowsHeld, RowsTyped, NoDangling, rows, holders, marks, AssignCommit
<1>4. SweepTyped'
  BY DEF PoolInductive, RowsHeld, SweepTyped, AssignCommit
<1> QED BY <1>1, <1>2, <1>3, <1>4 DEF PoolInductive, RowsHeld

\* The account lets go of its proxy.
LEMMA ReleaseAccountKept ==
  ASSUME PoolInductive, NEW r \in Requests, NEW a \in Accounts, NEW op \in {"release", "rotate"},
         ReleaseAccount(r, a, op)
  PROVE  RowsHeld'
<1> DEFINE todo == [Idle EXCEPT !.op = op, !.a = a]
<1>a. op \in Operations
  BY DEF PoolInductive, RowsHeld, Operations, RowsTyped
<1>0. todo \in Todo
  BY <1>a, TodoBegun, Zenon
<1>n. Named(todo)
  BY PoolAssumption DEF PoolInductive, RowsHeld, RequestsTyped, Named, Todo, Idle, ReleaseAccount
<1>1. RequestsTyped'
  BY <1>0, <1>n, QueueKept DEF PoolInductive, RowsHeld, ReleaseAccount
<1>2. RowsTyped'
  BY PoolAssumption DEF PoolInductive, RowsHeld, RowsTyped, NoDangling, rows, holders, marks, ReleaseAccount
<1>3. NoDangling'
  BY PoolAssumption DEF PoolInductive, RowsHeld, RowsTyped, NoDangling, rows, holders, marks, ReleaseAccount
<1>4. SweepTyped'
  BY DEF PoolInductive, RowsHeld, SweepTyped, ReleaseAccount
<1> QED BY <1>1, <1>2, <1>3, <1>4 DEF PoolInductive, RowsHeld

\* The proxies let go of the account.
LEMMA ReleaseProxiesKept ==
  ASSUME PoolInductive, NEW r \in Requests,
         ReleaseProxies(r)
  PROVE  RowsHeld'
<1>t. /\ request[r] \in Todo
      /\ request[r].a \in Accounts \cup {None}
      /\ request[r].p \in Proxies \cup {None}
      /\ request[r].q \in Personas \cup {None}
      /\ request[r].cleared \in SUBSET Proxies /\ request[r].took \in SUBSET Accounts
  BY TodoFields DEF PoolInductive, RowsHeld
<1> DEFINE todo == IF request[r].op = "rotate" THEN [request[r] EXCEPT !.op = "refill"] ELSE Idle
<1>a. "rotate" \in Operations /\ "refill" \in Operations
  BY DEF PoolInductive, RowsHeld, Operations, RowsTyped
<1>0. todo \in Todo
  BY <1>a, <1>t, TodoKept, IdleTyped, Zenon
<1>n. Named(todo)
  BY <1>t, PoolAssumption DEF PoolInductive, RowsHeld, RequestsTyped, Named, Todo, Idle, ReleaseProxies
<1>1. RequestsTyped'
  BY <1>0, <1>n, QueueKept DEF PoolInductive, RowsHeld, ReleaseProxies
<1>2. RowsTyped'
  BY <1>t, PoolAssumption DEF PoolInductive, RowsHeld, RowsTyped, NoDangling, rows, holders, marks, ReleaseProxies
<1>3. NoDangling'
  BY <1>t, PoolAssumption DEF PoolInductive, RowsHeld, RowsTyped, NoDangling, rows, holders, marks, ReleaseProxies
<1>4. SweepTyped'
  BY DEF PoolInductive, RowsHeld, SweepTyped, ReleaseProxies
<1> QED BY <1>1, <1>2, <1>3, <1>4 DEF PoolInductive, RowsHeld

\* A rotation's second half writes nothing.
LEMMA RefillKept ==
  ASSUME PoolInductive, NEW r \in Requests,
         Refill(r)
  PROVE  RowsHeld'
<1>t. /\ request[r] \in Todo
      /\ request[r].a \in Accounts \cup {None}
      /\ request[r].p \in Proxies \cup {None}
      /\ request[r].q \in Personas \cup {None}
      /\ request[r].cleared \in SUBSET Proxies /\ request[r].took \in SUBSET Accounts
  BY TodoFields DEF PoolInductive, RowsHeld
<1>1. RequestsTyped'
  BY IdleTyped, QueueKept DEF PoolInductive, RowsHeld, Refill
<1>2. RowsTyped'
  BY <1>t, PoolAssumption DEF PoolInductive, RowsHeld, RowsTyped, NoDangling, rows, holders, marks, Refill
<1>3. NoDangling'
  BY <1>t, PoolAssumption DEF PoolInductive, RowsHeld, RowsTyped, NoDangling, rows, holders, marks, Refill
<1>4. SweepTyped'
  BY DEF PoolInductive, RowsHeld, SweepTyped, Refill
<1> QED BY <1>1, <1>2, <1>3, <1>4 DEF PoolInductive, RowsHeld

\* A new account points at nothing.
LEMMA CreateAccountKept ==
  ASSUME PoolInductive, NEW r \in Requests, NEW a \in Accounts, NEW op \in {"create", "enrol"},
         CreateAccount(r, a, op)
  PROVE  RowsHeld'
<1> DEFINE todo == [Idle EXCEPT !.op = op, !.a = a]
<1>a. op \in Operations
  BY DEF PoolInductive, RowsHeld, Operations, RowsTyped
<1>0. todo \in Todo
  BY <1>a, TodoBegun, Zenon
<1>n. Named(todo)
  BY PoolAssumption DEF PoolInductive, RowsHeld, RequestsTyped, Named, Todo, Idle, CreateAccount
<1>1. RequestsTyped'
  BY <1>0, <1>n, QueueKept DEF PoolInductive, RowsHeld, CreateAccount
<1>2. RowsTyped'
  BY PoolAssumption DEF PoolInductive, RowsHeld, RowsTyped, NoDangling, rows, holders, marks, CreateAccount
<1>3. NoDangling'
  BY PoolAssumption DEF PoolInductive, RowsHeld, RowsTyped, NoDangling, rows, holders, marks, CreateAccount
<1>4. SweepTyped'
  BY DEF PoolInductive, RowsHeld, SweepTyped, CreateAccount
<1> QED BY <1>1, <1>2, <1>3, <1>4 DEF PoolInductive, RowsHeld

\* An automatic assignment throws.
LEMMA EnrolProxyKept ==
  ASSUME PoolInductive, NEW r \in Requests,
         EnrolProxy(r)
  PROVE  RowsHeld'
<1>t. /\ request[r] \in Todo
      /\ request[r].a \in Accounts \cup {None}
      /\ request[r].p \in Proxies \cup {None}
      /\ request[r].q \in Personas \cup {None}
      /\ request[r].cleared \in SUBSET Proxies /\ request[r].took \in SUBSET Accounts
  BY TodoFields DEF PoolInductive, RowsHeld
<1>1. RequestsTyped'
  BY IdleTyped, QueueKept DEF PoolInductive, RowsHeld, EnrolProxy
<1>2. RowsTyped'
  BY <1>t, PoolAssumption DEF PoolInductive, RowsHeld, RowsTyped, NoDangling, rows, holders, marks, EnrolProxy
<1>3. NoDangling'
  BY <1>t, PoolAssumption DEF PoolInductive, RowsHeld, RowsTyped, NoDangling, rows, holders, marks, EnrolProxy
<1>4. SweepTyped'
  BY DEF PoolInductive, RowsHeld, SweepTyped, EnrolProxy
<1> QED BY <1>1, <1>2, <1>3, <1>4 DEF PoolInductive, RowsHeld

\* POST /accounts looks at the account's proxy.
LEMMA CreateAssignKept ==
  ASSUME PoolInductive, NEW r \in Requests,
         CreateAssign(r)
  PROVE  RowsHeld'
<1>t. /\ request[r] \in Todo
      /\ request[r].a \in Accounts \cup {None}
      /\ request[r].p \in Proxies \cup {None}
      /\ request[r].q \in Personas \cup {None}
      /\ request[r].cleared \in SUBSET Proxies /\ request[r].took \in SUBSET Accounts
  BY TodoFields DEF PoolInductive, RowsHeld
<1> DEFINE todo == [request[r] EXCEPT !.op = IF Sticky(request[r].a) THEN "created" ELSE "undo"]
<1>a. (IF Sticky(request[r].a) THEN "created" ELSE "undo") \in Operations
  BY DEF PoolInductive, RowsHeld, Operations, RowsTyped
<1>0. todo \in Todo
  BY <1>a, <1>t, TodoKept, IdleTyped, Zenon
<1>n. Named(todo)
  BY <1>t, PoolAssumption DEF PoolInductive, RowsHeld, RequestsTyped, Named, Todo, Idle, CreateAssign
<1>1. RequestsTyped'
  BY <1>0, <1>n, QueueKept DEF PoolInductive, RowsHeld, CreateAssign
<1>2. RowsTyped'
  BY <1>t, PoolAssumption DEF PoolInductive, RowsHeld, RowsTyped, NoDangling, rows, holders, marks, CreateAssign
<1>3. NoDangling'
  BY <1>t, PoolAssumption DEF PoolInductive, RowsHeld, RowsTyped, NoDangling, rows, holders, marks, CreateAssign
<1>4. SweepTyped'
  BY DEF PoolInductive, RowsHeld, SweepTyped, CreateAssign
<1> QED BY <1>1, <1>2, <1>3, <1>4 DEF PoolInductive, RowsHeld

\* A persona is made with the proxy the account holds at that moment.
LEMMA CreateFoundKept ==
  ASSUME PoolInductive, NEW r \in Requests,
         CreateFound(r)
  PROVE  RowsHeld'
<1>t. /\ request[r] \in Todo
      /\ request[r].a \in Accounts \cup {None}
      /\ request[r].p \in Proxies \cup {None}
      /\ request[r].q \in Personas \cup {None}
      /\ request[r].cleared \in SUBSET Proxies /\ request[r].took \in SUBSET Accounts
  BY TodoFields DEF PoolInductive, RowsHeld
<1>1. RequestsTyped'
  <2>1. CASE Answer(r)
    BY <2>1, IdleTyped, QueueKept DEF PoolInductive, RowsHeld
  <2>2. CASE \E q \in Personas : Continue(r, [request[r] EXCEPT !.op = "found", !.p = accountProxy[request[r].a], !.q = q])
    <3>1. PICK q \in Personas : Continue(r, [request[r] EXCEPT !.op = "found", !.p = accountProxy[request[r].a], !.q = q])
      BY <2>2
    <3>2. request[r] \in Todo /\ request[r].a \in Accounts
      BY <1>t DEF PoolInductive, RowsHeld, RequestsTyped, Named, CreateFound
    <3>4. "found" \in Operations
      BY DEF Operations
    <3>5. accountProxy[request[r].a] \in Proxies \cup {None} /\ q \in Personas \cup {None}
      BY <3>2 DEF PoolInductive, RowsHeld, RowsTyped
    <3>3. [request[r] EXCEPT !.op = "found", !.p = accountProxy[request[r].a], !.q = q] \in Todo
      BY <3>2, <3>4, <3>5, TodoKept, Zenon
    <3>6. Named([request[r] EXCEPT !.op = "found", !.p = accountProxy[request[r].a], !.q = q])
      BY <3>2 DEF Named, Todo
    <3> QED BY <3>1, <3>3, <3>6, QueueKept DEF PoolInductive, RowsHeld
  <2> QED BY <2>1, <2>2 DEF CreateFound
<1>2. RowsTyped' /\ NoDangling'
  <2>5. request[r].a \in Accounts
    BY <1>t DEF PoolInductive, RowsHeld, RequestsTyped, Named, CreateFound
  <2>6. CASE accountProxy[request[r].a] = None /\ UNCHANGED <<personas, personaProxy>>
    BY <2>6 DEF PoolInductive, RowsHeld, RowsTyped, NoDangling, rows, marks, CreateFound
  <2>7. CASE accountProxy[request[r].a] # None
    <3>1. PICK q \in Personas \ personas :
             /\ personas' = personas \cup {q}
             /\ personaProxy' = [personaProxy EXCEPT ![q] = accountProxy[request[r].a]]
      BY <2>7 DEF CreateFound
    <3>2. accountProxy[request[r].a] \in proxies
      BY <2>5, <2>7 DEF PoolInductive, RowsHeld, NoDangling
    <3>3. UNCHANGED <<rows, accounts, accountProxy, accountPersona, sweep, sweeps, marks>>
      BY DEF CreateFound
    <3> QED BY <3>1, <3>2, <3>3 DEF PoolInductive, RowsHeld, RowsTyped, NoDangling, rows, marks
  <2> QED BY <2>6, <2>7 DEF CreateFound
<1>4. SweepTyped'
  BY DEF PoolInductive, RowsHeld, SweepTyped, CreateFound
<1> QED BY <1>1, <1>2, <1>4 DEF PoolInductive, RowsHeld

\* An account whose creation failed is deleted like any other.
LEMMA CreateUndoKept ==
  ASSUME PoolInductive, NEW r \in Requests,
         CreateUndo(r)
  PROVE  RowsHeld'
<1>t. /\ request[r] \in Todo
      /\ request[r].a \in Accounts \cup {None}
      /\ request[r].p \in Proxies \cup {None}
      /\ request[r].q \in Personas \cup {None}
      /\ request[r].cleared \in SUBSET Proxies /\ request[r].took \in SUBSET Accounts
  BY TodoFields DEF PoolInductive, RowsHeld
<1>1. RequestsTyped'
  BY IdleTyped, QueueKept DEF PoolInductive, RowsHeld, CreateUndo
<1>2. RowsTyped'
  BY <1>t, PoolAssumption DEF PoolInductive, RowsHeld, RowsTyped, NoDangling, rows, holders, marks, CreateUndo, Remove
<1>3. NoDangling'
  BY <1>t, PoolAssumption DEF PoolInductive, RowsHeld, RowsTyped, NoDangling, rows, holders, marks, CreateUndo, Remove
<1>4. SweepTyped'
  BY DEF PoolInductive, RowsHeld, SweepTyped, CreateUndo, Remove
<1> QED BY <1>1, <1>2, <1>3, <1>4 DEF PoolInductive, RowsHeld

\* A persona is made with a proxy that is there.
LEMMA CreatePersonaKept ==
  ASSUME PoolInductive, NEW r \in Requests, NEW q \in Personas, NEW p \in Proxies \cup {None},
         CreatePersona(r, q, p)
  PROVE  RowsHeld'
<1> DEFINE todo == [Idle EXCEPT !.op = "found", !.p = p, !.q = q]
<1>a. "found" \in Operations
  BY DEF PoolInductive, RowsHeld, Operations, RowsTyped
<1>0. todo \in Todo
  BY <1>a, TodoBegun, Zenon
<1>n. Named(todo)
  BY PoolAssumption DEF PoolInductive, RowsHeld, RequestsTyped, Named, Todo, Idle, CreatePersona
<1>1. RequestsTyped'
  BY <1>0, <1>n, QueueKept DEF PoolInductive, RowsHeld, CreatePersona
<1>2. RowsTyped'
  BY PoolAssumption DEF PoolInductive, RowsHeld, RowsTyped, NoDangling, rows, holders, marks, CreatePersona
<1>3. NoDangling'
  BY PoolAssumption DEF PoolInductive, RowsHeld, RowsTyped, NoDangling, rows, holders, marks, CreatePersona
<1>4. SweepTyped'
  BY DEF PoolInductive, RowsHeld, SweepTyped, CreatePersona
<1> QED BY <1>1, <1>2, <1>3, <1>4 DEF PoolInductive, RowsHeld

\* The proxy points back if both are still there.
LEMMA FoundPersonaKept ==
  ASSUME PoolInductive, NEW r \in Requests,
         FoundPersona(r)
  PROVE  RowsHeld'
<1>t. /\ request[r] \in Todo
      /\ request[r].a \in Accounts \cup {None}
      /\ request[r].p \in Proxies \cup {None}
      /\ request[r].q \in Personas \cup {None}
      /\ request[r].cleared \in SUBSET Proxies /\ request[r].took \in SUBSET Accounts
  BY TodoFields DEF PoolInductive, RowsHeld
<1> DEFINE todo == IF request[r].a # None /\ request[r].q \in personas
                    THEN [request[r] EXCEPT !.op = "attach", !.p = personaProxy[request[r].q]] ELSE Idle
<1>a. "attach" \in Operations
  BY DEF PoolInductive, RowsHeld, Operations, RowsTyped
<1>b. request[r].q \in personas => personaProxy[request[r].q] \in Proxies \cup {None}
  BY DEF PoolInductive, RowsHeld, RowsTyped
<1>0. todo \in Todo
  BY <1>a, <1>b, <1>t, TodoKept, IdleTyped, Zenon
<1>n. Named(todo)
  BY <1>t, PoolAssumption DEF PoolInductive, RowsHeld, RequestsTyped, Named, Todo, Idle, FoundPersona
<1>1. RequestsTyped'
  BY <1>0, <1>n, QueueKept DEF PoolInductive, RowsHeld, FoundPersona
<1>2. RowsTyped'
  BY <1>t, PoolAssumption DEF PoolInductive, RowsHeld, RowsTyped, NoDangling, rows, holders, marks, FoundPersona
<1>3. NoDangling'
  BY <1>t, PoolAssumption DEF PoolInductive, RowsHeld, RowsTyped, NoDangling, rows, holders, marks, FoundPersona
<1>4. SweepTyped'
  BY DEF PoolInductive, RowsHeld, SweepTyped, FoundPersona
<1> QED BY <1>1, <1>2, <1>3, <1>4 DEF PoolInductive, RowsHeld

\* The checks change no row.
LEMMA GiveCheckKept ==
  ASSUME PoolInductive, NEW r \in Requests, NEW q \in Personas, NEW p \in Proxies,
         GiveCheck(r, q, p)
  PROVE  RowsHeld'
<1> DEFINE todo == [Idle EXCEPT !.op = "give", !.p = p, !.q = q]
<1>a. "give" \in Operations /\ p \in Proxies \cup {None}
  BY DEF PoolInductive, RowsHeld, Operations, RowsTyped
<1>0. todo \in Todo
  BY <1>a, TodoBegun, Zenon
<1>n. Named(todo)
  BY PoolAssumption DEF PoolInductive, RowsHeld, RequestsTyped, Named, Todo, Idle, GiveCheck
<1>1. RequestsTyped'
  BY <1>0, <1>n, QueueKept DEF PoolInductive, RowsHeld, GiveCheck
<1>2. RowsTyped'
  BY PoolAssumption DEF PoolInductive, RowsHeld, RowsTyped, NoDangling, rows, holders, marks, GiveCheck
<1>3. NoDangling'
  BY PoolAssumption DEF PoolInductive, RowsHeld, RowsTyped, NoDangling, rows, holders, marks, GiveCheck
<1>4. SweepTyped'
  BY DEF PoolInductive, RowsHeld, SweepTyped, GiveCheck
<1> QED BY <1>1, <1>2, <1>3, <1>4 DEF PoolInductive, RowsHeld

\* The accounts of the persona are taken.
LEMMA GiveUpdateKept ==
  ASSUME PoolInductive, NEW r \in Requests,
         GiveUpdate(r)
  PROVE  RowsHeld'
<1> DEFINE t == request[r]
           todo == [t EXCEPT !.op = "giving", !.took = {a \in accounts : accountPersona[a] = t.q},
                             !.cleared = {p \in proxies : toPersona[p] = t.q}]
<1>t. t \in Todo
  BY TodoFields DEF PoolInductive, RowsHeld
<1>a. /\ "giving" \in Operations
      /\ {a \in accounts : accountPersona[a] = t.q} \in SUBSET Accounts
      /\ {p \in proxies : toPersona[p] = t.q} \in SUBSET Proxies
  BY DEF PoolInductive, RowsHeld, Operations, RowsTyped
<1>0. todo \in Todo
  BY <1>a, <1>t, TodoKept, Zenon
<1>n. Named(todo)
  BY <1>t DEF Named, Todo
<1>1. RequestsTyped'
  <2>1. Answer(r) \/ Continue(r, todo)
    BY DEF GiveUpdate
  <2> HIDE DEF todo
  <2> QED BY <1>0, <1>n, <2>1, IdleTyped, QueueKept DEF PoolInductive, RowsHeld
<1>2. racing' \subseteq Requests
  BY DEF GiveUpdate, PoolInductive, RowsHeld, RowsTyped
<1>3. UNCHANGED <<rows, holders, sweep, sweeps, dedicated, overtaken>>
  BY DEF GiveUpdate
<1>4. RowsTyped' /\ NoDangling'
  BY <1>2, <1>3 DEF PoolInductive, RowsHeld, RowsTyped, NoDangling, rows, holders
<1>5. SweepTyped'
  BY <1>3 DEF PoolInductive, RowsHeld, SweepTyped
<1> QED BY <1>1, <1>4, <1>5 DEF RowsHeld

\* Persona, proxy and the accounts that were taken are still there.
LEMMA GiveCommitKept ==
  ASSUME PoolInductive, NEW r \in Requests,
         GiveCommit(r)
  PROVE  RowsHeld'
<1>t. /\ request[r] \in Todo
      /\ request[r].a \in Accounts \cup {None}
      /\ request[r].p \in Proxies \cup {None}
      /\ request[r].q \in Personas \cup {None}
      /\ request[r].cleared \in SUBSET Proxies /\ request[r].took \in SUBSET Accounts
  BY TodoFields DEF PoolInductive, RowsHeld
<1>o. /\ request[r].p \in proxies /\ request[r].q \in personas
      /\ \A a \in request[r].took : a \in accounts
  BY DEF PoolInductive, OpenHeld, GiveCommit
<1>1. RequestsTyped'
  BY IdleTyped, QueueKept DEF PoolInductive, RowsHeld, GiveCommit
<1>2. RowsTyped'
  BY <1>t, <1>o, PoolAssumption DEF PoolInductive, RowsHeld, RowsTyped, NoDangling, rows, holders, marks, GiveCommit
<1>3. NoDangling'
  BY <1>t, <1>o, PoolAssumption DEF PoolInductive, RowsHeld, RowsTyped, NoDangling, rows, holders, marks, GiveCommit
<1>4. SweepTyped'
  BY DEF PoolInductive, RowsHeld, SweepTyped, GiveCommit
<1> QED BY <1>1, <1>2, <1>3, <1>4 DEF PoolInductive, RowsHeld

\* The persona and its proxy are read.
LEMMA AttachReadKept ==
  ASSUME PoolInductive, NEW r \in Requests, NEW a \in Accounts, NEW q \in Personas,
         AttachRead(r, a, q)
  PROVE  RowsHeld'
<1> DEFINE todo == [Idle EXCEPT !.op = "attach", !.a = a, !.q = q, !.p = personaProxy[q]]
<1>a. "attach" \in Operations /\ personaProxy[q] \in Proxies \cup {None}
  BY DEF PoolInductive, RowsHeld, Operations, RowsTyped
<1>0. todo \in Todo
  BY <1>a, TodoBegun, Zenon
<1>n. Named(todo)
  BY PoolAssumption DEF PoolInductive, RowsHeld, RequestsTyped, Named, Todo, Idle, AttachRead
<1>1. RequestsTyped'
  BY <1>0, <1>n, QueueKept DEF PoolInductive, RowsHeld, AttachRead
<1>2. RowsTyped'
  BY PoolAssumption DEF PoolInductive, RowsHeld, RowsTyped, NoDangling, rows, holders, marks, AttachRead
<1>3. NoDangling'
  BY PoolAssumption DEF PoolInductive, RowsHeld, RowsTyped, NoDangling, rows, holders, marks, AttachRead
<1>4. SweepTyped'
  BY DEF PoolInductive, RowsHeld, SweepTyped, AttachRead
<1> QED BY <1>1, <1>2, <1>3, <1>4 DEF PoolInductive, RowsHeld

\* Both are written if they are still there.
LEMMA AttachWriteKept ==
  ASSUME PoolInductive, NEW r \in Requests,
         AttachWrite(r)
  PROVE  RowsHeld'
<1>t. /\ request[r] \in Todo
      /\ request[r].a \in Accounts \cup {None}
      /\ request[r].p \in Proxies \cup {None}
      /\ request[r].q \in Personas \cup {None}
      /\ request[r].cleared \in SUBSET Proxies /\ request[r].took \in SUBSET Accounts
  BY TodoFields DEF PoolInductive, RowsHeld
<1>1. RequestsTyped'
  BY IdleTyped, QueueKept DEF PoolInductive, RowsHeld, AttachWrite
<1>2. RowsTyped'
  BY <1>t, PoolAssumption DEF PoolInductive, RowsHeld, RowsTyped, NoDangling, rows, holders, marks, AttachWrite
<1>3. NoDangling'
  BY <1>t, PoolAssumption DEF PoolInductive, RowsHeld, RowsTyped, NoDangling, rows, holders, marks, AttachWrite
<1>4. SweepTyped'
  BY DEF PoolInductive, RowsHeld, SweepTyped, AttachWrite
<1> QED BY <1>1, <1>2, <1>3, <1>4 DEF PoolInductive, RowsHeld

\* Accounts and proxies let go of a persona that is deleted.
LEMMA DeletePersonaKept ==
  ASSUME PoolInductive, NEW r \in Requests, NEW q \in Personas,
         DeletePersona(r, q)
  PROVE  RowsHeld'
<1>1. RequestsTyped'
  BY IdleTyped, QueueKept DEF PoolInductive, RowsHeld, DeletePersona
<1>2. RowsTyped'
  BY PoolAssumption DEF PoolInductive, RowsHeld, RowsTyped, NoDangling, rows, holders, marks, DeletePersona
<1>3. NoDangling'
  BY PoolAssumption DEF PoolInductive, RowsHeld, RowsTyped, NoDangling, rows, holders, marks, DeletePersona
<1>4. SweepTyped'
  BY DEF PoolInductive, RowsHeld, SweepTyped, DeletePersona
<1> QED BY <1>1, <1>2, <1>3, <1>4 DEF PoolInductive, RowsHeld

-----------------------------------------------------------------------------
(* What an open transaction holds.                                         *)

\* A step that opens none, and leaves what the open ones have updated.
LEMMA OpenKept ==
  ASSUME PoolInductive,
         \A s \in Requests : request'[s].op = "giving" => request'[s] = request[s],
         \A s \in Requests : request[s].op = "giving" =>
             /\ request[s].p \in proxies' /\ request[s].q \in personas'
             /\ \A a \in request[s].took : a \in accounts' /\ accountPersona'[a] = accountPersona[a]
  PROVE  OpenHeld'
<1>1. ASSUME NEW s \in Requests, request'[s].op = "giving"
      PROVE  /\ request'[s] = request[s]
             /\ request'[s].p \in proxies' /\ request'[s].q \in personas'
             /\ \A a \in request'[s].took : a \in accounts' /\ accountPersona'[a] = request'[s].q
  BY <1>1 DEF PoolInductive, OpenHeld
<1> QED BY <1>1 DEF PoolInductive, OpenHeld

\* The same for a step that deletes nothing and moves no account.
LEMMA OpenStays ==
  ASSUME PoolInductive,
         \A s \in Requests : request'[s].op = "giving" => request'[s] = request[s],
         proxies \subseteq proxies', personas \subseteq personas', accounts \subseteq accounts',
         accountPersona' = accountPersona
  PROVE  OpenHeld'
BY OpenKept DEF PoolInductive, OpenHeld

\* What the requests have left to do after a step of one of them.
LEMMA WorkOf ==
  ASSUME PoolInductive, NEW r \in Requests, NEW todo
  PROVE  /\ Begin(r, todo) \/ Continue(r, todo) =>
              \A s \in Requests : request'[s] = IF s = r THEN todo ELSE request[s]
         /\ Serve(r) => request' = request
BY DEF PoolInductive, RowsHeld, RequestsTyped, Begin, Continue, Serve

\* Only GiveUpdate opens a transaction.
LEMMA OpensNone ==
  ASSUME PoolInductive, NEW r \in Requests, NEW todo, todo.op # "giving",
         Begin(r, todo) \/ Continue(r, todo)
  PROVE  \A s \in Requests : request'[s].op = "giving" => request'[s] = request[s]
BY WorkOf

\* A request that has been answered has opened none.
LEMMA IdleOp == Idle.op # "giving"
BY DEF Idle

\* The requests about proxies.
LEMMA ProxyOpen ==
  ASSUME PoolInductive, NEW r \in Requests, ProxyStep(r)
  PROVE  OpenHeld'
<1>1. ASSUME NEW p \in Proxies, CreateProxy(r, p) \/ UpdateProxy(r, p) PROVE OpenHeld'
  BY <1>1, WorkOf, OpenStays DEF CreateProxy, UpdateProxy, holders
<1>2. ASSUME NEW p \in Proxies, DeleteProxyCheck(r, p) PROVE OpenHeld'
  <2>0. [Idle EXCEPT !.op = "drop", !.p = p].op # "giving"
    BY DEF Idle
  <2>1. \A s \in Requests : request'[s].op = "giving" => request'[s] = request[s]
    BY <1>2, <2>0, OpensNone, IdleOp DEF DeleteProxyCheck
  <2> QED BY <1>2, <2>1, OpenStays DEF DeleteProxyCheck, rows, holders
<1>3. CASE DeleteProxy(r)
  <2>1. \A s \in Requests : request'[s].op = "giving" => request'[s] = request[s]
    BY <1>3, OpensNone, IdleOp DEF DeleteProxy, Answer
  <2>2. /\ proxies' = proxies \/ proxies' = proxies \ {request[r].p}
        /\ UNCHANGED <<accounts, accountPersona, personas>>
    BY <1>3 DEF DeleteProxy, rows, holders
  <2>3. \A s \in Requests : request[s].op = "giving" => request[s].p # request[r].p
    BY <1>3 DEF DeleteProxy
  <2> QED BY <2>1, <2>2, <2>3, OpenKept DEF PoolInductive, OpenHeld
<1> QED BY <1>1, <1>2, <1>3 DEF ProxyStep

\* The requests about accounts; a deletion waits for the transaction that has updated the account.
LEMMA AccountOpen ==
  ASSUME PoolInductive, NEW r \in Requests, AccountStep(r)
  PROVE  OpenHeld'
<1>0. ASSUME NEW a \in Accounts, Remove(a),
             \A s \in Requests : request'[s].op = "giving" => request'[s] = request[s]
      PROVE  OpenHeld'
  <2>1. /\ UNCHANGED <<proxies, personas>> /\ accounts' = accounts \ {a}
        /\ \A b \in Accounts : b # a => accountPersona'[b] = accountPersona[b]
    BY <1>0 DEF Remove, PoolInductive, RowsHeld, RowsTyped
  <2>2. ASSUME NEW s \in Requests, request[s].op = "giving", NEW b \in request[s].took
        PROVE  b # a /\ b \in Accounts
    BY <1>0, <2>2, TodoFields DEF Remove, Locked, PoolInductive, RowsHeld
  <2> QED BY <1>0, <2>1, <2>2, OpenKept DEF PoolInductive, OpenHeld
<1>1. ASSUME NEW a \in Accounts, DeleteAccount(r, a) PROVE OpenHeld'
  BY <1>0, <1>1, WorkOf DEF DeleteAccount
<1>2. ASSUME NEW a \in Accounts, NEW p \in Proxies, AssignCheck(r, a, p) PROVE OpenHeld'
  <2>0. [Idle EXCEPT !.op = "assign", !.a = a, !.p = p].op # "giving"
    BY DEF Idle
  <2>1. \A s \in Requests : request'[s].op = "giving" => request'[s] = request[s]
    BY <1>2, <2>0, OpensNone, IdleOp DEF AssignCheck
  <2> QED BY <1>2, <2>1, OpenStays DEF AssignCheck, rows, holders
<1>3. ASSUME NEW a \in Accounts, NEW op \in {"release", "rotate"}, ReleaseAccount(r, a, op) PROVE OpenHeld'
  <2>0. [Idle EXCEPT !.op = op, !.a = a].op # "giving"
    BY DEF Idle
  <2>1. \A s \in Requests : request'[s].op = "giving" => request'[s] = request[s]
    BY <1>3, <2>0, OpensNone, IdleOp DEF ReleaseAccount
  <2> QED BY <1>3, <2>1, OpenStays DEF ReleaseAccount, rows
<1>4. ASSUME NEW a \in Accounts, NEW op \in {"create", "enrol"}, CreateAccount(r, a, op) PROVE OpenHeld'
  <2>0. [Idle EXCEPT !.op = op, !.a = a].op # "giving"
    BY DEF Idle
  <2>1. \A s \in Requests : request'[s].op = "giving" => request'[s] = request[s]
    BY <1>4, <2>0, OpensNone, IdleOp DEF CreateAccount
  <2> QED BY <1>4, <2>1, OpenStays DEF CreateAccount, rows
<1>5. CASE AssignClear(r)
  <2>0. [request[r] EXCEPT !.op = "assigning", !.cleared = Pointing(request[r].a)].op # "giving"
    BY TodoFields DEF PoolInductive, RowsHeld, Todo
  <2>1. \A s \in Requests : request'[s].op = "giving" => request'[s] = request[s]
    BY <1>5, <2>0, OpensNone, IdleOp DEF AssignClear
  <2> QED BY <1>5, <2>1, OpenStays DEF AssignClear, rows, holders
<1>6. CASE AssignCommit(r) \/ Refill(r) \/ EnrolProxy(r)
  <2>1. \A s \in Requests : request'[s].op = "giving" => request'[s] = request[s]
    BY <1>6, OpensNone, IdleOp DEF AssignCommit, Refill, EnrolProxy, Answer
  <2> QED BY <1>6, <2>1, OpenStays DEF AssignCommit, Refill, EnrolProxy, rows, holders
<1>7. CASE ReleaseProxies(r)
  <2>1. Continue(r, Idle) \/ Continue(r, [request[r] EXCEPT !.op = "refill"])
    BY <1>7 DEF ReleaseProxies
  <2>0. [request[r] EXCEPT !.op = "refill"].op # "giving"
    BY TodoFields DEF PoolInductive, RowsHeld, Todo
  <2>2. \A s \in Requests : request'[s].op = "giving" => request'[s] = request[s]
    BY <2>1, <2>0, OpensNone, IdleOp
  <2> QED BY <1>7, <2>2, OpenStays DEF ReleaseProxies, holders
<1>8. CASE CreateAssign(r)
  <2> DEFINE op == IF Sticky(request[r].a) THEN "created" ELSE "undo"
  <2>1. Continue(r, [request[r] EXCEPT !.op = op]) /\ op # "giving"
    BY <1>8 DEF CreateAssign
  <2> HIDE DEF op
  <2>0. [request[r] EXCEPT !.op = op].op # "giving"
    BY <2>1, TodoFields DEF PoolInductive, RowsHeld, Todo
  <2>2. \A s \in Requests : request'[s].op = "giving" => request'[s] = request[s]
    BY <2>1, <2>0, OpensNone, IdleOp
  <2> QED BY <1>8, <2>2, OpenStays DEF CreateAssign, rows, holders
<1>9. CASE CreateFound(r)
  <2>1. CASE Answer(r) /\ UNCHANGED <<personas, personaProxy>>
    <3>1. \A s \in Requests : request'[s].op = "giving" => request'[s] = request[s]
      BY <2>1, OpensNone, IdleOp DEF Answer
    <3> QED BY <1>9, <2>1, <3>1, OpenStays DEF CreateFound, rows
  <2>2. CASE \E q \in Personas \ personas :
                /\ personas' = personas \cup {q}
                /\ Continue(r, [request[r] EXCEPT !.op = "found", !.p = accountProxy[request[r].a], !.q = q])
    <3>0. \A q : [request[r] EXCEPT !.op = "found", !.p = accountProxy[request[r].a], !.q = q].op # "giving"
      BY TodoFields DEF PoolInductive, RowsHeld, Todo
    <3>1. \A s \in Requests : request'[s].op = "giving" => request'[s] = request[s]
      BY <2>2, <3>0, OpensNone, IdleOp
    <3> QED BY <1>9, <2>2, <3>1, OpenStays DEF CreateFound, rows
  <2> QED BY <1>9, <2>1, <2>2 DEF CreateFound
<1>10. CASE CreateUndo(r)
  <2>1. \A s \in Requests : request'[s].op = "giving" => request'[s] = request[s]
    BY <1>10, OpensNone, IdleOp DEF CreateUndo, Answer
  <2>2. Remove(request[r].a)
    BY <1>10 DEF CreateUndo
  <2>3. CASE request[r].a \in Accounts
    BY <1>0, <2>1, <2>2, <2>3
  <2>4. CASE request[r].a \notin Accounts
    <3>1. /\ UNCHANGED <<proxies, personas>> /\ accounts' = accounts \ {request[r].a}
          /\ accountPersona' = [accountPersona EXCEPT ![request[r].a] = None]
      BY <2>2 DEF Remove
    <3>2. accounts \subseteq accounts' /\ accountPersona' = accountPersona
      BY <2>4, <3>1 DEF PoolInductive, RowsHeld, RowsTyped
    <3> QED BY <2>1, <3>1, <3>2, OpenStays
  <2> QED BY <2>3, <2>4
<1> QED BY <1>1, <1>2, <1>3, <1>4, <1>5, <1>6, <1>7, <1>8, <1>9, <1>10 DEF AccountStep

\* The transaction that opens has taken the accounts its persona has.
LEMMA GiveUpdateOpen ==
  ASSUME PoolInductive, NEW r \in Requests, GiveUpdate(r)
  PROVE  OpenHeld'
<1> DEFINE t == request[r]
           took == {a \in accounts : accountPersona[a] = t.q}
           todo == [t EXCEPT !.op = "giving", !.took = took, !.cleared = {p \in proxies : toPersona[p] = t.q}]
<1>0. UNCHANGED <<proxies, personas, accounts, accountPersona>>
  BY DEF GiveUpdate, rows, holders
<1>1. CASE t.p \in proxies /\ t.q \in personas
  <2>1. todo.op = "giving" /\ todo.p = t.p /\ todo.q = t.q /\ todo.took = took
    BY TodoFields DEF PoolInductive, RowsHeld, Todo
  <2>2. Continue(r, todo) /\ ~Giving(t.q)
    BY <1>1 DEF GiveUpdate
  <2> HIDE DEF todo
  <2>3. \A s \in Requests : request'[s] = IF s = r THEN todo ELSE request[s]
    BY <2>2, WorkOf
  <2>4. \A s \in Requests : request[s].op = "giving" => request[s].q # t.q
    BY <2>2 DEF Giving
  <2> QED BY <1>0, <1>1, <2>1, <2>3, <2>4 DEF PoolInductive, OpenHeld
<1>2. CASE ~(t.p \in proxies /\ t.q \in personas)
  <2>1. \A s \in Requests : request'[s].op = "giving" => request'[s] = request[s]
    BY <1>2, OpensNone, IdleOp DEF GiveUpdate, Answer
  <2> QED BY <1>0, <2>1, OpenStays
<1> QED BY <1>1, <1>2

\* The requests about personas.
LEMMA PersonaOpen ==
  ASSUME PoolInductive, NEW r \in Requests, PersonaStep(r)
  PROVE  OpenHeld'
<1>1. ASSUME NEW q \in Personas, DeletePersona(r, q) PROVE OpenHeld'
  <2>1. /\ request' = request /\ UNCHANGED <<proxies, accounts>> /\ personas' = personas \ {q}
        /\ \A a \in Accounts : accountPersona'[a] = IF accountPersona[a] = q THEN None ELSE accountPersona[a]
    BY <1>1, WorkOf DEF DeletePersona
  <2>2. ASSUME NEW s \in Requests, request[s].op = "giving"
        PROVE  request[s].q # q /\ request[s].took \subseteq Accounts
    BY <1>1, <2>2, TodoFields DEF DeletePersona, Giving, PoolInductive, RowsHeld
  <2>3. ASSUME NEW s \in Requests, request[s].op = "giving"
        PROVE  /\ request[s].p \in proxies' /\ request[s].q \in personas'
               /\ \A a \in request[s].took : a \in accounts' /\ accountPersona'[a] = accountPersona[a]
    BY <2>1, <2>2, <2>3 DEF PoolInductive, OpenHeld
  <2> QED BY <2>1, <2>3, OpenKept
<1>2. ASSUME NEW q \in Personas, NEW p \in Proxies \cup {None}, CreatePersona(r, q, p) PROVE OpenHeld'
  <2>0. [Idle EXCEPT !.op = "found", !.p = p, !.q = q].op # "giving"
    BY DEF Idle
  <2>1. \A s \in Requests : request'[s].op = "giving" => request'[s] = request[s]
    BY <1>2, <2>0, OpensNone, IdleOp DEF CreatePersona
  <2> QED BY <1>2, <2>1, OpenStays DEF CreatePersona, rows
<1>3. ASSUME NEW q \in Personas, NEW p \in Proxies, GiveCheck(r, q, p) PROVE OpenHeld'
  <2>0. [Idle EXCEPT !.op = "give", !.p = p, !.q = q].op # "giving"
    BY DEF Idle
  <2>1. \A s \in Requests : request'[s].op = "giving" => request'[s] = request[s]
    BY <1>3, <2>0, OpensNone, IdleOp DEF GiveCheck
  <2> QED BY <1>3, <2>1, OpenStays DEF GiveCheck, rows, holders
<1>4. ASSUME NEW q \in Personas, NEW a \in Accounts, AttachRead(r, a, q) PROVE OpenHeld'
  <2>0. [Idle EXCEPT !.op = "attach", !.a = a, !.q = q, !.p = personaProxy[q]].op # "giving"
    BY DEF Idle
  <2>1. \A s \in Requests : request'[s].op = "giving" => request'[s] = request[s]
    BY <1>4, <2>0, OpensNone, IdleOp DEF AttachRead
  <2> QED BY <1>4, <2>1, OpenStays DEF AttachRead, rows, holders
<1>5. CASE FoundPersona(r)
  <2>1. Continue(r, Idle) \/ Continue(r, [request[r] EXCEPT !.op = "attach", !.p = personaProxy[request[r].q]])
    BY <1>5 DEF FoundPersona
  <2>0. [request[r] EXCEPT !.op = "attach", !.p = personaProxy[request[r].q]].op # "giving"
    BY TodoFields DEF PoolInductive, RowsHeld, Todo
  <2>2. \A s \in Requests : request'[s].op = "giving" => request'[s] = request[s]
    BY <2>1, <2>0, OpensNone, IdleOp
  <2> QED BY <1>5, <2>2, OpenStays DEF FoundPersona, holders
<1>6. CASE GiveCommit(r)
  <2>1. \A s \in Requests : request'[s].op = "giving" => request'[s] = request[s]
    BY <1>6, OpensNone, IdleOp DEF GiveCommit, Answer
  <2> QED BY <1>6, <2>1, OpenStays DEF GiveCommit
<1>7. CASE AttachWrite(r)
  <2>1. \A s \in Requests : request'[s].op = "giving" => request'[s] = request[s]
    BY <1>7, OpensNone, IdleOp DEF AttachWrite, Answer
  <2>2. UNCHANGED <<proxies, accounts, personas>>
    BY <1>7 DEF AttachWrite, rows
  <2>3. \A a \in Accounts : a # request[r].a => accountPersona'[a] = accountPersona[a]
    BY <1>7 DEF AttachWrite, PoolInductive, RowsHeld, RowsTyped
  <2>4. ASSUME NEW s \in Requests, request[s].op = "giving", NEW a \in request[s].took
        PROVE  a # request[r].a /\ a \in Accounts
    BY <1>7, <2>4, TodoFields DEF AttachWrite, Locked, PoolInductive, RowsHeld
  <2> QED BY <2>1, <2>2, <2>3, <2>4, OpenKept DEF PoolInductive, OpenHeld
<1> QED BY <1>1, <1>2, <1>3, <1>4, <1>5, <1>6, <1>7, GiveUpdateOpen DEF PersonaStep

-----------------------------------------------------------------------------
(* The invariant.                                                          *)

\* The sweep that lists the proxies, and the test of one of them.
LEMMA SweepKept ==
  ASSUME PoolInductive, SweepStart \/ \E p \in Proxies : CheckProxyHealth(p)
  PROVE  RowsHeld'
<1>1. RequestsTyped'
  BY DEF PoolInductive, RowsHeld, RequestsTyped, SweepStart, CheckProxyHealth
<1>2. RowsTyped' /\ NoDangling'
  BY PoolAssumption DEF PoolInductive, RowsHeld, RowsTyped, SweepTyped, NoDangling, rows, holders, marks, SweepStart, CheckProxyHealth
<1>3. SweepTyped'
  BY PoolAssumption DEF PoolInductive, RowsHeld, SweepTyped, RowsTyped, SweepStart, CheckProxyHealth
<1> QED BY <1>1, <1>2, <1>3 DEF PoolInductive, RowsHeld

LEMMA InitHolds == Init => PoolInductive
<1> SUFFICES ASSUME Init PROVE PoolInductive
  OBVIOUS
<1>o. OpenHeld
  BY DEF Init, Idle, OpenHeld
<1>1. RequestsTyped /\ SweepTyped
  BY PoolAssumption, IdleTyped DEF Init, RequestsTyped, SweepTyped
<1>2. active \in [Proxies -> BOOLEAN]
  BY DEF Init
<1>3. \A p \in Proxies : p \notin proxies => ~active[p]
  BY Zenon DEF Init
<1>4. RowsTyped /\ NoDangling
  BY <1>2, <1>3, PoolAssumption DEF Init, RowsTyped, NoDangling
<1> QED BY <1>o, <1>1, <1>4 DEF PoolInductive, RowsHeld

LEMMA StepKeeps == PoolInductive /\ [Next]_vars => PoolInductive'
<1> SUFFICES ASSUME PoolInductive, [Next]_vars PROVE PoolInductive'
  OBVIOUS
<1>1. ASSUME NEW r \in Requests, ProxyStep(r) PROVE PoolInductive'
  BY <1>1, ProxyOpen, CreateProxyKept, UpdateProxyKept, DeleteProxyCheckKept, DeleteProxyKept DEF ProxyStep, PoolInductive
<1>2. ASSUME NEW r \in Requests, AccountStep(r) PROVE PoolInductive'
  <2> SUFFICES RowsHeld'
    BY <1>2, AccountOpen DEF PoolInductive
  <2>1. CASE \E a \in Accounts : DeleteAccount(r, a) \/ \E p \in Proxies : AssignCheck(r, a, p)
    BY <2>1, DeleteAccountKept, AssignCheckKept
  <2>2. CASE \E a \in Accounts : \/ \E op \in {"release", "rotate"} : ReleaseAccount(r, a, op)
                                 \/ \E op \in {"create", "enrol"} : CreateAccount(r, a, op)
    BY <2>2, ReleaseAccountKept, CreateAccountKept
  <2>3. CASE AssignClear(r) \/ AssignCommit(r) \/ ReleaseProxies(r) \/ Refill(r)
    BY <2>3, AssignClearKept, AssignCommitKept, ReleaseProxiesKept, RefillKept
  <2>4. CASE EnrolProxy(r) \/ CreateAssign(r) \/ CreateFound(r) \/ CreateUndo(r)
    BY <2>4, EnrolProxyKept, CreateAssignKept, CreateFoundKept, CreateUndoKept
  <2> QED BY <1>2, <2>1, <2>2, <2>3, <2>4 DEF AccountStep
<1>3. ASSUME NEW r \in Requests, PersonaStep(r) PROVE PoolInductive'
  BY <1>3, PersonaOpen, DeletePersonaKept, CreatePersonaKept, GiveCheckKept, AttachReadKept, FoundPersonaKept,
     GiveUpdateKept, GiveCommitKept, AttachWriteKept DEF PersonaStep, PoolInductive
<1>4. CASE SweepStart \/ \E p \in Proxies : CheckProxyHealth(p)
  <2>1. request' = request /\ UNCHANGED <<proxies, holders>>
    BY <1>4 DEF SweepStart, CheckProxyHealth, rows
  <2>2. OpenHeld'
    BY <2>1, OpenStays DEF holders
  <2> QED BY <1>4, <2>2, SweepKept DEF PoolInductive
<1>5. CASE UNCHANGED vars
  BY <1>5 DEF PoolInductive, RowsHeld, vars, rows, holders, marks, RequestsTyped, RowsTyped, SweepTyped, NoDangling, OpenHeld
<1> QED BY <1>1, <1>2, <1>3, <1>4, <1>5 DEF Next

\* Whatever is deleted while another request is about to write it, no proxy, account or persona
\* refers to a row that is gone (ProxyManager, personaService, AccountService), for any number of
\* rows, requests at a time, and sweeps.
THEOREM PoolKept == Spec => []PoolInvariant
BY InitHolds, StepKeeps, InvariantFollows, PTL DEF Spec

-----------------------------------------------------------------------------
(***************************************************************************)
(* ProxyPool, links. What assignments at the same time can do to the       *)
(* links: whoever holds too much is held by a request that has chosen and  *)
(* not yet written, and there are no more of those than requests. A        *)
(* function from the requests to the holders says so without counting. An  *)
(* account that strays from its persona was written by a request that an   *)
(* assignment to the persona overtook.                                     *)
(***************************************************************************)

\* The requests of R suffice to name every member of S.
Within(S, R) ==
  \E f \in [R -> Accounts \cup {None}] : \A x \in S : \E r \in R : f[r] = x

\* Account a is about to be given p by name.
Choosing(a, p) ==
  \E r \in Requests :
    /\ request[r].op \in {"assign", "assigning"}
    /\ request[r].a = a /\ request[r].p = p

\* The accounts that hold p because it was given to them by name, or are about to.
Claimed(p) ==
  {a \in Accounts : Choosing(a, p) \/ (a \in dedicated /\ accountProxy[a] = p)}

ClaimsHeld == \A p \in Proxies : Within(Claimed(p), Requests)

\* A request that is about to commit has cleared the pointer of p, if it is a's.
Seen(r, a, p) ==
  request[r].op = "assigning" /\ request[r].a = a => p \in request[r].cleared

\* Every proxy that points at an account is the last one that some request assigned to it.
PointersHeld ==
  \A a \in Accounts : \E f \in [Requests -> Proxies \cup {None}] :
    \A p \in Pointing(a) : \E r \in Requests : f[r] = p /\ Seen(r, a, p)

\* Request r is about to have an account join a persona with a proxy that it has no more, or while it
\* is being given another, and is not known for it.
Late(r) ==
  /\ request[r].op = "attach" /\ r \notin racing
  /\ \/ Giving(request[r].q)
     \/ /\ request[r].q \in personas
        /\ request[r].p \in proxies /\ request[r].p # personaProxy[request[r].q]

\* An open transaction has taken every account of its persona but those that joined since.
TakenAll(r) ==
  request[r].op = "giving" =>
    \A a \in accounts : accountPersona[a] = request[r].q => a \in request[r].took \cup overtaken

StraysHeld ==
  /\ \A r \in Requests : ~Late(r) /\ TakenAll(r)
  /\ \A q \in personas : Strays(q) \subseteq overtaken

LinksHeld == ClaimsHeld /\ PointersHeld /\ StraysHeld

\* Fewer need no more requests.
LEMMA WithinLess ==
  ASSUME NEW S, NEW R, Within(S, R), NEW T \in SUBSET S
  PROVE  Within(T, R)
BY DEF Within

\* What is named by a finite set of requests is no more than they are.
LEMMA NamedCount ==
  ASSUME NEW S, NEW R, IsFiniteSet(R), NEW f, NEW D, f \in [R -> D],
         \A x \in S : \E r \in R : f[r] = x
  PROVE  IsFiniteSet(S) /\ Cardinality(S) <= Cardinality(R)
<1> DEFINE Q == {r \in R : f[r] \in S}
           g == [r \in Q |-> f[r]]
<1>1. IsFiniteSet(Q) /\ Cardinality(Q) <= Cardinality(R) /\ Cardinality(Q) \in Nat /\ Cardinality(R) \in Nat
  BY FS_Subset, FS_CardinalityType
<1>2. g \in Surjection(Q, S)
  BY DEF Surjection
<1>3. IsFiniteSet(S) /\ Cardinality(S) <= Cardinality(Q) /\ Cardinality(S) \in Nat
  BY <1>1, <1>2, FS_Surjection, FS_CardinalityType
<1> QED BY <1>1, <1>3

\* What the requests name is no more than they are.
LEMMA WithinCount ==
  ASSUME NEW S, NEW R, IsFiniteSet(R), Within(S, R)
  PROVE  IsFiniteSet(S) /\ Cardinality(S) <= Cardinality(R)
<1>1. PICK f \in [R -> Accounts \cup {None}] : \A x \in S : \E r \in R : f[r] = x
  BY DEF Within
<1> QED BY <1>1, NamedCount

\* The three facts hold on while nothing is added to what they count.
LEMMA ClaimsShrink ==
  ASSUME ClaimsHeld, \A p \in Proxies : Claimed(p)' \subseteq Claimed(p)
  PROVE  ClaimsHeld'
<1> SUFFICES ASSUME NEW p \in Proxies PROVE Within(Claimed(p)', Requests)
  BY DEF ClaimsHeld, Within
<1> QED BY WithinLess DEF ClaimsHeld

\* A step after which fewer proxies point at an account, and no request has unseen one, keeps the pointers.
LEMMA PointersShrink ==
  ASSUME PointersHeld, \A a \in Accounts : Pointing(a)' \subseteq Pointing(a),
         \A r \in Requests : request'[r].op = "assigning" => request'[r] = request[r]
  PROVE  PointersHeld'
<1> SUFFICES ASSUME NEW a \in Accounts
             PROVE  \E f \in [Requests -> Proxies \cup {None}] :
                      \A p \in Pointing(a)' : \E r \in Requests : f[r] = p /\ Seen(r, a, p)'
  BY DEF PointersHeld
<1>1. PICK f \in [Requests -> Proxies \cup {None}] :
         \A p \in Pointing(a) : \E r \in Requests : f[r] = p /\ Seen(r, a, p)
  BY DEF PointersHeld
<1>2. \A r \in Requests, p \in Pointing(a) : Seen(r, a, p) => Seen(r, a, p)'
  BY DEF Seen
<1> QED BY <1>1, <1>2

-----------------------------------------------------------------------------
(* The steps, by what they change.                                         *)

\* The operations that end in a link.
Linking == {"assign", "assigning", "attach", "giving"}

\* A step that begins no operation of these and touches no link.
LEMMA QuietStep ==
  ASSUME LinksHeld, UNCHANGED <<proxies, toAccount, accounts, accountProxy, accountPersona, personas, personaProxy, marks>>,
         \A r \in Requests : request'[r] = request[r] \/ request'[r].op \notin Linking
  PROVE  LinksHeld'
<1>1. \A a \in Accounts, p \in Proxies : Choosing(a, p)' => Choosing(a, p)
  BY DEF Choosing, Linking
<1>3. ClaimsHeld'
  BY <1>1, ClaimsShrink DEF Claimed, LinksHeld, marks
<1>4. PointersHeld'
  BY PointersShrink DEF Pointing, LinksHeld, Linking
<1>5. StraysHeld'
  <2>1. \A r \in Requests : Late(r)' => Late(r)
    BY DEF Late, Giving, Linking, marks
  <2>2. \A r \in Requests : TakenAll(r)'
    BY DEF TakenAll, Linking, marks, LinksHeld, StraysHeld
  <2>3. \A q \in personas' : Strays(q)' \subseteq overtaken'
    BY DEF Strays, marks, LinksHeld, StraysHeld
  <2> QED BY <2>1, <2>2, <2>3 DEF LinksHeld, StraysHeld
<1> QED BY <1>3, <1>4, <1>5 DEF LinksHeld

\* The checks, the throwing assignments and the sweep touch no link.
LEMMA QuietSteps ==
  ASSUME PoolInductive, LinksHeld, NEW r \in Requests,
         \/ \E p \in Proxies : UpdateProxy(r, p) \/ DeleteProxyCheck(r, p)
         \/ \E q \in Personas, p \in Proxies : GiveCheck(r, q, p)
         \/ Refill(r) \/ EnrolProxy(r) \/ CreateAssign(r)
         \/ SweepStart \/ \E p \in Proxies : CheckProxyHealth(p)
         \/ UNCHANGED vars
  PROVE  LinksHeld'
<1> USE QuietStep DEF Linking
<1>1. CASE \E p \in Proxies : UpdateProxy(r, p)
  BY <1>1, WorkOf DEF UpdateProxy, holders
<1>2. CASE \E p \in Proxies : DeleteProxyCheck(r, p)
  <2>1. PICK p \in Proxies : DeleteProxyCheck(r, p)
    BY <1>2
  <2> DEFINE todo == [Idle EXCEPT !.op = "drop", !.p = p]
  <2>2. todo.op = "drop"
    BY DEF Idle
  <2>3. Begin(r, todo) /\ UNCHANGED <<rows, holders, marks>>
    BY <2>1 DEF DeleteProxyCheck
  <2> HIDE DEF todo
  <2>4. \A s \in Requests : request'[s] = request[s] \/ request'[s].op \notin Linking
    BY <2>2, <2>3, WorkOf
  <2> QED BY <2>3, <2>4 DEF rows, holders
<1>3. CASE \E q \in Personas, p \in Proxies : GiveCheck(r, q, p)
  <2>1. PICK q \in Personas, p \in Proxies : GiveCheck(r, q, p)
    BY <1>3
  <2> DEFINE todo == [Idle EXCEPT !.op = "give", !.p = p, !.q = q]
  <2>2. todo.op = "give"
    BY DEF Idle
  <2>3. Begin(r, todo) /\ UNCHANGED <<rows, holders, marks>>
    BY <2>1 DEF GiveCheck
  <2> HIDE DEF todo
  <2>4. \A s \in Requests : request'[s] = request[s] \/ request'[s].op \notin Linking
    BY <2>2, <2>3, WorkOf
  <2> QED BY <2>3, <2>4 DEF rows, holders
<1>4. CASE Refill(r) \/ EnrolProxy(r)
  <2>1. Continue(r, Idle) /\ UNCHANGED <<rows, holders, marks>>
    BY <1>4 DEF Refill, EnrolProxy, Answer
  <2>2. Idle.op \notin Linking
    BY DEF Idle
  <2>3. \A s \in Requests : request'[s] = request[s] \/ request'[s].op \notin Linking
    BY <2>1, <2>2, WorkOf
  <2> QED BY <2>1, <2>3 DEF rows, holders
<1>5. CASE CreateAssign(r)
  <2> DEFINE op == IF Sticky(request[r].a) THEN "created" ELSE "undo"
             todo == [request[r] EXCEPT !.op = op]
  <2>1. Continue(r, todo) /\ UNCHANGED <<rows, holders, marks>>
    BY <1>5 DEF CreateAssign
  <2>2. todo.op \notin Linking
    BY TodoFields DEF PoolInductive, RowsHeld, Todo
  <2> HIDE DEF todo
  <2>3. \A s \in Requests : request'[s] = request[s] \/ request'[s].op \notin Linking
    BY <2>1, <2>2, WorkOf
  <2> QED BY <2>1, <2>3 DEF rows, holders
<1>6. CASE SweepStart \/ (\E p \in Proxies : CheckProxyHealth(p)) \/ UNCHANGED vars
  BY <1>6 DEF SweepStart, CheckProxyHealth, vars, rows, holders
<1> QED BY <1>1, <1>2, <1>3, <1>4, <1>5, <1>6

\* A new proxy is one that no request has in its hands.
LEMMA CreateProxyLinks ==
  ASSUME PoolInductive, LinksHeld, NEW r \in Requests, NEW new \in Proxies, CreateProxy(r, new)
  PROVE  LinksHeld'
<1>1. request' = request /\ UNCHANGED <<toAccount, accounts, accountProxy, accountPersona, personas, personaProxy, marks>>
  BY WorkOf DEF CreateProxy, holders
<1>2. proxies' = proxies \cup {new} /\ new \notin proxies /\ \A s \in Requests : request[s].p # new
  BY DEF CreateProxy, Unused
<1>3. toAccount[new] = None
  BY <1>2 DEF PoolInductive, RowsHeld, NoDangling
<1>4. ClaimsHeld'
  BY <1>1, ClaimsShrink DEF Claimed, Choosing, LinksHeld, marks
<1>5. PointersHeld'
  <2>1. \A a \in Accounts : Pointing(a)' \subseteq Pointing(a)
    BY <1>1, <1>2, <1>3, PoolAssumption DEF Pointing, PoolAssumption
  <2> QED BY <1>1, <2>1, PointersShrink DEF LinksHeld
<1>6. StraysHeld'
  <2>1. \A s \in Requests : Late(s)' => Late(s)
    BY <1>1, <1>2 DEF Late, Giving, marks
  <2>2. \A s \in Requests : TakenAll(s)'
    BY <1>1 DEF TakenAll, marks, LinksHeld, StraysHeld
  <2>3. \A q \in personas' : Strays(q)' \subseteq overtaken'
    BY <1>1 DEF Strays, marks, LinksHeld, StraysHeld
  <2> QED BY <2>1, <2>2, <2>3 DEF LinksHeld, StraysHeld
<1> QED BY <1>4, <1>5, <1>6 DEF LinksHeld

\* A proxy goes that no account holds; the requests that hold it in their hands write nothing.
LEMMA DeleteProxyLinks ==
  ASSUME PoolInductive, LinksHeld, NEW r \in Requests, DeleteProxy(r)
  PROVE  LinksHeld'
<1> DEFINE gone == request[r].p
<1>w. \A s \in Requests : request'[s] = request[s] \/ request'[s] = Idle
  BY WorkOf DEF DeleteProxy, Answer
<1>i. Idle.op \notin Linking
  BY DEF Idle, Linking
<1>1. CASE gone \notin proxies \/ Holders(gone) # {}
  <2>1. UNCHANGED <<rows, holders, marks>>
    BY <1>1 DEF DeleteProxy
  <2> QED BY <1>w, <1>i, <2>1, QuietStep DEF rows, holders
<1>2. CASE gone \in proxies /\ Holders(gone) = {}
  <2>1. /\ proxies' = proxies \ {gone} /\ toAccount' = [toAccount EXCEPT ![gone] = None]
        /\ personaProxy' = [q \in Personas |-> IF personaProxy[q] = gone THEN None ELSE personaProxy[q]]
        /\ UNCHANGED <<accounts, accountProxy, accountPersona, personas, marks>>
    BY <1>2 DEF DeleteProxy
  <2>2. \A a \in accounts : accountProxy[a] # gone
    BY <1>2 DEF Holders
  <2> HIDE DEF gone
  <2>3. ClaimsHeld'
    BY <1>w, <1>i, <2>1, ClaimsShrink DEF Claimed, Choosing, LinksHeld, Linking, marks
  <2>4. PointersHeld'
    <3>1. \A a \in Accounts : Pointing(a)' \subseteq Pointing(a)
      BY <2>1 DEF Pointing, PoolInductive, RowsHeld, RowsTyped
    <3> QED BY <1>w, <1>i, <3>1, PointersShrink DEF LinksHeld, Linking
  <2>5. StraysHeld'
    <3>1. \A q \in personas : personaProxy'[q] = IF personaProxy[q] = gone THEN None ELSE personaProxy[q]
      BY <2>1 DEF PoolInductive, RowsHeld, RowsTyped
    <3>2. ASSUME NEW s \in Requests, Late(s)' PROVE Late(s)
      BY <1>w, <1>i, <2>1, <3>1, <3>2 DEF Late, Giving, Linking, marks
    <3>3. \A s \in Requests : TakenAll(s)'
      BY <1>w, <1>i, <2>1 DEF TakenAll, Linking, marks, LinksHeld, StraysHeld
    <3>4. ASSUME NEW q \in personas', NEW a \in Strays(q)' PROVE a \in overtaken'
      <4>1. a \in Strays(q)
        BY <2>1, <2>2, <3>1, <3>4 DEF Strays, marks
      <4> QED BY <2>1, <4>1 DEF marks, LinksHeld, StraysHeld
    <3> QED BY <3>2, <3>3, <3>4 DEF LinksHeld, StraysHeld
  <2> QED BY <2>3, <2>4, <2>5 DEF LinksHeld
<1> QED BY <1>1, <1>2

\* A choice is checked while no other account holds the proxy: those that are about to get it are
\* requests of their own.
LEMMA AssignCheckLinks ==
  ASSUME PoolInductive, LinksHeld, NEW r \in Requests, NEW a \in Accounts, NEW p \in Proxies, AssignCheck(r, a, p)
  PROVE  LinksHeld'
<1> DEFINE todo == [Idle EXCEPT !.op = "assign", !.a = a, !.p = p]
<1>1. todo.op = "assign" /\ todo.a = a /\ todo.p = p
  BY DEF Idle
<1>2. /\ Begin(r, todo) /\ Holders(p) \ {a} = {}
      /\ UNCHANGED <<proxies, toAccount, accounts, accountProxy, accountPersona, personas, personaProxy, marks>>
  BY DEF AssignCheck, Assignable, rows, holders
<1> HIDE DEF todo
<1>3. \A s \in Requests : request'[s] = IF s = r THEN todo ELSE request[s]
  BY <1>2, WorkOf
<1>4. ClaimsHeld'
  <2> SUFFICES ASSUME NEW x \in Proxies PROVE Within(Claimed(x)', Requests)
    BY DEF ClaimsHeld, Within
  <2>1. CASE x = p
    <3> DEFINE f == [s \in Requests |-> IF request'[s].a \in Accounts THEN request'[s].a ELSE None]
    <3>1. ASSUME NEW b \in Claimed(p)' PROVE \E s \in Requests : f[s] = b
      <4>1. b \in Accounts /\ (Choosing(b, p)' \/ (b \in dedicated /\ accountProxy[b] = p))
        BY <1>2, <3>1 DEF Claimed, marks
      <4>2. CASE Choosing(b, p)'
        BY <4>1, <4>2 DEF Choosing
      <4>3. CASE b \in dedicated /\ accountProxy[b] = p
        <5>1. b = a
          BY <1>2, <4>3 DEF Holders, PoolInductive, RowsHeld, RowsTyped
        <5> QED BY <1>1, <1>3, <5>1
      <4> QED BY <4>1, <4>2, <4>3
    <3>2. f \in [Requests -> Accounts \cup {None}]
      OBVIOUS
    <3> HIDE DEF f
    <3> QED BY <2>1, <3>1, <3>2 DEF Within
  <2>2. CASE x # p
    <3>1. \A b \in Accounts : Choosing(b, x)' => Choosing(b, x)
      BY <1>1, <1>3, <2>2 DEF Choosing
    <3>2. Claimed(x)' \subseteq Claimed(x)
      BY <1>2, <3>1 DEF Claimed, marks
    <3> QED BY <3>2, WithinLess DEF ClaimsHeld, LinksHeld
  <2> QED BY <2>1, <2>2
<1>5. PointersHeld'
  BY <1>1, <1>2, <1>3, PointersShrink DEF Pointing, LinksHeld
<1>6. StraysHeld'
  <2>1. \A s \in Requests : Late(s)' => Late(s)
    BY <1>1, <1>2, <1>3 DEF Late, Giving, marks
  <2>2. \A s \in Requests : TakenAll(s)'
    BY <1>1, <1>2, <1>3 DEF TakenAll, marks, LinksHeld, StraysHeld
  <2>3. \A q \in personas' : Strays(q)' \subseteq overtaken'
    BY <1>2 DEF Strays, marks, LinksHeld, StraysHeld
  <2> QED BY <2>1, <2>2, <2>3 DEF LinksHeld, StraysHeld
<1> QED BY <1>4, <1>5, <1>6 DEF LinksHeld

\* The request sees every pointer there is.
LEMMA AssignClearLinks ==
  ASSUME PoolInductive, LinksHeld, NEW r \in Requests, AssignClear(r)
  PROVE  LinksHeld'
<1> DEFINE todo == [request[r] EXCEPT !.op = "assigning", !.cleared = Pointing(request[r].a)]
<1>1. todo.op = "assigning" /\ todo.a = request[r].a /\ todo.p = request[r].p /\ todo.cleared = Pointing(request[r].a)
  BY TodoFields DEF PoolInductive, RowsHeld, Todo
<1>2. /\ Continue(r, todo) /\ request[r].op = "assign"
      /\ UNCHANGED <<proxies, toAccount, accounts, accountProxy, accountPersona, personas, personaProxy, marks>>
  BY DEF AssignClear, rows, holders
<1> HIDE DEF todo
<1>3. \A s \in Requests : request'[s] = IF s = r THEN todo ELSE request[s]
  BY <1>2, WorkOf
<1>4. ClaimsHeld'
  <2>1. \A a \in Accounts, p \in Proxies : Choosing(a, p)' => Choosing(a, p)
    BY <1>1, <1>2, <1>3 DEF Choosing
  <2> QED BY <1>2, <2>1, ClaimsShrink DEF Claimed, LinksHeld, marks
<1>5. PointersHeld'
  <2> SUFFICES ASSUME NEW a \in Accounts
               PROVE  \E f \in [Requests -> Proxies \cup {None}] :
                        \A p \in Pointing(a)' : \E s \in Requests : f[s] = p /\ Seen(s, a, p)'
    BY DEF PointersHeld
  <2>1. PICK f \in [Requests -> Proxies \cup {None}] :
           \A p \in Pointing(a) : \E s \in Requests : f[s] = p /\ Seen(s, a, p)
    BY DEF PointersHeld, LinksHeld
  <2>2. Pointing(a)' = Pointing(a)
    BY <1>2 DEF Pointing
  <2>3. \A s \in Requests, p \in Pointing(a) : Seen(s, a, p) => Seen(s, a, p)'
    BY <1>1, <1>3 DEF Seen
  <2> QED BY <2>1, <2>2, <2>3
<1>6. StraysHeld'
  <2>1. \A s \in Requests : Late(s)' => Late(s)
    BY <1>1, <1>2, <1>3 DEF Late, Giving, marks
  <2>2. \A s \in Requests : TakenAll(s)'
    BY <1>1, <1>2, <1>3 DEF TakenAll, marks, LinksHeld, StraysHeld
  <2>3. \A q \in personas' : Strays(q)' \subseteq overtaken'
    BY <1>2 DEF Strays, marks, LinksHeld, StraysHeld
  <2> QED BY <2>1, <2>2, <2>3 DEF LinksHeld, StraysHeld
<1> QED BY <1>4, <1>5, <1>6 DEF LinksHeld

\* The commit of an assignment: the account is one that was about to get the proxy, and of the
\* pointers at it only those remain that another request has set since.
LEMMA AssignCommitLinks ==
  ASSUME PoolInductive, LinksHeld, NEW r \in Requests, AssignCommit(r)
  PROVE  LinksHeld'
<1> DEFINE t == request[r]
<1>0. t.op = "assigning" /\ Continue(r, Idle) /\ Idle.op \notin Linking
  BY DEF AssignCommit, Answer, Idle, Linking
<1>w. \A s \in Requests : request'[s] = IF s = r THEN Idle ELSE request[s]
  BY <1>0, WorkOf
<1>1. UNCHANGED <<proxies, accounts, accountPersona, personas, personaProxy, overtaken, racing>>
  BY DEF AssignCommit
<1>2. CASE t.a \in accounts /\ t.p \in proxies
  <2>1. /\ toAccount' = [p \in Proxies |->
                           IF p = t.p THEN t.a
                           ELSE IF p \in t.cleared /\ toAccount[p] = t.a THEN None
                           ELSE toAccount[p]]
        /\ accountProxy' = [accountProxy EXCEPT ![t.a] = t.p]
        /\ dedicated' = dedicated \cup {t.a}
    BY <1>2 DEF AssignCommit
  <2>2. t.a \in Accounts /\ t.p \in Proxies /\ proxies \subseteq Proxies /\ t.a # None
    BY <1>2, PoolAssumption DEF PoolInductive, RowsHeld, RowsTyped, PoolAssumption
  <2>3. \A a \in Accounts : accountProxy'[a] = IF a = t.a THEN t.p ELSE accountProxy[a]
    BY <2>1, <2>2 DEF PoolInductive, RowsHeld, RowsTyped
  <2>4. \A p \in Proxies : toAccount'[p] = IF p = t.p THEN t.a
                                           ELSE IF p \in t.cleared /\ toAccount[p] = t.a THEN None
                                           ELSE toAccount[p]
    BY <2>1
  <2>5. Choosing(t.a, t.p)
    BY <1>0 DEF Choosing
  <2>6. \A s \in Requests : s # r => request'[s] = request[s]
    BY <1>w
  <2>7. request'[r].op \notin Linking
    BY <1>0, <1>w
  <2> HIDE DEF t
  <2>8. ClaimsHeld'
    <3>1. \A a \in Accounts, p \in Proxies : Choosing(a, p)' => Choosing(a, p)
      BY <2>6, <2>7 DEF Choosing, Linking
    <3>2. \A p \in Proxies : Claimed(p)' \subseteq Claimed(p)
      BY <2>1, <2>3, <2>5, <3>1 DEF Claimed
    <3> QED BY <3>2, ClaimsShrink DEF LinksHeld
  <2>9. PointersHeld'
    <3> SUFFICES ASSUME NEW a \in Accounts
                 PROVE  \E f \in [Requests -> Proxies \cup {None}] :
                          \A p \in Pointing(a)' : \E s \in Requests : f[s] = p /\ Seen(s, a, p)'
      BY DEF PointersHeld
    <3>1. PICK f \in [Requests -> Proxies \cup {None}] :
             \A p \in Pointing(a) : \E s \in Requests : f[s] = p /\ Seen(s, a, p)
      BY DEF PointersHeld, LinksHeld
    <3>a. \A s \in Requests, p \in Proxies : Seen(s, a, p) => Seen(s, a, p)'
      BY <2>6, <2>7 DEF Seen, Linking
    <3>2. CASE a = t.a
      <4> DEFINE g == [f EXCEPT ![r] = t.p]
      <4>1. g \in [Requests -> Proxies \cup {None}] /\ g[r] = t.p /\ \A s \in Requests : s # r => g[s] = f[s]
        BY <2>2
      <4> HIDE DEF g
      <4>2. ASSUME NEW p \in Pointing(a)' PROVE \E s \in Requests : g[s] = p /\ Seen(s, a, p)'
        <5>0. p \in Proxies /\ p \in proxies /\ toAccount'[p] = a
          BY <1>1, <2>2, <4>2 DEF Pointing
        <5>1. CASE p = t.p
          BY <2>7, <4>1, <5>1 DEF Seen, Linking
        <5>2. CASE p # t.p
          <6>1. p \in Pointing(a) /\ p \notin t.cleared
            BY <2>2, <2>4, <3>2, <5>0, <5>2 DEF Pointing
          <6>2. PICK s \in Requests : f[s] = p /\ Seen(s, a, p)
            BY <3>1, <6>1
          <6>3. s # r
            BY <1>0, <3>2, <6>1, <6>2 DEF Seen, t
          <6> QED BY <3>a, <4>1, <5>0, <6>2, <6>3
        <5> QED BY <5>1, <5>2
      <4> QED BY <4>1, <4>2
    <3>3. CASE a # t.a
      <4>1. Pointing(a)' \subseteq Pointing(a) /\ Pointing(a) \subseteq Proxies
        BY <1>1, <2>2, <2>4, <3>3, PoolAssumption DEF Pointing, PoolAssumption
      <4> QED BY <3>1, <3>a, <4>1
    <3> QED BY <3>2, <3>3
  <2>10. StraysHeld'
    <3>1. \A s \in Requests : Late(s)' => Late(s)
      BY <1>1, <2>6, <2>7 DEF Late, Giving, Linking
    <3>2. \A s \in Requests : TakenAll(s)'
      BY <1>1, <2>6, <2>7 DEF TakenAll, Linking, LinksHeld, StraysHeld
    <3>3. ASSUME NEW q \in personas', NEW a \in Strays(q)' PROVE a \in overtaken'
      <4>1. a \in Strays(q)
        BY <1>1, <2>1, <2>2, <2>3, <3>3 DEF Strays, PoolInductive, RowsHeld, RowsTyped
      <4> QED BY <1>1, <4>1 DEF LinksHeld, StraysHeld
    <3> QED BY <3>1, <3>2, <3>3 DEF LinksHeld, StraysHeld
  <2> QED BY <2>8, <2>9, <2>10 DEF LinksHeld
<1>3. CASE ~(t.a \in accounts /\ t.p \in proxies)
  <2>1. UNCHANGED <<toAccount, accountProxy, dedicated>>
    BY <1>3 DEF AssignCommit
  <2> QED BY <1>0, <1>1, <1>w, <2>1, QuietStep DEF marks
<1> QED BY <1>2, <1>3

\* A step that only undoes links.
LEMMA LoosenedStep ==
  ASSUME PoolInductive, LinksHeld, proxies' = proxies, personas' \subseteq personas, accounts' \subseteq Accounts,
         \A r \in Requests : request'[r] = request[r] \/ request'[r].op \notin Linking,
         \A a \in Accounts : /\ accountProxy'[a] \in {accountProxy[a], None}
                             /\ accountPersona'[a] \in {accountPersona[a], None}
                             /\ a \in dedicated /\ a \notin dedicated' => accountProxy'[a] = None,
         \A p \in Proxies : toAccount'[p] \in {toAccount[p], None},
         \A q \in personas' : personaProxy'[q] = personaProxy[q],
         dedicated' \subseteq dedicated, racing' = racing,
         \A a \in accounts' : a \in overtaken => a \in overtaken'
  PROVE  LinksHeld'
<1>t. /\ None \notin Accounts /\ None \notin Personas /\ None \notin Proxies
      /\ proxies \subseteq Proxies /\ personas \subseteq Personas /\ accounts' \subseteq Accounts
      /\ \A a \in Accounts : accountPersona[a] # None => a \in accounts
  BY PoolAssumption DEF PoolAssumption, PoolInductive, RowsHeld, RowsTyped, NoDangling
<1>1. ClaimsHeld'
  <2>1. \A a \in Accounts, p \in Proxies : Choosing(a, p)' => Choosing(a, p)
    BY DEF Choosing, Linking
  <2>2. \A p \in Proxies : Claimed(p)' \subseteq Claimed(p)
    BY <1>t, <2>1 DEF Claimed
  <2> QED BY <2>2, ClaimsShrink DEF LinksHeld
<1>2. PointersHeld'
  <2>1. \A a \in Accounts : Pointing(a)' \subseteq Pointing(a)
    BY <1>t DEF Pointing
  <2> QED BY <2>1, PointersShrink DEF LinksHeld, Linking
<1>3. StraysHeld'
  <2>1. \A s \in Requests : Late(s)' => Late(s)
    BY DEF Late, Giving, Linking
  <2>2. ASSUME NEW s \in Requests PROVE TakenAll(s)'
    <3> SUFFICES ASSUME request'[s].op = "giving", NEW a \in accounts', accountPersona'[a] = request'[s].q
                 PROVE  a \in request'[s].took \cup overtaken'
      BY DEF TakenAll
    <3>1. request'[s] = request[s] /\ request[s].q \in Personas
      BY <1>t DEF Linking, PoolInductive, OpenHeld
    <3>2. accountPersona[a] = request[s].q /\ a \in accounts
      BY <1>t, <3>1
    <3> QED BY <3>1, <3>2 DEF TakenAll, LinksHeld, StraysHeld
  <2>3. ASSUME NEW q \in personas', NEW a \in Strays(q)' PROVE a \in overtaken'
    <3>1. a \in Strays(q)
      BY <1>t, <2>3 DEF Strays
    <3> QED BY <2>3, <3>1 DEF Strays, LinksHeld, StraysHeld
  <2> QED BY <2>1, <2>2, <2>3 DEF LinksHeld, StraysHeld
<1> QED BY <1>1, <1>2, <1>3 DEF LinksHeld

\* The deletions and releases, which only clear links, and the creation of an account.
LEMMA LoosenedSteps ==
  ASSUME PoolInductive, LinksHeld, NEW r \in Requests,
         \/ \E a \in Accounts : \/ DeleteAccount(r, a)
                                \/ \E op \in {"release", "rotate"} : ReleaseAccount(r, a, op)
                                \/ \E op \in {"create", "enrol"} : CreateAccount(r, a, op)
         \/ ReleaseProxies(r) \/ CreateUndo(r)
         \/ \E q \in Personas : DeletePersona(r, q)
  PROVE  LinksHeld'
<1>i. Idle.op \notin Linking
  BY DEF Idle, Linking
<1>t. /\ accountProxy \in [Accounts -> Proxies \cup {None}] /\ accountPersona \in [Accounts -> Personas \cup {None}]
      /\ toAccount \in [Proxies -> Accounts \cup {None}] /\ personaProxy \in [Personas -> Proxies \cup {None}]
      /\ personas \subseteq Personas /\ accounts \subseteq Accounts
  BY DEF PoolInductive, RowsHeld, RowsTyped
<1>1. ASSUME NEW a, Remove(a), \A s \in Requests : request'[s] = request[s] \/ request'[s].op \notin Linking
      PROVE  LinksHeld'
  BY <1>1, <1>t, LoosenedStep DEF Remove, marks
<1>2. CASE \E a \in Accounts : DeleteAccount(r, a)
  BY <1>1, <1>2, WorkOf DEF DeleteAccount
<1>3. CASE CreateUndo(r)
  BY <1>1, <1>3, <1>i, WorkOf DEF CreateUndo, Answer
<1>4. ASSUME NEW a \in Accounts, NEW op \in {"release", "rotate"}, ReleaseAccount(r, a, op) PROVE LinksHeld'
  <2> DEFINE todo == [Idle EXCEPT !.op = op, !.a = a]
  <2>1. todo.op \notin Linking
    BY DEF Idle, Linking
  <2>2. /\ Begin(r, todo) /\ accountProxy' = [accountProxy EXCEPT ![a] = None] /\ dedicated' = dedicated \ {a}
        /\ UNCHANGED <<proxies, toAccount, accounts, accountPersona, personas, personaProxy, overtaken, racing>>
    BY <1>4 DEF ReleaseAccount, rows
  <2> HIDE DEF todo
  <2>3. \A s \in Requests : request'[s] = request[s] \/ request'[s].op \notin Linking
    BY <2>1, <2>2, WorkOf
  <2> QED BY <1>t, <2>2, <2>3, LoosenedStep DEF marks
<1>5. ASSUME NEW a \in Accounts, NEW op \in {"create", "enrol"}, CreateAccount(r, a, op) PROVE LinksHeld'
  <2> DEFINE todo == [Idle EXCEPT !.op = op, !.a = a]
  <2>1. todo.op \notin Linking
    BY DEF Idle, Linking
  <2>2. /\ Begin(r, todo)
        /\ UNCHANGED <<proxies, toAccount, accountProxy, accountPersona, personas, personaProxy, marks>>
        /\ accounts' = accounts \cup {a}
    BY <1>5 DEF CreateAccount, rows
  <2> HIDE DEF todo
  <2>3. \A s \in Requests : request'[s] = request[s] \/ request'[s].op \notin Linking
    BY <2>1, <2>2, WorkOf
  <2> QED BY <1>t, <2>2, <2>3, LoosenedStep DEF marks
<1>6. CASE ReleaseProxies(r)
  <2> DEFINE todo == IF request[r].op = "rotate" THEN [request[r] EXCEPT !.op = "refill"] ELSE Idle
  <2>1. todo.op \notin Linking
    BY <1>i, TodoFields DEF Linking, PoolInductive, RowsHeld, Todo
  <2>2. /\ Continue(r, todo)
        /\ toAccount' = [p \in Proxies |-> IF toAccount[p] = request[r].a THEN None ELSE toAccount[p]]
        /\ UNCHANGED <<proxies, accounts, accountProxy, accountPersona, personas, personaProxy, marks>>
    BY <1>6 DEF ReleaseProxies, holders
  <2> HIDE DEF todo
  <2>3. \A s \in Requests : request'[s] = request[s] \/ request'[s].op \notin Linking
    BY <2>1, <2>2, WorkOf
  <2> QED BY <1>t, <2>2, <2>3, LoosenedStep DEF marks
<1>7. ASSUME NEW q \in Personas, DeletePersona(r, q) PROVE LinksHeld'
  <2>1. /\ request' = request /\ personas' = personas \ {q} /\ personaProxy' = [personaProxy EXCEPT ![q] = None]
        /\ accountPersona' = [a \in Accounts |-> IF accountPersona[a] = q THEN None ELSE accountPersona[a]]
        /\ UNCHANGED <<proxies, toAccount, accounts, accountProxy, marks>>
    BY <1>7, WorkOf DEF DeletePersona
  <2> QED BY <1>t, <2>1, LoosenedStep DEF marks
<1> QED BY <1>2, <1>3, <1>4, <1>5, <1>6, <1>7

\* A persona is new to every request and account.
LEMMA NewPersonaLinks ==
  ASSUME PoolInductive, LinksHeld, NEW q \in Personas, q \notin personas, Unused(q), personas' = personas \cup {q},
         \A s \in Requests : request'[s] = request[s] \/ request'[s].op \notin Linking,
         NEW p, personaProxy' = [personaProxy EXCEPT ![q] = p],
         UNCHANGED <<proxies, toAccount, accounts, accountProxy, accountPersona, marks>>
  PROVE  LinksHeld'
<1>1. \A s \in Requests : request[s].q # q
  BY DEF Unused
<1>2. \A a \in Accounts : accountPersona[a] # q
  BY PoolAssumption DEF PoolInductive, RowsHeld, NoDangling, PoolAssumption
<1>3. accounts \subseteq Accounts /\ personaProxy \in [Personas -> Proxies \cup {None}] /\ personas \subseteq Personas
  BY DEF PoolInductive, RowsHeld, RowsTyped
<1>4. ClaimsHeld'
  BY ClaimsShrink DEF Claimed, Choosing, Linking, LinksHeld, marks
<1>5. PointersHeld'
  BY PointersShrink DEF Pointing, Linking, LinksHeld
<1>6. StraysHeld'
  <2>0. \A x \in personas : personaProxy'[x] = personaProxy[x]
    BY <1>3
  <2>1. \A s \in Requests : Late(s)' => Late(s)
    BY <1>1, <2>0 DEF Late, Giving, Linking, marks
  <2>2. \A s \in Requests : TakenAll(s)'
    BY DEF TakenAll, Linking, marks, LinksHeld, StraysHeld
  <2>3. ASSUME NEW x \in personas', NEW a \in Strays(x)' PROVE a \in overtaken'
    <3>1. x \in personas
      BY <1>2, <1>3, <2>3 DEF Strays
    <3>2. a \in Strays(x)
      BY <2>0, <2>3, <3>1 DEF Strays, marks
    <3> QED BY <3>1, <3>2 DEF marks, LinksHeld, StraysHeld
  <2> QED BY <2>1, <2>2, <2>3 DEF LinksHeld, StraysHeld
<1> QED BY <1>4, <1>5, <1>6 DEF LinksHeld

\* A new persona has no accounts yet.
LEMMA NewPersonaSteps ==
  ASSUME PoolInductive, LinksHeld, NEW r \in Requests,
         CreateFound(r) \/ \E q \in Personas, p \in Proxies \cup {None} : CreatePersona(r, q, p)
  PROVE  LinksHeld'
<1>1. CASE CreateFound(r)
  <2>i. Idle.op \notin Linking
    BY DEF Idle, Linking
  <2>1. CASE Answer(r) /\ UNCHANGED <<personas, personaProxy>>
    <3>1. UNCHANGED <<proxies, toAccount, accounts, accountProxy, accountPersona, personas, personaProxy, marks>>
      BY <1>1, <2>1 DEF CreateFound, rows
    <3>2. \A s \in Requests : request'[s] = request[s] \/ request'[s].op \notin Linking
      BY <2>1, <2>i, WorkOf DEF Answer
    <3> QED BY <3>1, <3>2, QuietStep
  <2>2. CASE \E q \in Personas \ personas :
                /\ Unused(q)
                /\ personas' = personas \cup {q}
                /\ personaProxy' = [personaProxy EXCEPT ![q] = accountProxy[request[r].a]]
                /\ Continue(r, [request[r] EXCEPT !.op = "found", !.p = accountProxy[request[r].a], !.q = q])
    <3>1. PICK q \in Personas \ personas :
                /\ Unused(q)
                /\ personas' = personas \cup {q}
                /\ personaProxy' = [personaProxy EXCEPT ![q] = accountProxy[request[r].a]]
                /\ Continue(r, [request[r] EXCEPT !.op = "found", !.p = accountProxy[request[r].a], !.q = q])
      BY <2>2
    <3> DEFINE todo == [request[r] EXCEPT !.op = "found", !.p = accountProxy[request[r].a], !.q = q]
               p == accountProxy[request[r].a]
    <3>2. todo.op \notin Linking
      BY TodoFields DEF Linking, PoolInductive, RowsHeld, Todo
    <3>3. Continue(r, todo) /\ personaProxy' = [personaProxy EXCEPT ![q] = p] /\ personas' = personas \cup {q}
      BY <3>1
    <3>4. UNCHANGED <<proxies, toAccount, accounts, accountProxy, accountPersona, marks>>
      BY <1>1 DEF CreateFound, rows
    <3> HIDE DEF todo, p
    <3>5. \A s \in Requests : request'[s] = request[s] \/ request'[s].op \notin Linking
      BY <3>2, <3>3, WorkOf
    <3> QED BY <3>1, <3>3, <3>4, <3>5, NewPersonaLinks
  <2> QED BY <1>1, <2>1, <2>2 DEF CreateFound
<1>2. ASSUME NEW q \in Personas, NEW p \in Proxies \cup {None}, CreatePersona(r, q, p) PROVE LinksHeld'
  <2> DEFINE todo == [Idle EXCEPT !.op = "found", !.p = p, !.q = q]
  <2>1. todo.op \notin Linking
    BY DEF Idle, Linking
  <2>2. /\ Begin(r, todo) /\ q \notin personas /\ Unused(q)
        /\ personas' = personas \cup {q} /\ personaProxy' = [personaProxy EXCEPT ![q] = p]
        /\ UNCHANGED <<proxies, toAccount, accounts, accountProxy, accountPersona, marks>>
    BY <1>2 DEF CreatePersona, rows
  <2> HIDE DEF todo
  <2>3. \A s \in Requests : request'[s] = request[s] \/ request'[s].op \notin Linking
    BY <2>1, <2>2, WorkOf
  <2> QED BY <2>2, <2>3, NewPersonaLinks
<1> QED BY <1>1, <1>2

\* An account that is about to join a persona has just read the persona's proxy.
LEMMA JoiningLinks ==
  ASSUME PoolInductive, LinksHeld, NEW r \in Requests, NEW todo,
         \A s \in Requests : request'[s] = IF s = r THEN todo ELSE request[s],
         todo.op \notin {"assign", "assigning", "giving"},
         todo.op = "attach" => todo.p = personaProxy[todo.q] /\ (Giving(todo.q) => r \in racing'),
         racing \subseteq racing',
         UNCHANGED <<proxies, toAccount, accounts, accountProxy, accountPersona, personas, personaProxy, dedicated, overtaken>>
  PROVE  LinksHeld'
<1>1. ClaimsHeld'
  <2>1. \A a \in Accounts, p \in Proxies : Choosing(a, p)' => Choosing(a, p)
    BY DEF Choosing
  <2> QED BY <2>1, ClaimsShrink DEF Claimed, LinksHeld
<1>2. PointersHeld'
  BY PointersShrink DEF Pointing, LinksHeld
<1>3. StraysHeld'
  <2>1. \A q : Giving(q)' => Giving(q)
    BY DEF Giving
  <2>2. \A s \in Requests : Late(s)' => Late(s)
    BY <2>1 DEF Late
  <2>3. \A s \in Requests : TakenAll(s)'
    BY DEF TakenAll, LinksHeld, StraysHeld
  <2>4. \A q \in personas' : Strays(q)' \subseteq overtaken'
    BY DEF Strays, LinksHeld, StraysHeld
  <2> QED BY <2>2, <2>3, <2>4 DEF LinksHeld, StraysHeld
<1> QED BY <1>1, <1>2, <1>3 DEF LinksHeld

\* What is read of a persona is not late yet.
LEMMA JoiningSteps ==
  ASSUME PoolInductive, LinksHeld, NEW r \in Requests,
         FoundPersona(r) \/ \E a \in Accounts, q \in Personas : AttachRead(r, a, q)
  PROVE  LinksHeld'
<1>1. CASE FoundPersona(r)
  <2> DEFINE t == request[r]
             todo == IF t.a # None /\ t.q \in personas
                     THEN [t EXCEPT !.op = "attach", !.p = personaProxy[t.q]] ELSE Idle
  <2>1. /\ todo.op \notin {"assign", "assigning", "giving"}
        /\ todo.op = "attach" => /\ todo.p = personaProxy[todo.q]
                                 /\ t.a # None /\ t.q \in personas /\ todo.q = t.q
    <3>1. CASE t.a # None /\ t.q \in personas
      BY <3>1, TodoFields DEF PoolInductive, RowsHeld, Todo
    <3>2. CASE ~(t.a # None /\ t.q \in personas)
      BY <3>2 DEF Idle
    <3> QED BY <3>1, <3>2
  <2>2. Continue(r, todo)
        /\ UNCHANGED <<proxies, toAccount, accounts, accountProxy, accountPersona, personas, personaProxy, dedicated, overtaken>>
        /\ racing \subseteq racing' /\ (t.a # None /\ t.q \in personas /\ Giving(t.q) => r \in racing')
    BY <1>1 DEF FoundPersona, holders
  <2> HIDE DEF todo
  <2>3. \A s \in Requests : request'[s] = IF s = r THEN todo ELSE request[s]
    BY <2>2, WorkOf
  <2> QED BY <2>1, <2>2, <2>3, JoiningLinks
<1>2. ASSUME NEW a \in Accounts, NEW q \in Personas, AttachRead(r, a, q) PROVE LinksHeld'
  <2> DEFINE todo == [Idle EXCEPT !.op = "attach", !.a = a, !.q = q, !.p = personaProxy[q]]
  <2>1. todo.op = "attach" /\ todo.p = personaProxy[todo.q] /\ todo.q = q
    BY DEF Idle
  <2>2. Begin(r, todo)
        /\ racing \subseteq racing' /\ (Giving(q) => r \in racing')
        /\ UNCHANGED <<proxies, toAccount, accounts, accountProxy, accountPersona, personas, personaProxy, dedicated, overtaken>>
    BY <1>2 DEF AttachRead, rows, holders
  <2> HIDE DEF todo
  <2>3. \A s \in Requests : request'[s] = IF s = r THEN todo ELSE request[s]
    BY <2>2, WorkOf
  <2> QED BY <2>1, <2>2, <2>3, JoiningLinks
<1> QED BY <1>1, <1>2

\* An account that joins late is marked; one that does not has its persona's proxy.
LEMMA AttachWriteLinks ==
  ASSUME PoolInductive, LinksHeld, NEW r \in Requests, AttachWrite(r)
  PROVE  LinksHeld'
<1> DEFINE t == request[r]
<1>0. /\ t.op = "attach" /\ Continue(r, Idle) /\ Idle.op \notin Linking /\ racing' = racing \ {r}
      /\ UNCHANGED <<proxies, toAccount, accounts, personas, personaProxy>>
  BY DEF AttachWrite, Answer, Idle, Linking, rows
<1>w. /\ \A s \in Requests : s # r => request'[s] = request[s]
      /\ request'[r].op \notin Linking
  BY <1>0, WorkOf
<1>l. \A s \in Requests : Late(s)' => Late(s)
  BY <1>0, <1>w DEF Late, Giving, Linking
<1>n. ~Late(r)
  BY DEF LinksHeld, StraysHeld
<1>1. CASE t.a \in accounts /\ t.q \in personas /\ t.p \in proxies \cup {None}
  <2>1. /\ accountPersona' = [accountPersona EXCEPT ![t.a] = t.q]
        /\ accountProxy' = [accountProxy EXCEPT ![t.a] = t.p]
        /\ dedicated' = dedicated \ {t.a}
        /\ overtaken' = IF r \in racing THEN overtaken \cup {t.a} ELSE overtaken \ {t.a}
    BY <1>1 DEF AttachWrite
  <2>2. t.a \in Accounts
    BY <1>1 DEF PoolInductive, RowsHeld, RowsTyped
  <2>3. /\ \A a \in Accounts : a # t.a => accountPersona'[a] = accountPersona[a] /\ accountProxy'[a] = accountProxy[a]
        /\ accountPersona'[t.a] = t.q /\ accountProxy'[t.a] = t.p
    BY <2>1, <2>2 DEF PoolInductive, RowsHeld, RowsTyped
  <2>4. r \in racing \/ (~Giving(t.q) /\ t.p \in {None, personaProxy[t.q]})
    BY <1>0, <1>1, <1>n DEF Late
  <2>a. accounts \subseteq Accounts
    BY DEF PoolInductive, RowsHeld, RowsTyped
  <2> HIDE DEF t
  <2>5. ClaimsHeld'
    <3>1. \A a \in Accounts, p \in Proxies : Choosing(a, p)' => Choosing(a, p)
      BY <1>w DEF Choosing, Linking
    <3>2. \A p \in Proxies : Claimed(p)' \subseteq Claimed(p)
      BY <2>1, <2>3, <3>1 DEF Claimed
    <3> QED BY <3>2, ClaimsShrink DEF LinksHeld
  <2>6. PointersHeld'
    BY <1>0, <1>w, PointersShrink DEF Pointing, Linking, LinksHeld
  <2>7. StraysHeld'
    <3>1. ASSUME NEW s \in Requests PROVE TakenAll(s)'
      <4> SUFFICES ASSUME request'[s].op = "giving", NEW a \in accounts, accountPersona'[a] = request'[s].q
                   PROVE  a \in request'[s].took \cup overtaken'
        BY <1>0 DEF TakenAll
      <4>1. s # r /\ request'[s] = request[s] /\ Giving(request[s].q)
        BY <1>w DEF Linking, Giving
      <4>2. CASE a = t.a
        BY <2>1, <2>3, <2>4, <4>1, <4>2
      <4>3. CASE a # t.a
        BY <2>1, <2>3, <2>a, <4>1, <4>3 DEF TakenAll, LinksHeld, StraysHeld
      <4> QED BY <4>2, <4>3
    <3>2. ASSUME NEW q \in personas', NEW a \in Strays(q)' PROVE a \in overtaken'
      <4>1. CASE a = t.a
        BY <1>0, <2>1, <2>3, <2>4, <3>2, <4>1 DEF Strays
      <4>2. CASE a # t.a
        <5>1. a \in Strays(q)
          BY <1>0, <2>1, <2>3, <2>a, <3>2, <4>2 DEF Strays
        <5> QED BY <1>0, <2>1, <4>2, <5>1 DEF LinksHeld, StraysHeld
      <4> QED BY <4>1, <4>2
    <3> QED BY <1>l, <3>1, <3>2 DEF LinksHeld, StraysHeld
  <2> QED BY <2>5, <2>6, <2>7 DEF LinksHeld
<1>2. CASE ~(t.a \in accounts /\ t.q \in personas /\ t.p \in proxies \cup {None})
  <2>1. UNCHANGED <<accountPersona, accountProxy, dedicated, overtaken>>
    BY <1>2 DEF AttachWrite
  <2>2. ClaimsHeld'
    <3>1. \A a \in Accounts, p \in Proxies : Choosing(a, p)' => Choosing(a, p)
      BY <1>w DEF Choosing, Linking
    <3> QED BY <2>1, <3>1, ClaimsShrink DEF Claimed, LinksHeld
  <2>3. PointersHeld'
    BY <1>0, <1>w, PointersShrink DEF Pointing, Linking, LinksHeld
  <2>4. StraysHeld'
    <3>1. \A s \in Requests : TakenAll(s)'
      BY <1>0, <1>w, <2>1 DEF TakenAll, Linking, LinksHeld, StraysHeld
    <3>2. \A q \in personas' : Strays(q)' \subseteq overtaken'
      BY <1>0, <2>1 DEF Strays, LinksHeld, StraysHeld
    <3> QED BY <1>l, <3>1, <3>2 DEF LinksHeld, StraysHeld
  <2> QED BY <2>2, <2>3, <2>4 DEF LinksHeld
<1> QED BY <1>1, <1>2

\* A persona that is being given a proxy takes its accounts, and marks those on their way to it.
LEMMA GiveUpdateLinks ==
  ASSUME PoolInductive, LinksHeld, NEW r \in Requests, GiveUpdate(r)
  PROVE  LinksHeld'
<1> DEFINE t == request[r]
           took == {a \in accounts : accountPersona[a] = t.q}
           todo == [t EXCEPT !.op = "giving", !.took = took, !.cleared = {p \in proxies : toPersona[p] = t.q}]
<1>0. UNCHANGED <<proxies, toAccount, accounts, accountProxy, accountPersona, personas, personaProxy, dedicated, overtaken>>
  BY DEF GiveUpdate, rows, holders
<1>1. CASE t.p \in proxies /\ t.q \in personas
  <2>1. todo.op = "giving" /\ todo.q = t.q /\ todo.took = took
    BY TodoFields DEF PoolInductive, RowsHeld, Todo
  <2>2. /\ Continue(r, todo)
        /\ racing' = racing \cup {s \in Requests : request[s].op = "attach" /\ request[s].q = t.q}
    BY <1>1 DEF GiveUpdate
  <2> HIDE DEF todo
  <2>3. \A s \in Requests : request'[s] = IF s = r THEN todo ELSE request[s]
    BY <2>2, WorkOf
  <2>4. ClaimsHeld'
    <3>1. \A a \in Accounts, p \in Proxies : Choosing(a, p)' => Choosing(a, p)
      BY <2>1, <2>3 DEF Choosing
    <3> QED BY <1>0, <3>1, ClaimsShrink DEF Claimed, LinksHeld
  <2>5. PointersHeld'
    BY <1>0, <2>1, <2>3, PointersShrink DEF Pointing, LinksHeld
  <2>6. StraysHeld'
    <3>1. ASSUME NEW s \in Requests, Late(s)' PROVE Late(s)
      <4>1. s # r /\ request'[s] = request[s] /\ request[s].op = "attach" /\ s \notin racing /\ request[s].q # t.q
        BY <2>1, <2>2, <2>3, <3>1 DEF Late
      <4>2. Giving(request[s].q)' => Giving(request[s].q)
        BY <2>1, <2>3, <4>1 DEF Giving
      <4> QED BY <1>0, <3>1, <4>1, <4>2 DEF Late
    <3>2. \A s \in Requests : TakenAll(s)'
      BY <1>0, <2>1, <2>3 DEF TakenAll, LinksHeld, StraysHeld
    <3>3. \A q \in personas' : Strays(q)' \subseteq overtaken'
      BY <1>0 DEF Strays, LinksHeld, StraysHeld
    <3> QED BY <3>1, <3>2, <3>3 DEF LinksHeld, StraysHeld
  <2> QED BY <2>4, <2>5, <2>6 DEF LinksHeld
<1>2. CASE ~(t.p \in proxies /\ t.q \in personas)
  <2>1. Continue(r, Idle) /\ racing' = racing /\ Idle.op \notin Linking
    BY <1>2 DEF GiveUpdate, Answer, Idle, Linking
  <2> QED BY <1>0, <2>1, WorkOf, QuietStep DEF marks
<1> QED BY <1>1, <1>2

\* Giving the persona its proxy brings every account back that it has taken.
LEMMA GiveCommitLinks ==
  ASSUME PoolInductive, LinksHeld, NEW r \in Requests, GiveCommit(r)
  PROVE  LinksHeld'
<1> DEFINE t == request[r]
<1>0. /\ t.op = "giving" /\ Continue(r, Idle) /\ Idle.op \notin Linking
      /\ UNCHANGED <<proxies, toAccount, accounts, accountPersona, personas, racing>>
  BY DEF GiveCommit, Answer, Idle, Linking
<1>w. /\ \A s \in Requests : s # r => request'[s] = request[s]
      /\ request'[r].op \notin Linking
  BY <1>0, WorkOf
<1>1. /\ t.p \in proxies /\ t.q \in personas
      /\ \A a \in t.took : a \in accounts /\ accountPersona[a] = t.q
      /\ \A s \in Requests : s # r /\ request[s].op = "giving" => request[s].q # t.q
  BY <1>0 DEF PoolInductive, OpenHeld
<1>2. /\ personaProxy' = [personaProxy EXCEPT ![t.q] = t.p]
      /\ accountProxy' = [a \in Accounts |-> IF a \in t.took THEN t.p ELSE accountProxy[a]]
      /\ dedicated' = dedicated \ t.took
      /\ overtaken' = overtaken \ t.took
  BY DEF GiveCommit
<1>3. /\ \A q \in personas : personaProxy'[q] = IF q = t.q THEN t.p ELSE personaProxy[q]
      /\ accounts \subseteq Accounts
  BY <1>1, <1>2 DEF PoolInductive, RowsHeld, RowsTyped
<1>g. Giving(t.q)
  BY <1>0 DEF Giving
<1> HIDE DEF t
<1>4. ClaimsHeld'
  <2>1. \A a \in Accounts, p \in Proxies : Choosing(a, p)' => Choosing(a, p)
    BY <1>w DEF Choosing, Linking
  <2>2. \A p \in Proxies : Claimed(p)' \subseteq Claimed(p)
    BY <1>2, <2>1 DEF Claimed
  <2> QED BY <2>2, ClaimsShrink DEF LinksHeld
<1>5. PointersHeld'
  BY <1>0, <1>w, PointersShrink DEF Pointing, Linking, LinksHeld
<1>6. StraysHeld'
  <2>1. ASSUME NEW s \in Requests, Late(s)' PROVE FALSE
    <3>1. s # r /\ request'[s] = request[s] /\ request[s].op = "attach" /\ s \notin racing
      BY <1>0, <1>w, <2>1 DEF Late, Linking
    <3>2. ~Late(s)
      BY DEF LinksHeld, StraysHeld
    <3>3. request[s].q # t.q
      BY <1>g, <3>1, <3>2 DEF Late
    <3>4. Giving(request[s].q)' => Giving(request[s].q)
      BY <1>w, <3>1 DEF Giving, Linking
    <3>5. request[s].q \in personas => personaProxy'[request[s].q] = personaProxy[request[s].q]
      BY <1>3, <3>3
    <3>6. \/ Giving(request[s].q)'
         \/ /\ request[s].q \in personas
            /\ request[s].p \in proxies /\ request[s].p # personaProxy'[request[s].q]
      BY <1>0, <2>1, <3>1 DEF Late, Giving
    <3> QED BY <3>1, <3>2, <3>4, <3>5, <3>6 DEF Late
  <2>2. ASSUME NEW s \in Requests PROVE TakenAll(s)'
    <3> SUFFICES ASSUME request'[s].op = "giving", NEW a \in accounts, accountPersona[a] = request'[s].q
                 PROVE  a \in request'[s].took \cup overtaken'
      BY <1>0 DEF TakenAll
    <3>1. s # r /\ request'[s] = request[s]
      BY <1>w DEF Linking
    <3>2. a \notin t.took
      BY <1>1, <3>1
    <3>3. TakenAll(s)
      BY DEF LinksHeld, StraysHeld
    <3> QED BY <1>2, <3>1, <3>2, <3>3 DEF TakenAll
  <2>3. ASSUME NEW q \in personas', NEW a \in Strays(q)' PROVE a \in overtaken'
    <3>1. /\ q \in personas /\ a \in accounts /\ a \in Accounts /\ a \notin dedicated' /\ accountPersona[a] = q
          /\ accountProxy'[a] \notin {None, personaProxy'[q]}
      BY <1>0, <1>3, <2>3 DEF Strays
    <3>2. a \notin t.took
      BY <1>1, <1>2, <1>3, <3>1
    <3>3. accountProxy'[a] = accountProxy[a] /\ a \notin dedicated
      BY <1>2, <3>1, <3>2
    <3>4. a \in overtaken
      <4>1. CASE q = t.q
        <5>1. TakenAll(r)
          BY DEF LinksHeld, StraysHeld
        <5> QED BY <1>0, <3>1, <3>2, <4>1, <5>1 DEF TakenAll, t
      <4>2. CASE q # t.q
        <5>1. a \in Strays(q)
          BY <1>3, <3>1, <3>3, <4>2 DEF Strays
        <5> QED BY <3>1, <5>1 DEF LinksHeld, StraysHeld
      <4> QED BY <4>1, <4>2
    <3> QED BY <1>2, <3>2, <3>4
  <2> QED BY <2>1, <2>2, <2>3 DEF StraysHeld
<1> QED BY <1>4, <1>5, <1>6 DEF LinksHeld

-----------------------------------------------------------------------------
\* No links at the start.
LEMMA LinksInit == Init => LinksHeld
<1> SUFFICES ASSUME Init PROVE LinksHeld
  OBVIOUS
<1>r. PICK r \in Requests : TRUE
  BY PoolAssumption DEF PoolAssumption
<1>n. None \notin Accounts /\ None \notin Proxies /\ None \notin Personas
  BY PoolAssumption DEF PoolAssumption
<1>i. \A s \in Requests : request[s] = Idle
  BY DEF Init
<1>o. Idle.op = "idle"
  BY DEF Idle
<1>1. ASSUME NEW R PROVE Within({}, R)
  <2>1. [s \in R |-> None] \in [R -> Accounts \cup {None}]
    OBVIOUS
  <2> QED BY <2>1 DEF Within
<1>2. \A p \in Proxies : Claimed(p) = {}
  BY <1>i, <1>o DEF Claimed, Choosing, Init
<1>3. \A a \in Accounts : Pointing(a) = {}
  BY <1>n DEF Pointing, Init
<1>4. StraysHeld
  BY <1>i, <1>n, <1>o DEF StraysHeld, Strays, Late, TakenAll, Init
<1>5. [s \in Requests |-> None] \in [Requests -> Proxies \cup {None}]
  OBVIOUS
<1> QED BY <1>1, <1>2, <1>3, <1>4, <1>5, <1>r DEF LinksHeld, ClaimsHeld, PointersHeld

\* Every step keeps the links.
LEMMA LinksStep == PoolInductive /\ LinksHeld /\ [Next]_vars => LinksHeld'
<1> SUFFICES ASSUME PoolInductive, LinksHeld, [Next]_vars PROVE LinksHeld'
  OBVIOUS
<1>1. ASSUME NEW r \in Requests, ProxyStep(r) PROVE LinksHeld'
  BY <1>1, CreateProxyLinks, QuietSteps, DeleteProxyLinks DEF ProxyStep
<1>2. ASSUME NEW r \in Requests, AccountStep(r) PROVE LinksHeld'
  <2>1. CASE \E a \in Accounts, p \in Proxies : AssignCheck(r, a, p)
    BY <2>1, AssignCheckLinks
  <2>2. CASE \E a \in Accounts : \/ DeleteAccount(r, a)
                                 \/ \E op \in {"release", "rotate"} : ReleaseAccount(r, a, op)
                                 \/ \E op \in {"create", "enrol"} : CreateAccount(r, a, op)
    BY <2>2, LoosenedSteps
  <2>3. CASE AssignClear(r) \/ AssignCommit(r) \/ ReleaseProxies(r) \/ Refill(r)
    BY <2>3, AssignClearLinks, AssignCommitLinks, LoosenedSteps, QuietSteps
  <2>4. CASE EnrolProxy(r) \/ CreateAssign(r) \/ CreateFound(r) \/ CreateUndo(r)
    BY <2>4, QuietSteps, NewPersonaSteps, LoosenedSteps
  <2> QED BY <1>2, <2>1, <2>2, <2>3, <2>4 DEF AccountStep
<1>3. ASSUME NEW r \in Requests, PersonaStep(r) PROVE LinksHeld'
  BY <1>3, LoosenedSteps, NewPersonaSteps, QuietSteps, JoiningSteps, GiveUpdateLinks, GiveCommitLinks, AttachWriteLinks DEF PersonaStep
<1>r. PICK r \in Requests : TRUE
  BY PoolAssumption DEF PoolAssumption
<1>4. CASE SweepStart \/ (\E p \in Proxies : CheckProxyHealth(p)) \/ UNCHANGED vars
  BY <1>4, <1>r, QuietSteps
<1> QED BY <1>1, <1>2, <1>3, <1>4 DEF Next

\* The bounds follow by counting requests.
LEMMA LinksFollow == PoolInductive /\ LinksHeld => LinksBounded
<1> SUFFICES ASSUME PoolInductive, LinksHeld PROVE LinksBounded
  OBVIOUS
<1>1. IsFiniteSet(Requests) /\ Cardinality(Requests) \in Nat
  BY PoolAssumption, FS_CardinalityType DEF PoolAssumption
<1>2. proxies \subseteq Proxies /\ accounts \subseteq Accounts /\ personas \subseteq Personas
  BY DEF PoolInductive, RowsHeld, RowsTyped
<1>3. ASSUME NEW p \in proxies PROVE Cardinality(Holders(p) \cap dedicated) <= Cardinality(Requests)
  <2>1. Holders(p) \cap dedicated \subseteq Claimed(p)
    BY <1>2 DEF Holders, Claimed
  <2>2. Within(Holders(p) \cap dedicated, Requests)
    BY <1>2, <2>1, WithinLess DEF LinksHeld, ClaimsHeld
  <2> QED BY <1>1, <2>2, WithinCount
<1>4. ASSUME NEW a \in accounts PROVE Cardinality(Pointing(a)) <= Cardinality(Requests)
  <2>1. PICK f \in [Requests -> Proxies \cup {None}] : \A p \in Pointing(a) : \E r \in Requests : f[r] = p
    BY <1>2 DEF LinksHeld, PointersHeld
  <2> QED BY <1>1, <2>1, NamedCount
<1>5. StraysExplained
  BY DEF StraysExplained, LinksHeld, StraysHeld
<1> QED BY <1>3, <1>4, <1>5 DEF LinksBounded, SharingBounded

\* However many operators assign proxies at the same time, for any number of rows: of the accounts that
\* were given a proxy by name no more hold the same one than requests run at a time, no more proxies
\* point at one account; and an account is left with a proxy its persona has no more only if it joined
\* while the persona was being given another (assignSpecificProxyToAccount, assignAccountToPersona and
\* assignProxyToPersona).
THEOREM LinksKept == Spec => []LinksBounded
BY InitHolds, LinksInit, StepKeeps, LinksStep, LinksFollow, PTL DEF Spec

-----------------------------------------------------------------------------
(***************************************************************************)
(* AccountCare. What a task has read and not yet written is its turn: a    *)
(* ban, an alert, a campaign or a test has no more turns outstanding than  *)
(* slots. The induction adds the turns still out to what has been done.    *)
(***************************************************************************)

\* What a slot works on fits its job.
TaskFine(t) ==
    /\ t.job \in {"sweep", "drop"} => t.todo \subseteq Watched
    /\ t.job \in {"campaign", "raise"} => t.todo \subseteq Campaigns
    /\ t.job \in {"drop", "ban", "raise"} => t.item \in Watched
    /\ t.job = "drop" => t.item \notin t.todo
    /\ t.job \in {"alert", "insert", "resolve"} => t.item \in Keys

CareTyped == CareTypeOK /\ \A s \in Slots : TaskFine(task[s])

\* The slots that may still change what a ban has set, insert a row of an alert, act for
\* a campaign, and declare a winner.
Sweeping(a) ==
    {s \in Slots : \/ task[s].job \in {"sweep", "drop"} /\ a \in task[s].todo
                   \/ task[s].job \in {"drop", "ban"} /\ task[s].item = a}
Inserting(k) == {s \in Slots : task[s].job = "insert" /\ task[s].item = k}
Turns(c) == {s \in Slots : task[s].job \in {"campaign", "raise"} /\ c \in task[s].todo}
Evaluating == {s \in Slots : task[s].job = "evaluate"}

\* An account whose ban was undone is not fit for another listing.
BansBounded ==
    \A a \in Watched :
        /\ overturned[a] + Cardinality(Sweeping(a)) <= Cardinality(Slots)
        /\ overturned[a] > 0 => status[a] \in {"banned", "cooldown", "shadowbanned"}

RowsBounded == \A k \in Keys \ Unmatched : open[k] + Cardinality(Inserting(k)) <= Cardinality(Slots)

TurnsBounded ==
    /\ \A c \in Campaigns : campaign[c] # "active" => acted[c] + Cardinality(Turns(c)) <= Cardinality(Slots)
    /\ \A a \in Watched : frequency[a] <= FrequencyCap

WinnersBounded ==
    /\ declared + Cardinality(Evaluating) <= Cardinality(Slots)
    /\ test.status # "completed" => declared = 0

CareInduction == CareTyped /\ BansBounded /\ RowsBounded /\ TurnsBounded /\ WinnersBounded

-----------------------------------------------------------------------------
(* Counting slots.                                                         *)

\* Counting slots: fewer slots count less, and one slot fewer at least one less.
LEMMA SlotsCount ==
  /\ Cardinality(Slots) \in Nat /\ Cardinality({}) = 0
  /\ \A S \in SUBSET Slots : Cardinality(S) \in Nat /\ Cardinality(S) <= Cardinality(Slots)
  /\ \A S, T \in SUBSET Slots : S \subseteq T => Cardinality(S) <= Cardinality(T)
  /\ \A S, T \in SUBSET Slots, s \in Slots :
        s \in T /\ S \subseteq T \ {s} => Cardinality(S) + 1 <= Cardinality(T)
<1>1. IsFiniteSet(Slots)
  BY CareAssumption DEF CareAssumption
<1>2. \A T \in SUBSET Slots : IsFiniteSet(T) /\ Cardinality(T) \in Nat /\ Cardinality(T) <= Cardinality(Slots)
  BY <1>1, FS_Subset, FS_CardinalityType
<1>3. ASSUME NEW S \in SUBSET Slots, NEW T \in SUBSET Slots, S \subseteq T
      PROVE  Cardinality(S) <= Cardinality(T)
  BY <1>2, <1>3, FS_Subset
<1>4. ASSUME NEW S \in SUBSET Slots, NEW T \in SUBSET Slots, NEW s \in Slots, s \in T, S \subseteq T \ {s}
      PROVE  Cardinality(S) + 1 <= Cardinality(T)
  <2>1. IsFiniteSet(T \ {s}) /\ Cardinality(T \ {s}) = Cardinality(T) - 1
    BY <1>2, <1>4, FS_RemoveElement
  <2>2. Cardinality(S) <= Cardinality(T \ {s})
    BY <1>4, <2>1, FS_Subset
  <2> QED BY <1>2, <1>4, <2>1, <2>2
<1> QED BY <1>1, <1>2, <1>3, <1>4, FS_CardinalityType, FS_EmptySet

\* The windows are sets of slots, before a step and after it.
LEMMA WindowsAreSlots ==
  /\ \A a : Sweeping(a) \in SUBSET Slots /\ Sweeping(a)' \in SUBSET Slots
  /\ \A k : Inserting(k) \in SUBSET Slots /\ Inserting(k)' \in SUBSET Slots
  /\ \A c : Turns(c) \in SUBSET Slots /\ Turns(c)' \in SUBSET Slots
  /\ Evaluating \in SUBSET Slots /\ Evaluating' \in SUBSET Slots
BY DEF Sweeping, Inserting, Turns, Evaluating

TaskRecords == [job : Jobs, todo : SUBSET (Watched \cup Campaigns), item : Watched \cup Keys \cup {Nil}, seen : Nat]

\* A slot that turns to another job leaves the windows.
LEMMA WindowsLeft ==
  ASSUME CareTyped, NEW s \in Slots, NEW t, task' = [task EXCEPT ![s] = t]
  PROVE  /\ t.job \notin {"sweep", "drop", "ban"} => \A a : Sweeping(a)' \subseteq Sweeping(a) \ {s}
         /\ t.job # "insert" => \A k : Inserting(k)' \subseteq Inserting(k) \ {s}
         /\ t.job \notin {"campaign", "raise"} => \A c : Turns(c)' \subseteq Turns(c) \ {s}
         /\ t.job # "evaluate" => Evaluating' \subseteq Evaluating \ {s}
<1>1. \A u \in Slots : task'[u] = IF u = s THEN t ELSE task[u]
  BY DEF CareTyped, CareTypeOK
<1> QED BY <1>1 DEF Sweeping, Inserting, Turns, Evaluating

\* Windows that do not grow keep the bounds of what does not change.
LEMMA BoundsKept ==
  ASSUME CareInduction
  PROVE  /\ UNCHANGED <<status, overturned>> /\ (\A a \in Watched : Sweeping(a)' \subseteq Sweeping(a))
               => BansBounded'
         /\ UNCHANGED open /\ (\A k \in Keys : Inserting(k)' \subseteq Inserting(k)) => RowsBounded'
         /\ UNCHANGED <<campaign, acted, frequency>> /\ (\A c \in Campaigns : Turns(c)' \subseteq Turns(c))
               => TurnsBounded'
         /\ UNCHANGED <<test, declared>> /\ Evaluating' \subseteq Evaluating => WinnersBounded'
<1> USE DEF CareInduction, CareTyped, CareTypeOK
<1>1. ASSUME UNCHANGED <<status, overturned>>, \A a \in Watched : Sweeping(a)' \subseteq Sweeping(a)
      PROVE  BansBounded'
  <2> SUFFICES ASSUME NEW a \in Watched
               PROVE  /\ overturned'[a] + Cardinality(Sweeping(a)') <= Cardinality(Slots)
                      /\ overturned'[a] > 0 => status'[a] \in {"banned", "cooldown", "shadowbanned"}
    BY DEF BansBounded
  <2>1. Cardinality(Sweeping(a)') <= Cardinality(Sweeping(a)) /\ Cardinality(Sweeping(a)') \in Nat
        /\ Cardinality(Sweeping(a)) \in Nat /\ Cardinality(Slots) \in Nat /\ overturned[a] \in Nat
    BY <1>1, SlotsCount, WindowsAreSlots
  <2> QED BY <1>1, <2>1 DEF BansBounded
<1>2. ASSUME UNCHANGED open, \A k \in Keys : Inserting(k)' \subseteq Inserting(k) PROVE RowsBounded'
  <2> SUFFICES ASSUME NEW k \in Keys \ Unmatched
               PROVE  open'[k] + Cardinality(Inserting(k)') <= Cardinality(Slots)
    BY DEF RowsBounded
  <2>1. Cardinality(Inserting(k)') <= Cardinality(Inserting(k)) /\ Cardinality(Inserting(k)') \in Nat
        /\ Cardinality(Inserting(k)) \in Nat /\ Cardinality(Slots) \in Nat /\ open[k] \in Nat
    BY <1>2, SlotsCount, WindowsAreSlots
  <2> QED BY <1>2, <2>1 DEF RowsBounded
<1>3. ASSUME UNCHANGED <<campaign, acted, frequency>>, \A c \in Campaigns : Turns(c)' \subseteq Turns(c)
      PROVE  TurnsBounded'
  <2> SUFFICES ASSUME NEW c \in Campaigns, campaign'[c] # "active"
               PROVE  acted'[c] + Cardinality(Turns(c)') <= Cardinality(Slots)
    BY <1>3 DEF TurnsBounded
  <2>1. Cardinality(Turns(c)') <= Cardinality(Turns(c)) /\ Cardinality(Turns(c)') \in Nat
        /\ Cardinality(Turns(c)) \in Nat /\ Cardinality(Slots) \in Nat /\ acted[c] \in Nat
    BY <1>3, SlotsCount, WindowsAreSlots
  <2> QED BY <1>3, <2>1 DEF TurnsBounded
<1>4. ASSUME UNCHANGED <<test, declared>>, Evaluating' \subseteq Evaluating PROVE WinnersBounded'
  <2>1. Cardinality(Evaluating') <= Cardinality(Evaluating) /\ Cardinality(Evaluating') \in Nat
        /\ Cardinality(Evaluating) \in Nat /\ Cardinality(Slots) \in Nat /\ declared \in Nat
    BY <1>4, SlotsCount, WindowsAreSlots
  <2> QED BY <1>4, <2>1 DEF WinnersBounded
<1> QED BY <1>1, <1>2, <1>3, <1>4

-----------------------------------------------------------------------------
\* Nothing has been done and no task runs at the start.
LEMMA CareInitInduction == CareInit => CareInduction
<1> SUFFICES ASSUME CareInit PROVE CareInduction
  OBVIOUS
<1>1. CareTyped
  BY CareAssumption DEF CareAssumption, CareInit, CareTyped, CareTypeOK, TaskFine, NoTask, Jobs, AccountStatus, PatchStatuses, CampaignStatus
<1>2. \A s \in Slots : task[s].job = "idle"
  BY DEF CareInit, NoTask
<1>3. /\ \A a : Sweeping(a) = {} /\ \A k : Inserting(k) = {} /\ \A c : Turns(c) = {} /\ Evaluating = {}
  BY <1>2 DEF Sweeping, Inserting, Turns, Evaluating
<1> QED BY <1>1, <1>3, SlotsCount, CareAssumption DEF CareAssumption, CareInit, CareInduction, BansBounded,
       RowsBounded, TurnsBounded, WinnersBounded

\* The sweep flags an account once for each run that had listed it.
LEMMA SweepInduction ==
  ASSUME CareInduction, NEW s \in Slots,
         \/ SweepList(s) \/ SweepFlag(s)
         \/ \E a \in Watched : SweepAnalyze(s, a)
  PROVE  CareInduction'
<1> USE DEF CareInduction
<1>s. task[s] \in TaskRecords /\ TaskFine(task[s])
  BY DEF CareTyped, CareTypeOK, TaskRecords
<1>1. CASE SweepList(s)
  <2> DEFINE t == [NoTask EXCEPT !.job = "sweep", !.todo = {a \in Watched : Sweepable(a)}]
  <2>1. task' = [task EXCEPT ![s] = t] /\ UNCHANGED <<data, history, edits>> /\ tasks' = tasks + 1 /\ tasks < MaxTasks
    BY <1>1 DEF SweepList, Start
  <2>2. t \in TaskRecords /\ TaskFine(t) /\ t.job = "sweep"
    BY DEF NoTask, TaskRecords, TaskFine, Jobs
  <2>3. CareTyped'
    <3>1. /\ task' \in [Slots -> TaskRecords]
          /\ \A u \in Slots : TaskFine(task'[u])
      <4> HIDE DEF t
      <4> QED BY <2>1, <2>2 DEF CareTyped, CareTypeOK, TaskRecords
    <3>2. tasks' \in 0 .. MaxTasks
      BY <2>1, CareAssumption DEF CareTyped, CareTypeOK, CareAssumption
    <3> QED BY <2>1, <3>1, <3>2 DEF CareTyped, CareTypeOK, data, history, TaskRecords
  <2>4. RowsBounded' /\ TurnsBounded' /\ WinnersBounded'
    BY <2>1, <2>2, WindowsLeft, BoundsKept DEF data, history
  <2>5. ASSUME NEW a \in Watched
        PROVE  /\ overturned'[a] + Cardinality(Sweeping(a)') <= Cardinality(Slots)
               /\ overturned'[a] > 0 => status'[a] \in {"banned", "cooldown", "shadowbanned"}
    <3>1. CASE Sweepable(a)
      <4>1. overturned[a] = 0
        BY <3>1 DEF BansBounded, Sweepable, CareTyped, CareTypeOK
      <4>2. Cardinality(Sweeping(a)') <= Cardinality(Slots) /\ Cardinality(Sweeping(a)') \in Nat
        BY SlotsCount, WindowsAreSlots
      <4>3. overturned'[a] = 0
        BY <2>1, <4>1 DEF history
      <4> QED BY <4>2, <4>3
    <3>2. CASE ~Sweepable(a)
      <4>1. \A u \in Slots : task'[u] = IF u = s THEN t ELSE task[u]
        BY <2>1 DEF CareTyped, CareTypeOK
      <4>2. t.job = "sweep" /\ a \notin t.todo
        BY <3>2 DEF NoTask
      <4>3. Sweeping(a)' \subseteq Sweeping(a)
        BY <4>1, <4>2 DEF Sweeping
      <4>4. Cardinality(Sweeping(a)') <= Cardinality(Sweeping(a)) /\ Cardinality(Sweeping(a)') \in Nat
            /\ Cardinality(Sweeping(a)) \in Nat /\ Cardinality(Slots) \in Nat /\ overturned[a] \in Nat
        BY <4>3, SlotsCount, WindowsAreSlots DEF CareTyped, CareTypeOK
      <4> QED BY <2>1, <4>4 DEF data, history, BansBounded
    <3> QED BY <3>1, <3>2
  <2>6. BansBounded'
    BY <2>5 DEF BansBounded
  <2> QED BY <2>3, <2>4, <2>6
<1>2. CASE SweepFlag(s)
  <2> DEFINE b == task[s].item
             t == Rest([task[s] EXCEPT !.job = "sweep", !.item = Nil])
  <2>1. /\ task[s].job = "drop" /\ task' = [task EXCEPT ![s] = t] /\ UNCHANGED <<tasks, edits>>
        /\ status' = [status EXCEPT ![b] = "shadowbanned"]
        /\ overturned' = [overturned EXCEPT ![b] = IF status[b] = "banned" THEN @ + 1 ELSE @]
        /\ UNCHANGED <<frequency, raised, open, campaign, test, acted, declared>>
    BY <1>2 DEF SweepFlag, Go, SetStatus
  <2>2. /\ t \in TaskRecords /\ TaskFine(t) /\ t.job \in {"sweep", "idle"} /\ t.todo = task[s].todo
        /\ b \in Watched /\ b \notin task[s].todo
    BY <1>s, <2>1 DEF NoTask, TaskRecords, TaskFine, Jobs, Rest
  <2> HIDE DEF t
  <2>3. CareTyped'
    BY <2>1, <2>2 DEF CareTyped, CareTypeOK, TaskRecords, AccountStatus, PatchStatuses
  <2>4. RowsBounded' /\ TurnsBounded' /\ WinnersBounded'
    BY <2>1, <2>2, WindowsLeft, BoundsKept
  <2>5. \A u \in Slots : task'[u] = IF u = s THEN t ELSE task[u]
    BY <2>1 DEF CareTyped, CareTypeOK
  <2>6. \A a \in Watched : Sweeping(a)' \subseteq Sweeping(a)
    BY <2>1, <2>2, <2>5 DEF Sweeping
  <2>7. \A a \in Watched : a = b => s \in Sweeping(a) /\ s \notin Sweeping(a)'
    BY <2>1, <2>2, <2>5 DEF Sweeping
  <2>8. ASSUME NEW a \in Watched
        PROVE  /\ overturned'[a] + Cardinality(Sweeping(a)') <= Cardinality(Slots)
               /\ overturned'[a] > 0 => status'[a] \in {"banned", "cooldown", "shadowbanned"}
    <3>1. /\ Cardinality(Sweeping(a)') <= Cardinality(Sweeping(a)) /\ Cardinality(Sweeping(a)') \in Nat
          /\ Cardinality(Sweeping(a)) \in Nat /\ Cardinality(Slots) \in Nat /\ overturned[a] \in Nat
      BY <2>6, SlotsCount, WindowsAreSlots DEF CareTyped, CareTypeOK
    <3>2. /\ overturned[a] + Cardinality(Sweeping(a)) <= Cardinality(Slots)
          /\ overturned[a] > 0 => status[a] \in {"banned", "cooldown", "shadowbanned"}
      BY DEF BansBounded
    <3>3. CASE a # b
      <4>1. overturned'[a] = overturned[a] /\ status'[a] = status[a]
        BY <2>1, <2>2, <3>3 DEF CareTyped, CareTypeOK
      <4> QED BY <3>1, <3>2, <4>1
    <3>4. CASE a = b
      <4>1. overturned'[a] \in {overturned[a], overturned[a] + 1} /\ status'[a] = "shadowbanned"
        BY <2>1, <2>2, <3>4 DEF CareTyped, CareTypeOK
      <4>2. Cardinality(Sweeping(a)') + 1 <= Cardinality(Sweeping(a))
        BY <2>6, <2>7, <3>4, SlotsCount, WindowsAreSlots
      <4> QED BY <3>1, <3>2, <4>1, <4>2
    <3> QED BY <3>3, <3>4
  <2>9. BansBounded'
    BY <2>8 DEF BansBounded
  <2> QED BY <2>3, <2>4, <2>9
<1>3. ASSUME NEW a \in Watched, SweepAnalyze(s, a) PROVE CareInduction'
  <2> DEFINE r == [task[s] EXCEPT !.todo = @ \ {a}]
  <2>1. /\ task[s].job = "sweep" /\ a \in task[s].todo /\ UNCHANGED <<data, history, tasks, edits>>
        /\ \E t \in {Rest(r), [r EXCEPT !.job = "drop", !.item = a]} : task' = [task EXCEPT ![s] = t]
    BY <1>3 DEF SweepAnalyze, Go
  <2>2. PICK t \in {Rest(r), [r EXCEPT !.job = "drop", !.item = a]} : task' = [task EXCEPT ![s] = t]
    BY <2>1
  <2>3. /\ t \in TaskRecords /\ TaskFine(t) /\ t.job \in {"sweep", "drop", "idle"}
        /\ t.todo \subseteq task[s].todo
        /\ t.job = "drop" => t.item = a
    <3>1. CASE t = Rest(r)
      BY <1>s, <2>1, <3>1 DEF NoTask, TaskRecords, TaskFine, Jobs, Rest
    <3>2. CASE t = [r EXCEPT !.job = "drop", !.item = a]
      BY <1>s, <2>1, <3>2 DEF TaskRecords, TaskFine, Jobs
    <3> QED BY <2>2, <3>1, <3>2
  <2> HIDE DEF r
  <2>4. CareTyped'
    BY <2>1, <2>2, <2>3 DEF CareTyped, CareTypeOK, TaskRecords, data, history
  <2>5. RowsBounded' /\ TurnsBounded' /\ WinnersBounded'
    BY <2>1, <2>2, <2>3, WindowsLeft, BoundsKept DEF data, history
  <2>6. \A u \in Slots : task'[u] = IF u = s THEN t ELSE task[u]
    BY <2>2 DEF CareTyped, CareTypeOK
  <2>7. \A b \in Watched : Sweeping(b)' \subseteq Sweeping(b)
    BY <2>1, <2>3, <2>6 DEF Sweeping
  <2> QED BY <2>1, <2>4, <2>5, <2>7, BoundsKept DEF data, history
<1> QED BY <1>1, <1>2, <1>3

\* The publisher's report: written for an account that was fit, over what it has become.
LEMMA BanInduction ==
  ASSUME CareInduction, NEW s \in Slots,
         BanWrite(s) \/ \E a \in Watched : BanStart(s, a)
  PROVE  CareInduction'
<1> USE DEF CareInduction
<1>s. task[s] \in TaskRecords /\ TaskFine(task[s])
  BY DEF CareTyped, CareTypeOK, TaskRecords
<1>1. CASE BanWrite(s)
  <2> DEFINE b == task[s].item
  <2>1. /\ task[s].job = "ban" /\ task' = [task EXCEPT ![s] = NoTask] /\ UNCHANGED <<tasks, edits>>
        /\ UNCHANGED <<frequency, raised, open, campaign, test, acted, declared>>
    BY <1>1 DEF BanWrite, Go, SetStatus, data, history
  <2>a. \/ UNCHANGED <<status, overturned>>
        \/ \E st \in {"banned", "cooldown"} :
              /\ status' = [status EXCEPT ![b] = st]
              /\ overturned' = [overturned EXCEPT ![b] = IF status[b] = "banned" /\ st # "banned" THEN @ + 1 ELSE @]
    BY <1>1 DEF BanWrite, SetStatus, data, history
  <2>2. b \in Watched /\ NoTask \in TaskRecords /\ TaskFine(NoTask) /\ NoTask.job = "idle"
    BY <1>s, <2>1 DEF TaskFine, NoTask, TaskRecords, Jobs
  <2>b. /\ status' \in [Watched -> AccountStatus] /\ overturned' \in [Watched -> Nat]
        /\ \A a \in Watched : \/ status'[a] = status[a] /\ overturned'[a] = overturned[a]
                             \/ /\ a = b /\ status'[a] \in {"banned", "cooldown"}
                                /\ overturned'[a] \in {overturned[a], overturned[a] + 1}
    <3>1. CASE UNCHANGED <<status, overturned>>
      BY <3>1 DEF CareTyped, CareTypeOK
    <3>2. ASSUME NEW st \in {"banned", "cooldown"}, status' = [status EXCEPT ![b] = st],
                 overturned' = [overturned EXCEPT ![b] = IF status[b] = "banned" /\ st # "banned" THEN @ + 1 ELSE @]
          PROVE  /\ status' \in [Watched -> AccountStatus] /\ overturned' \in [Watched -> Nat]
                 /\ \A a \in Watched : \/ status'[a] = status[a] /\ overturned'[a] = overturned[a]
                                      \/ /\ a = b /\ status'[a] \in {"banned", "cooldown"}
                                         /\ overturned'[a] \in {overturned[a], overturned[a] + 1}
      BY <2>2, <3>2 DEF CareTyped, CareTypeOK, AccountStatus, PatchStatuses
    <3> QED BY <2>a, <3>1, <3>2
  <2> HIDE DEF b
  <2>3. CareTyped'
    BY <2>1, <2>2, <2>b DEF CareTyped, CareTypeOK, TaskRecords
  <2>4. /\ \A a : Sweeping(a)' \subseteq Sweeping(a) \ {s}
        /\ RowsBounded' /\ TurnsBounded' /\ WinnersBounded'
    BY <2>1, <2>2, WindowsLeft, BoundsKept
  <2>5. s \in Sweeping(b)
    BY <2>1 DEF Sweeping, b
  <2>6. ASSUME NEW a \in Watched
        PROVE  /\ overturned'[a] + Cardinality(Sweeping(a)') <= Cardinality(Slots)
               /\ overturned'[a] > 0 => status'[a] \in {"banned", "cooldown", "shadowbanned"}
    <3>1. /\ Cardinality(Sweeping(a)') <= Cardinality(Sweeping(a)) /\ Cardinality(Sweeping(a)') \in Nat
          /\ Cardinality(Sweeping(a)) \in Nat /\ Cardinality(Slots) \in Nat /\ overturned[a] \in Nat
      BY <2>4, SlotsCount, WindowsAreSlots DEF CareTyped, CareTypeOK
    <3>2. /\ overturned[a] + Cardinality(Sweeping(a)) <= Cardinality(Slots)
          /\ overturned[a] > 0 => status[a] \in {"banned", "cooldown", "shadowbanned"}
      BY DEF BansBounded
    <3>3. CASE status'[a] = status[a] /\ overturned'[a] = overturned[a]
      BY <3>1, <3>2, <3>3
    <3>4. CASE /\ a = b /\ status'[a] \in {"banned", "cooldown"}
               /\ overturned'[a] \in {overturned[a], overturned[a] + 1}
      <4>1. Cardinality(Sweeping(a)') + 1 <= Cardinality(Sweeping(a))
        BY <2>4, <2>5, <3>4, SlotsCount, WindowsAreSlots
      <4> QED BY <3>1, <3>2, <3>4, <4>1
    <3> QED BY <2>b, <3>3, <3>4
  <2>7. BansBounded'
    BY <2>6 DEF BansBounded
  <2> QED BY <2>3, <2>4, <2>7
<1>2. ASSUME NEW a \in Watched, BanStart(s, a) PROVE CareInduction'
  <2> DEFINE t == [NoTask EXCEPT !.job = "ban", !.item = a]
  <2>1. /\ task' = [task EXCEPT ![s] = t] /\ UNCHANGED <<data, history, edits>> /\ tasks' = tasks + 1 /\ tasks < MaxTasks
        /\ Publishable(a)
    BY <1>2 DEF BanStart, Start
  <2>2. t \in TaskRecords /\ TaskFine(t) /\ t.job = "ban" /\ t.item = a
    BY DEF NoTask, TaskRecords, TaskFine, Jobs
  <2> HIDE DEF t
  <2>3. CareTyped'
    BY <2>1, <2>2, CareAssumption DEF CareTyped, CareTypeOK, data, history, TaskRecords, CareAssumption
  <2>4. RowsBounded' /\ TurnsBounded' /\ WinnersBounded'
    BY <2>1, <2>2, WindowsLeft, BoundsKept DEF data, history
  <2>5. \A u \in Slots : task'[u] = IF u = s THEN t ELSE task[u]
    BY <2>1 DEF CareTyped, CareTypeOK
  <2>6. ASSUME NEW c \in Watched
        PROVE  /\ overturned'[c] + Cardinality(Sweeping(c)') <= Cardinality(Slots)
               /\ overturned'[c] > 0 => status'[c] \in {"banned", "cooldown", "shadowbanned"}
    <3>1. /\ Cardinality(Sweeping(c)') \in Nat /\ Cardinality(Sweeping(c)') <= Cardinality(Slots)
          /\ Cardinality(Sweeping(c)) \in Nat /\ Cardinality(Slots) \in Nat /\ overturned[c] \in Nat
          /\ overturned' = overturned /\ status' = status
      BY <2>1, SlotsCount, WindowsAreSlots DEF CareTyped, CareTypeOK, data, history
    <3>2. CASE c = a
      <4>1. overturned[c] = 0
        BY <2>1, <3>1, <3>2 DEF BansBounded, Publishable
      <4> QED BY <3>1, <4>1
    <3>3. CASE c # a
      <4>1. Sweeping(c)' \subseteq Sweeping(c)
        BY <2>2, <2>5, <3>3 DEF Sweeping
      <4>2. Cardinality(Sweeping(c)') <= Cardinality(Sweeping(c))
        BY <4>1, SlotsCount, WindowsAreSlots
      <4> QED BY <3>1, <4>2 DEF BansBounded
    <3> QED BY <3>2, <3>3
  <2>7. BansBounded'
    BY <2>6 DEF BansBounded
  <2> QED BY <2>3, <2>4, <2>7
<1> QED BY <1>1, <1>2

\* The check of a threshold: the row a task inserts is its turn spent.
LEMMA AlertInduction ==
  ASSUME CareInduction, NEW s \in Slots,
         \/ AlertResolve(s) \/ AlertLook(s) \/ AlertInsert(s)
         \/ \E k \in Keys : AlertCheck(s, k)
  PROVE  CareInduction'
<1> USE DEF CareInduction
<1>s. task[s] \in TaskRecords /\ TaskFine(task[s]) /\ NoTask \in TaskRecords /\ TaskFine(NoTask) /\ NoTask.job = "idle"
  BY DEF CareTyped, CareTypeOK, TaskRecords, TaskFine, NoTask, Jobs
<1>1. CASE AlertResolve(s)
  <2>1. /\ task[s].job = "resolve" /\ task' = [task EXCEPT ![s] = NoTask] /\ UNCHANGED <<tasks, edits>>
        /\ open' = [open EXCEPT ![task[s].item] = IF task[s].item \in Unmatched THEN @ ELSE 0]
        /\ UNCHANGED <<status, frequency, raised, campaign, test, history>>
    BY <1>1 DEF AlertResolve, Go
  <2>2. task[s].item \in Keys
    BY <1>s, <2>1 DEF TaskFine
  <2>3. CareTyped'
    BY <1>s, <2>1, <2>2 DEF CareTyped, CareTypeOK, TaskRecords, history
  <2>4. /\ \A k : Inserting(k)' \subseteq Inserting(k)
        /\ BansBounded' /\ TurnsBounded' /\ WinnersBounded'
    BY <1>s, <2>1, WindowsLeft, BoundsKept DEF history
  <2>5. ASSUME NEW k \in Keys \ Unmatched PROVE open'[k] + Cardinality(Inserting(k)') <= Cardinality(Slots)
    <3>1. /\ Cardinality(Inserting(k)') <= Cardinality(Inserting(k)) /\ Cardinality(Inserting(k)') \in Nat
          /\ Cardinality(Inserting(k)) \in Nat /\ Cardinality(Slots) \in Nat /\ open[k] \in Nat
      BY <2>4, SlotsCount, WindowsAreSlots DEF CareTyped, CareTypeOK
    <3>2. open'[k] \in {open[k], 0}
      BY <2>1, <2>2 DEF CareTyped, CareTypeOK
    <3> QED BY <3>1, <3>2 DEF RowsBounded
  <2> QED BY <2>3, <2>4, <2>5 DEF RowsBounded
<1>2. CASE AlertLook(s)
  <2> DEFINE k == task[s].item
             t == IF Found(k) THEN NoTask ELSE [task[s] EXCEPT !.job = "insert"]
  <2>1. /\ task[s].job = "alert" /\ task' = [task EXCEPT ![s] = t] /\ UNCHANGED <<data, history, tasks, edits>>
    BY <1>2 DEF AlertLook, Go
  <2>2. /\ t \in TaskRecords /\ TaskFine(t) /\ t.job \in {"insert", "idle"}
        /\ t.job = "insert" => t.item = k /\ ~Found(k)
    BY <1>s, <2>1 DEF TaskRecords, TaskFine, Jobs
  <2> HIDE DEF t
  <2>3. CareTyped'
    BY <2>1, <2>2 DEF CareTyped, CareTypeOK, TaskRecords, data, history
  <2>4. BansBounded' /\ TurnsBounded' /\ WinnersBounded'
    BY <2>1, <2>2, WindowsLeft, BoundsKept DEF data, history
  <2>5. \A u \in Slots : task'[u] = IF u = s THEN t ELSE task[u]
    BY <2>1 DEF CareTyped, CareTypeOK
  <2>6. ASSUME NEW l \in Keys \ Unmatched PROVE open'[l] + Cardinality(Inserting(l)') <= Cardinality(Slots)
    <3>1. CASE t.job = "insert" /\ t.item = l
      <4>1. open[l] = 0
        BY <2>2, <3>1 DEF Found, CareTyped, CareTypeOK
      <4> QED BY <2>1, <4>1, SlotsCount, WindowsAreSlots DEF data
    <3>2. CASE ~(t.job = "insert" /\ t.item = l)
      <4>1. Inserting(l)' \subseteq Inserting(l)
        BY <2>5, <3>2 DEF Inserting
      <4>2. /\ Cardinality(Inserting(l)') <= Cardinality(Inserting(l)) /\ Cardinality(Inserting(l)') \in Nat
            /\ Cardinality(Inserting(l)) \in Nat /\ Cardinality(Slots) \in Nat /\ open[l] \in Nat
        BY <4>1, SlotsCount, WindowsAreSlots DEF CareTyped, CareTypeOK
      <4> QED BY <2>1, <4>2 DEF RowsBounded, data
    <3> QED BY <3>1, <3>2
  <2> QED BY <2>3, <2>4, <2>6 DEF RowsBounded
<1>3. CASE AlertInsert(s)
  <2> DEFINE k == task[s].item
  <2>1. /\ task[s].job = "insert" /\ task' = [task EXCEPT ![s] = NoTask] /\ UNCHANGED <<tasks, edits>>
        /\ open' = [open EXCEPT ![k] = @ + 1]
        /\ UNCHANGED <<status, frequency, raised, campaign, test, history>>
    BY <1>3 DEF AlertInsert, Go
  <2>2. k \in Keys
    BY <1>s, <2>1 DEF TaskFine
  <2>3. CareTyped'
    BY <1>s, <2>1, <2>2 DEF CareTyped, CareTypeOK, TaskRecords, history
  <2>4. /\ \A l : Inserting(l)' \subseteq Inserting(l) \ {s}
        /\ BansBounded' /\ TurnsBounded' /\ WinnersBounded'
    BY <1>s, <2>1, WindowsLeft, BoundsKept DEF history
  <2>5. s \in Inserting(k)
    BY <2>1 DEF Inserting
  <2>6. ASSUME NEW l \in Keys \ Unmatched PROVE open'[l] + Cardinality(Inserting(l)') <= Cardinality(Slots)
    <3>1. /\ Cardinality(Inserting(l)') <= Cardinality(Inserting(l)) /\ Cardinality(Inserting(l)') \in Nat
          /\ Cardinality(Inserting(l)) \in Nat /\ Cardinality(Slots) \in Nat /\ open[l] \in Nat
      BY <2>4, SlotsCount, WindowsAreSlots DEF CareTyped, CareTypeOK
    <3>2. open[l] + Cardinality(Inserting(l)) <= Cardinality(Slots)
      BY DEF RowsBounded
    <3>3. CASE l # k
      <4>1. open'[l] = open[l]
        BY <2>1, <2>2, <3>3 DEF CareTyped, CareTypeOK
      <4> QED BY <3>1, <3>2, <4>1
    <3>4. CASE l = k
      <4>1. open'[l] = open[l] + 1
        BY <2>1, <2>2, <3>4 DEF CareTyped, CareTypeOK
      <4>2. Cardinality(Inserting(l)') + 1 <= Cardinality(Inserting(l))
        BY <2>4, <2>5, <3>4, SlotsCount, WindowsAreSlots
      <4> QED BY <3>1, <3>2, <4>1, <4>2
    <3> QED BY <3>3, <3>4
  <2> QED BY <2>3, <2>4, <2>6 DEF RowsBounded
<1>4. ASSUME NEW k \in Keys, AlertCheck(s, k) PROVE CareInduction'
  <2> DEFINE t == [NoTask EXCEPT !.job = IF raised[k] THEN "alert" ELSE "resolve", !.item = k]
  <2>1. task' = [task EXCEPT ![s] = t] /\ UNCHANGED <<data, history, edits>> /\ tasks' = tasks + 1 /\ tasks < MaxTasks
    BY <1>4 DEF AlertCheck, Start
  <2>2. t \in TaskRecords /\ TaskFine(t) /\ t.job \in {"alert", "resolve"}
    BY DEF NoTask, TaskRecords, TaskFine, Jobs
  <2> HIDE DEF t
  <2>3. CareTyped'
    BY <2>1, <2>2, CareAssumption DEF CareTyped, CareTypeOK, data, history, TaskRecords, CareAssumption
  <2> QED BY <2>1, <2>2, <2>3, WindowsLeft, BoundsKept DEF data, history
<1> QED BY <1>1, <1>2, <1>3, <1>4

\* A run over the campaigns: one that is paused only loses turns.
LEMMA CampaignInduction ==
  ASSUME CareInduction, NEW s \in Slots,
         \/ CampaignStart(s) \/ CampaignRaise(s)
         \/ \E c \in Campaigns : CampaignStep(s, c)
  PROVE  CareInduction'
<1> USE DEF CareInduction
<1>s. task[s] \in TaskRecords /\ TaskFine(task[s])
  BY DEF CareTyped, CareTypeOK, TaskRecords
<1>1. CASE CampaignStart(s)
  <2> DEFINE t == [NoTask EXCEPT !.job = "campaign", !.todo = {c \in Campaigns : Listed(c)}]
  <2>1. task' = [task EXCEPT ![s] = t] /\ UNCHANGED <<data, history, edits>> /\ tasks' = tasks + 1 /\ tasks < MaxTasks
    BY <1>1 DEF CampaignStart, Start
  <2>2. t \in TaskRecords /\ TaskFine(t) /\ t.job = "campaign" /\ t.todo = {c \in Campaigns : Listed(c)}
    BY DEF NoTask, TaskRecords, TaskFine, Jobs
  <2> HIDE DEF t
  <2>3. CareTyped'
    BY <2>1, <2>2, CareAssumption DEF CareTyped, CareTypeOK, data, history, TaskRecords, CareAssumption
  <2>4. BansBounded' /\ RowsBounded' /\ WinnersBounded'
    BY <2>1, <2>2, WindowsLeft, BoundsKept DEF data, history
  <2>5. \A u \in Slots : task'[u] = IF u = s THEN t ELSE task[u]
    BY <2>1 DEF CareTyped, CareTypeOK
  <2>6. ASSUME NEW c \in Campaigns, campaign'[c] # "active"
        PROVE  acted'[c] + Cardinality(Turns(c)') <= Cardinality(Slots)
    <3>1. Turns(c)' \subseteq Turns(c)
      BY <2>1, <2>2, <2>5, <2>6 DEF Turns, Listed, data
    <3>2. Cardinality(Turns(c)') <= Cardinality(Turns(c)) /\ Cardinality(Turns(c)') \in Nat
          /\ Cardinality(Turns(c)) \in Nat /\ Cardinality(Slots) \in Nat /\ acted[c] \in Nat
      BY <3>1, SlotsCount, WindowsAreSlots DEF CareTyped, CareTypeOK
    <3> QED BY <2>1, <2>6, <3>2 DEF TurnsBounded, data, history
  <2>7. TurnsBounded'
    BY <2>1, <2>6 DEF TurnsBounded, data
  <2> QED BY <2>3, <2>4, <2>7
<1>2. CASE CampaignRaise(s)
  <2> DEFINE b == task[s].item
             t == Rest([task[s] EXCEPT !.job = "campaign", !.item = Nil, !.seen = 0])
  <2>1. /\ task[s].job = "raise" /\ task' = [task EXCEPT ![s] = t] /\ UNCHANGED <<tasks, edits>>
        /\ frequency' = [frequency EXCEPT ![b] = Raised(task[s].seen)]
        /\ UNCHANGED <<status, raised, open, campaign, test, history>>
    BY <1>2 DEF CampaignRaise, Go
  <2>2. /\ t \in TaskRecords /\ TaskFine(t) /\ t.job \in {"campaign", "idle"} /\ t.todo \subseteq task[s].todo
        /\ b \in Watched
    BY <1>s, <2>1 DEF NoTask, TaskRecords, TaskFine, Jobs, Rest
  <2>3. Raised(task[s].seen) \in Nat /\ Raised(task[s].seen) <= FrequencyCap
    BY <1>s, CareAssumption DEF Raised, TaskRecords, CareAssumption
  <2> HIDE DEF t
  <2>4. CareTyped'
    BY <2>1, <2>2, <2>3 DEF CareTyped, CareTypeOK, TaskRecords, history
  <2>5. BansBounded' /\ RowsBounded' /\ WinnersBounded'
    BY <2>1, <2>2, WindowsLeft, BoundsKept DEF history
  <2>6. \A u \in Slots : task'[u] = IF u = s THEN t ELSE task[u]
    BY <2>1 DEF CareTyped, CareTypeOK
  <2>7. \A c \in Campaigns : Turns(c)' \subseteq Turns(c)
    BY <2>1, <2>2, <2>6 DEF Turns
  <2>8. ASSUME NEW c \in Campaigns, campaign'[c] # "active"
        PROVE  acted'[c] + Cardinality(Turns(c)') <= Cardinality(Slots)
    <3>1. Cardinality(Turns(c)') <= Cardinality(Turns(c)) /\ Cardinality(Turns(c)') \in Nat
          /\ Cardinality(Turns(c)) \in Nat /\ Cardinality(Slots) \in Nat /\ acted[c] \in Nat
      BY <2>7, SlotsCount, WindowsAreSlots DEF CareTyped, CareTypeOK
    <3> QED BY <2>1, <2>8, <3>1 DEF TurnsBounded, history
  <2>9. \A a \in Watched : frequency'[a] <= FrequencyCap
    BY <2>1, <2>2, <2>3 DEF TurnsBounded, CareTyped, CareTypeOK
  <2> QED BY <2>4, <2>5, <2>8, <2>9 DEF TurnsBounded
<1>3. ASSUME NEW c \in Campaigns, CampaignStep(s, c) PROVE CareInduction'
  <2> DEFINE r == [task[s] EXCEPT !.todo = @ \ {c}]
             Turned == {Rest(r)} \cup {[r EXCEPT !.job = "raise", !.item = a, !.seen = frequency[a]] : a \in Watched}
  <2>1. /\ task[s].job = "campaign" /\ c \in task[s].todo /\ UNCHANGED <<data, overturned, declared, tasks, edits>>
        /\ acted' \in {acted, [acted EXCEPT ![c] = @ + 1]}
        /\ \E t \in Turned : task' = [task EXCEPT ![s] = t]
    BY <1>3 DEF CampaignStep, Go
  <2>2. PICK t \in Turned : task' = [task EXCEPT ![s] = t]
    BY <2>1
  <2>3. /\ t \in TaskRecords /\ TaskFine(t) /\ t.job \in {"campaign", "raise", "idle"}
        /\ t.todo \subseteq task[s].todo \ {c}
    <3>1. \A a \in Watched : frequency[a] \in Nat
      BY DEF CareTyped, CareTypeOK
    <3>2. CASE t = Rest(r)
      BY <1>s, <2>1, <3>2 DEF NoTask, TaskRecords, TaskFine, Jobs, Rest
    <3>3. ASSUME NEW a \in Watched, t = [r EXCEPT !.job = "raise", !.item = a, !.seen = frequency[a]]
          PROVE  /\ t \in TaskRecords /\ TaskFine(t) /\ t.job = "raise" /\ t.todo \subseteq task[s].todo \ {c}
      BY <1>s, <2>1, <3>1, <3>3 DEF TaskRecords, TaskFine, Jobs
    <3> QED BY <2>2, <3>2, <3>3
  <2> HIDE DEF Turned
  <2>4. CareTyped'
    BY <2>1, <2>2, <2>3 DEF CareTyped, CareTypeOK, TaskRecords, data
  <2>5. BansBounded' /\ RowsBounded' /\ WinnersBounded'
    BY <2>1, <2>2, <2>3, WindowsLeft, BoundsKept DEF data
  <2>6. \A u \in Slots : task'[u] = IF u = s THEN t ELSE task[u]
    BY <2>2 DEF CareTyped, CareTypeOK
  <2>7. (\A d \in Campaigns : Turns(d)' \subseteq Turns(d)) /\ s \in Turns(c) /\ s \notin Turns(c)'
    BY <2>1, <2>3, <2>6 DEF Turns
  <2>8. ASSUME NEW d \in Campaigns, campaign'[d] # "active"
        PROVE  acted'[d] + Cardinality(Turns(d)') <= Cardinality(Slots)
    <3>1. /\ Cardinality(Turns(d)') <= Cardinality(Turns(d)) /\ Cardinality(Turns(d)') \in Nat
          /\ Cardinality(Turns(d)) \in Nat /\ Cardinality(Slots) \in Nat /\ acted[d] \in Nat
      BY <2>7, SlotsCount, WindowsAreSlots DEF CareTyped, CareTypeOK
    <3>2. acted[d] + Cardinality(Turns(d)) <= Cardinality(Slots)
      BY <2>1, <2>8 DEF TurnsBounded, data
    <3>3. CASE d # c
      <4>1. acted'[d] = acted[d]
        BY <2>1, <3>3 DEF CareTyped, CareTypeOK
      <4> QED BY <3>1, <3>2, <4>1
    <3>4. CASE d = c
      <4>1. acted'[d] \in {acted[d], acted[d] + 1}
        BY <2>1, <3>4 DEF CareTyped, CareTypeOK
      <4>2. Cardinality(Turns(d)') + 1 <= Cardinality(Turns(d))
        BY <2>7, <3>4, SlotsCount, WindowsAreSlots
      <4> QED BY <3>1, <3>2, <4>1, <4>2
    <3> QED BY <3>3, <3>4
  <2>9. TurnsBounded'
    BY <2>1, <2>8 DEF TurnsBounded, data
  <2> QED BY <2>4, <2>5, <2>9
<1> QED BY <1>1, <1>2, <1>3

\* The evaluation of a test: a declaration spends the turn of its slot.
LEMMA EvaluateInduction ==
  ASSUME CareInduction, NEW s \in Slots, EvaluateStart(s) \/ EvaluateDecide(s)
  PROVE  CareInduction'
<1> USE DEF CareInduction
<1>1. CASE EvaluateStart(s)
  <2> DEFINE t == [NoTask EXCEPT !.job = "evaluate"]
  <2>1. /\ task' = [task EXCEPT ![s] = t] /\ UNCHANGED <<data, history, edits>> /\ tasks' = tasks + 1 /\ tasks < MaxTasks
        /\ test.status # "completed"
    BY <1>1 DEF EvaluateStart, Start, Undecided
  <2>2. t \in TaskRecords /\ TaskFine(t) /\ t.job = "evaluate"
    BY DEF NoTask, TaskRecords, TaskFine, Jobs
  <2>3. CareTyped'
    BY <2>1, <2>2, CareAssumption DEF CareTyped, CareTypeOK, data, history, TaskRecords, CareAssumption
  <2>4. BansBounded' /\ RowsBounded' /\ TurnsBounded'
    BY <2>1, <2>2, WindowsLeft, BoundsKept DEF data, history
  <2>5. declared' = 0 /\ test' = test /\ Cardinality(Evaluating') \in Nat /\ Cardinality(Evaluating') <= Cardinality(Slots)
    BY <2>1, SlotsCount, WindowsAreSlots DEF WinnersBounded, data, history
  <2>6. WinnersBounded'
    BY <2>5, SlotsCount DEF WinnersBounded
  <2> QED BY <2>3, <2>4, <2>6
<1>2. CASE EvaluateDecide(s)
  <2>1. /\ task[s].job = "evaluate" /\ task' = [task EXCEPT ![s] = NoTask] /\ UNCHANGED <<tasks, edits>>
        /\ \/ UNCHANGED <<test, declared>>
           \/ /\ test'.status = "completed" /\ test' \in [status : {"completed"}, winner : {"A", "B"}]
              /\ declared' = declared + 1
        /\ UNCHANGED <<status, frequency, raised, open, campaign, overturned, acted>>
    BY <1>2 DEF EvaluateDecide, Go
  <2>2. NoTask \in TaskRecords /\ TaskFine(NoTask) /\ NoTask.job = "idle"
    BY DEF TaskFine, NoTask, TaskRecords, Jobs
  <2>3. CareTyped'
    BY <2>1, <2>2 DEF CareTyped, CareTypeOK, TaskRecords
  <2>4. BansBounded' /\ RowsBounded' /\ TurnsBounded'
    BY <2>1, <2>2, WindowsLeft, BoundsKept
  <2>5. Evaluating' \subseteq Evaluating \ {s} /\ s \in Evaluating
    BY <2>1, <2>2, WindowsLeft DEF Evaluating
  <2>6. /\ Cardinality(Evaluating') + 1 <= Cardinality(Evaluating) /\ Cardinality(Evaluating') \in Nat
        /\ Cardinality(Evaluating) \in Nat /\ Cardinality(Slots) \in Nat /\ declared \in Nat
    BY <2>5, SlotsCount, WindowsAreSlots DEF CareTyped, CareTypeOK
  <2>7. WinnersBounded'
    BY <2>1, <2>6 DEF WinnersBounded
  <2> QED BY <2>3, <2>4, <2>7
<1> QED BY <1>1, <1>2

\* What the operator and the world do.
LEMMA EditInduction ==
  ASSUME CareInduction,
         \/ \E a \in Watched, st \in PatchStatuses : PatchStatus(a, st)
         \/ \E c \in Campaigns, st \in CampaignStatus : PatchCampaign(c, st)
         \/ \E k \in Keys : Toggle(k)
         \/ UNCHANGED careVars
  PROVE  CareInduction'
<1> USE DEF CareInduction
<1>w. task' = task => /\ \A a : Sweeping(a)' = Sweeping(a) /\ \A k : Inserting(k)' = Inserting(k)
                      /\ \A c : Turns(c)' = Turns(c) /\ Evaluating' = Evaluating
  BY DEF Sweeping, Inserting, Turns, Evaluating
<1>1. ASSUME NEW a \in Watched, NEW st \in PatchStatuses, PatchStatus(a, st) PROVE CareInduction'
  <2>1. /\ UNCHANGED <<task, tasks, frequency, raised, open, campaign, test, acted, declared>>
        /\ edits < MaxEdits /\ edits' = edits + 1
        /\ status' = [status EXCEPT ![a] = st] /\ overturned' = [overturned EXCEPT ![a] = 0]
    BY <1>1 DEF PatchStatus, Edit
  <2>2. CareTyped'
    BY <2>1, CareAssumption DEF CareTyped, CareTypeOK, TaskRecords, CareAssumption, AccountStatus
  <2>3. RowsBounded' /\ TurnsBounded' /\ WinnersBounded'
    BY <1>w, <2>1, BoundsKept
  <2>4. ASSUME NEW b \in Watched
        PROVE  /\ overturned'[b] + Cardinality(Sweeping(b)') <= Cardinality(Slots)
               /\ overturned'[b] > 0 => status'[b] \in {"banned", "cooldown", "shadowbanned"}
    <3>1. Cardinality(Sweeping(b)) \in Nat /\ Cardinality(Sweeping(b)) <= Cardinality(Slots) /\ Cardinality(Slots) \in Nat
      BY SlotsCount, WindowsAreSlots
    <3>2. /\ overturned'[b] = IF b = a THEN 0 ELSE overturned[b]
          /\ status'[b] = IF b = a THEN st ELSE status[b]
      BY <2>1 DEF CareTyped, CareTypeOK
    <3>3. /\ overturned[b] + Cardinality(Sweeping(b)) <= Cardinality(Slots)
          /\ overturned[b] > 0 => status[b] \in {"banned", "cooldown", "shadowbanned"}
          /\ Sweeping(b)' = Sweeping(b)
      BY <1>w, <2>1 DEF BansBounded
    <3>4. CASE b = a
      BY <3>1, <3>2, <3>3, <3>4
    <3>5. CASE b # a
      BY <3>2, <3>3, <3>5
    <3> QED BY <3>4, <3>5
  <2> QED BY <2>2, <2>3, <2>4 DEF BansBounded
<1>2. ASSUME NEW c \in Campaigns, NEW st \in CampaignStatus, PatchCampaign(c, st) PROVE CareInduction'
  <2>1. /\ UNCHANGED <<task, tasks, status, frequency, raised, open, test, overturned, declared>>
        /\ edits < MaxEdits /\ edits' = edits + 1
        /\ campaign' = [campaign EXCEPT ![c] = st] /\ acted' = [acted EXCEPT ![c] = 0]
    BY <1>2 DEF PatchCampaign, Edit
  <2>2. CareTyped'
    BY <2>1, CareAssumption DEF CareTyped, CareTypeOK, TaskRecords, CareAssumption
  <2>3. BansBounded' /\ RowsBounded' /\ WinnersBounded'
    BY <1>w, <2>1, BoundsKept
  <2>4. ASSUME NEW d \in Campaigns, campaign'[d] # "active"
        PROVE  acted'[d] + Cardinality(Turns(d)') <= Cardinality(Slots)
    <3>1. Cardinality(Turns(d)) \in Nat /\ Cardinality(Turns(d)) <= Cardinality(Slots) /\ Cardinality(Slots) \in Nat
          /\ Turns(d)' = Turns(d)
      BY <1>w, <2>1, SlotsCount, WindowsAreSlots
    <3>2. CASE d = c
      BY <2>1, <3>1, <3>2 DEF CareTyped, CareTypeOK
    <3>3. CASE d # c
      BY <2>1, <2>4, <3>1, <3>3 DEF CareTyped, CareTypeOK, TurnsBounded
    <3> QED BY <3>2, <3>3
  <2> QED BY <2>1, <2>2, <2>3, <2>4 DEF TurnsBounded
<1>3. ASSUME NEW k \in Keys, Toggle(k) PROVE CareInduction'
  <2>1. /\ UNCHANGED <<task, tasks, status, frequency, open, campaign, test, history>>
        /\ edits < MaxEdits /\ edits' = edits + 1 /\ raised' = [raised EXCEPT ![k] = ~@]
    BY <1>3 DEF Toggle, Edit
  <2>2. CareTyped'
    BY <2>1, CareAssumption DEF CareTyped, CareTypeOK, TaskRecords, CareAssumption, history
  <2> QED BY <1>w, <2>1, <2>2, BoundsKept DEF history
<1>4. CASE UNCHANGED careVars
  <2>1. CareTyped'
    BY <1>4 DEF CareTyped, CareTypeOK, careVars, data, history
  <2> QED BY <1>w, <1>4, <2>1, BoundsKept DEF careVars, data, history
<1> QED BY <1>1, <1>2, <1>3, <1>4

\* Every step of the timers keeps the induction.
LEMMA CareStepInduction ==
  ASSUME CareInduction, [CareNext]_careVars
  PROVE  CareInduction'
BY SweepInduction, BanInduction, AlertInduction, CampaignInduction, EvaluateInduction, EditInduction DEF CareNext

\* Whatever runs at the same time: a ban is undone, an alert opened twice, a paused campaign continued
\* and a winner declared again no more often than tasks run at a time.
THEOREM CareKept == CareSpec => []CareBounded
<1>1. CareInduction => CareBounded
  <2> SUFFICES ASSUME CareInduction PROVE CareBounded
    OBVIOUS
  <2>1. /\ \A a : Cardinality(Sweeping(a)) \in Nat /\ \A k : Cardinality(Inserting(k)) \in Nat
        /\ \A c : Cardinality(Turns(c)) \in Nat /\ Cardinality(Evaluating) \in Nat /\ Cardinality(Slots) \in Nat
    BY SlotsCount, WindowsAreSlots
  <2>2. OverturnedBounded
    <3> SUFFICES ASSUME NEW a \in Watched PROVE overturned[a] <= Cardinality(Slots)
      BY DEF OverturnedBounded
    <3>1. overturned[a] + Cardinality(Sweeping(a)) <= Cardinality(Slots) /\ overturned[a] \in Nat
      BY DEF CareInduction, BansBounded, CareTyped, CareTypeOK
    <3> QED BY <2>1, <3>1
  <2>3. OpenAlertsBounded
    <3> SUFFICES ASSUME NEW k \in Keys \ Unmatched PROVE open[k] <= Cardinality(Slots)
      BY DEF OpenAlertsBounded
    <3>1. open[k] + Cardinality(Inserting(k)) <= Cardinality(Slots) /\ open[k] \in Nat
      BY DEF CareInduction, RowsBounded, CareTyped, CareTypeOK
    <3> QED BY <2>1, <3>1
  <2>4. PausedActsBounded
    <3>1. ASSUME NEW c \in Campaigns, campaign[c] # "active" PROVE acted[c] <= Cardinality(Slots)
      <4>1. acted[c] + Cardinality(Turns(c)) <= Cardinality(Slots) /\ acted[c] \in Nat
        BY <3>1 DEF CareInduction, TurnsBounded, CareTyped, CareTypeOK
      <4> QED BY <2>1, <4>1
    <3> QED BY <3>1 DEF CareInduction, PausedActsBounded, TurnsBounded
  <2>5. DeclarationsBounded
    <3>1. declared + Cardinality(Evaluating) <= Cardinality(Slots) /\ declared \in Nat
      BY DEF CareInduction, WinnersBounded, CareTyped, CareTypeOK
    <3> QED BY <2>1, <3>1 DEF DeclarationsBounded
  <2> QED BY <2>2, <2>3, <2>4, <2>5 DEF CareInduction, CareTyped, CareBounded
<1> QED BY <1>1, CareInitInduction, CareStepInduction, PTL DEF CareSpec
=============================================================================
