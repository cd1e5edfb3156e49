----------------------------- MODULE ProxyPool -----------------------------
(***************************************************************************)
(* Proxies, the accounts and the personas that hold them (distribution     *)
(* engine: ProxyManager, personaService, AccountService and the routers    *)
(* of accounts, personas and proxies).                                     *)
(*                                                                         *)
(* A row of accounts points at its proxy and at its persona, a row of      *)
(* personas at its proxy, and a row of proxies back at the account and at  *)
(* the persona it was last given to.  No row is locked while a request     *)
(* decides: it reads, another request commits, it writes.  A request of    *)
(* several statements is a record of request[r]; a transaction is one      *)
(* step for its first reads and one for its commit.                        *)
(*                                                                         *)
(* The automatic choice of a proxy selects from a GROUP BY with FOR        *)
(* UPDATE, which PostgreSQL refuses (0A000): once the account's own proxy  *)
(* has been looked at, assignProxyToAccount always throws.                 *)
(***************************************************************************)
EXTENDS Integers, FiniteSets

CONSTANTS Proxies, Accounts, Personas,
          Requests,        \* requests served at the same time
          None,
          MaxRequests,     \* bound: requests in a behaviour
          MaxSweeps        \* bound: health sweeps in a behaviour

ASSUME PoolAssumption ==
    /\ None \notin Proxies \cup Accounts \cup Personas
    /\ MaxRequests \in Nat
    /\ MaxSweeps \in Nat
    /\ IsFiniteSet(Requests) /\ Requests # {}

VARIABLES proxies,          \* the rows of proxies
          active,           \* proxies.is_active
          toAccount,        \* proxies.assigned_account_id
          toPersona,        \* proxies.assigned_persona_id
          accounts,         \* the rows of accounts
          accountProxy,     \* accounts.proxy_id
          accountPersona,   \* accounts.persona_id
          personas,         \* the rows of personas
          personaProxy,     \* personas.proxy_id
          request,          \* what each request in service has left to do
          requested,        \* requests so far
          sweep,            \* proxies the health sweep has still to test
          sweeps,           \* sweeps so far
          dedicated,        \* history: accounts that hold their proxy since
                            \* an operator gave it to them by name
          overtaken,        \* history: accounts that joined their persona while
                            \* it was being given another proxy
          racing            \* history: requests about to do so

rows == <<proxies, active, toAccount, toPersona>>
holders == <<accounts, accountProxy, accountPersona, personas, personaProxy>>
marks == <<dedicated, overtaken, racing>>
vars == <<rows, holders, request, requested, sweep, sweeps, marks>>

Idle == [op |-> "idle", a |-> None, p |-> None, q |-> None, cleared |-> {}, took |-> {}]

Operations == {"idle", "assign", "assigning", "release", "rotate", "refill",
               "give", "giving", "attach", "found", "create", "created", "enrol", "undo", "drop"}

Todo == [op : Operations, a : Accounts \cup {None}, p : Proxies \cup {None},
         q : Personas \cup {None}, cleared : SUBSET Proxies, took : SUBSET Accounts]

Init ==
    /\ proxies \in SUBSET Proxies
    /\ active = [p \in Proxies |-> p \in proxies]
    /\ toAccount = [p \in Proxies |-> None]
    /\ toPersona = [p \in Proxies |-> None]
    /\ accounts \in SUBSET Accounts
    /\ accountProxy = [a \in Accounts |-> None]
    /\ accountPersona = [a \in Accounts |-> None]
    /\ personas \in SUBSET Personas
    /\ personaProxy = [q \in Personas |-> None]
    /\ request = [r \in Requests |-> Idle]
    /\ requested = 0
    /\ sweep = {}
    /\ sweeps = 0
    /\ dedicated = {}
    /\ overtaken = {}
    /\ racing = {}

Holders(p) == {a \in accounts : accountProxy[a] = p}
Owners(p) == {q \in personas : personaProxy[q] = p}
Pointing(a) == {p \in proxies : toAccount[p] = a}

\* Request r is taken up with todo left to do.
Begin(r, todo) ==
    /\ request[r] = Idle
    /\ requested < MaxRequests
    /\ request' = [request EXCEPT ![r] = todo]
    /\ requested' = requested + 1

\* A request of a single statement.
Serve(r) ==
    /\ request[r] = Idle
    /\ requested < MaxRequests
    /\ requested' = requested + 1
    /\ UNCHANGED request

Continue(r, todo) ==
    /\ request' = [request EXCEPT ![r] = todo]
    /\ UNCHANGED requested

Answer(r) == Continue(r, Idle)

\* A new row gets a new id: none a request in service still refers to.
Unused(id) == id \notin UNION {{request[r].a, request[r].p, request[r].q} : r \in Requests}

\* An open transaction holds the rows that it has updated until it commits.
Giving(q) == \E r \in Requests : request[r].op = "giving" /\ request[r].q = q
Locked(a) == \E r \in Requests : request[r].op = "giving" /\ a \in request[r].took

-----------------------------------------------------------------------------
\* Proxies

CreateProxy(r, p) ==
    /\ Serve(r)
    /\ p \notin proxies
    /\ Unused(p)
    /\ p \notin sweep
    /\ proxies' = proxies \cup {p}
    /\ active' = [active EXCEPT ![p] = TRUE]
    /\ UNCHANGED <<toAccount, toPersona, holders, sweep, sweeps, marks>>

\* An operator switches a proxy on or off.
UpdateProxy(r, p) ==
    /\ Serve(r)
    /\ p \in proxies
    /\ active' = [active EXCEPT ![p] = ~@]
    /\ UNCHANGED <<proxies, toAccount, toPersona, holders, sweep, sweeps, marks>>

\* The checks of deleteProxy; the personas that use the proxy are not asked.
DeleteProxyCheck(r, p) ==
    /\ Begin(r, [Idle EXCEPT !.op = "drop", !.p = p])
    /\ p \in proxies
    /\ toAccount[p] = None
    /\ Holders(p) = {}
    /\ UNCHANGED <<rows, holders, sweep, sweeps, marks>>

\* The DELETE: refused while an account refers to the proxy, and a persona
\* that refers to it is left without one.
DeleteProxy(r) ==
    LET p == request[r].p IN
    /\ request[r].op = "drop"
    /\ ~\E s \in Requests : request[s].op = "giving" /\ request[s].p = p
    /\ Answer(r)
    /\ IF p \notin proxies \/ Holders(p) # {}
       THEN UNCHANGED <<rows, holders>>
       ELSE /\ proxies' = proxies \ {p}
            /\ active' = [active EXCEPT ![p] = FALSE]
            /\ toAccount' = [toAccount EXCEPT ![p] = None]
            /\ toPersona' = [toPersona EXCEPT ![p] = None]
            /\ personaProxy' = [q \in Personas |->
                                  IF personaProxy[q] = p THEN None ELSE personaProxy[q]]
            /\ UNCHANGED <<accounts, accountProxy, accountPersona, personas>>
    /\ UNCHANGED <<sweep, sweeps, marks>>

\* The periodic health check lists every proxy and tests one after the
\* other; the result overwrites is_active, whoever set it.
SweepStart ==
    /\ sweep = {}
    /\ sweeps < MaxSweeps
    /\ sweep' = proxies
    /\ sweeps' = sweeps + 1
    /\ UNCHANGED <<rows, holders, request, requested, marks>>

CheckProxyHealth(p) ==
    /\ p \in sweep
    /\ sweep' = sweep \ {p}
    /\ \/ p \in proxies /\ \E healthy \in BOOLEAN : active' = [active EXCEPT ![p] = healthy]
       \/ p \notin proxies /\ UNCHANGED active
    /\ UNCHANGED <<proxies, toAccount, toPersona, holders, request, requested, sweeps, marks>>

-----------------------------------------------------------------------------
\* Accounts and their proxies

\* A mutant: the other accounts that hold the proxy are not counted.
AssignableShared(a, p) == p \in proxies /\ active[p]

\* What lets an operator's choice of p for account a pass: the proxy exists,
\* is active, and no other account has it.
Assignable(a, p) ==
    /\ p \in proxies
    /\ active[p]
    /\ Holders(p) \ {a} = {}

\* assignSpecificProxyToAccount: the checks of its transaction, ...
AssignCheck(r, a, p) ==
    /\ Begin(r, [Idle EXCEPT !.op = "assign", !.a = a, !.p = p])
    /\ a \in accounts
    /\ Assignable(a, p)
    /\ UNCHANGED <<rows, holders, sweep, sweeps, marks>>

\* ... its first UPDATE, which clears the back pointers it can see, ...
AssignClear(r) ==
    /\ request[r].op = "assign"
    /\ Continue(r, [request[r] EXCEPT !.op = "assigning", !.cleared = Pointing(request[r].a)])
    /\ UNCHANGED <<rows, holders, sweep, sweeps, marks>>

\* ... and its commit; an account or a proxy deleted meanwhile aborts it
\* (foreign keys), or leaves it without effect.
AssignCommit(r) ==
    LET t == request[r] IN
    /\ t.op = "assigning"
    /\ ~Locked(t.a)
    /\ Answer(r)
    /\ IF t.a \in accounts /\ t.p \in proxies
       THEN /\ toAccount' = [p \in Proxies |->
                               IF p = t.p THEN t.a
                               ELSE IF p \in t.cleared /\ toAccount[p] = t.a THEN None
                               ELSE toAccount[p]]
            /\ accountProxy' = [accountProxy EXCEPT ![t.a] = t.p]
            /\ dedicated' = dedicated \cup {t.a}
       ELSE UNCHANGED <<toAccount, accountProxy, dedicated>>
    /\ UNCHANGED <<proxies, active, toPersona, accounts, accountPersona, personas,
                   personaProxy, sweep, sweeps, overtaken, racing>>

\* releaseProxyFromAccount, alone or as the first half of a rotation: the
\* account lets go of its proxy in one statement ...
ReleaseAccount(r, a, op) ==
    /\ op \in {"release", "rotate"}
    /\ a \in accounts
    /\ ~Locked(a)
    /\ Begin(r, [Idle EXCEPT !.op = op, !.a = a])
    /\ accountProxy' = [accountProxy EXCEPT ![a] = None]
    /\ dedicated' = dedicated \ {a}
    /\ UNCHANGED <<rows, accounts, accountPersona, personas, personaProxy, sweep, sweeps,
                   overtaken, racing>>

\* ... and the proxies let go of the account in another.
ReleaseProxies(r) ==
    /\ request[r].op \in {"release", "rotate"}
    /\ Continue(r, IF request[r].op = "rotate"
                   THEN [request[r] EXCEPT !.op = "refill"] ELSE Idle)
    /\ toAccount' = [p \in Proxies |->
                       IF toAccount[p] = request[r].a THEN None ELSE toAccount[p]]
    /\ UNCHANGED <<proxies, active, toPersona, holders, sweep, sweeps, marks>>

\* assignProxyToAccount has something to answer: the account already holds
\* an active proxy.
Sticky(a) ==
    /\ a \in accounts
    /\ accountProxy[a] # None
    /\ active[accountProxy[a]]

\* The second half of a rotation: whether it finds a proxy that another
\* request put there or throws, it writes nothing.
Refill(r) ==
    /\ request[r].op = "refill"
    /\ Answer(r)
    /\ UNCHANGED <<rows, holders, sweep, sweeps, marks>>

-----------------------------------------------------------------------------
\* Creation and deletion of accounts

\* POST /accounts inserts the row without a proxy; POST /accounts/bulk does
\* so when it found a free active proxy for every account of its list.
FreeActive == {p \in proxies : active[p] /\ Holders(p) = {}}

CreateAccount(r, a, op) ==
    /\ op \in {"create", "enrol"}
    /\ a \notin accounts
    /\ Unused(a)
    /\ op = "enrol" => FreeActive # {}
    /\ Begin(r, [Idle EXCEPT !.op = op, !.a = a])
    /\ accounts' = accounts \cup {a}
    /\ UNCHANGED <<rows, accountProxy, accountPersona, personas, personaProxy,
                   sweep, sweeps, marks>>

\* The automatic assignment of a bulk import: it throws, the entry is
\* reported as failed, and the account stays.
EnrolProxy(r) ==
    /\ request[r].op = "enrol"
    /\ Answer(r)
    /\ UNCHANGED <<rows, holders, sweep, sweeps, marks>>

\* The automatic assignment of POST /accounts: when it throws the account is
\* to be deleted; it answers when another request has given the account an
\* active proxy in the meantime.
CreateAssign(r) ==
    LET t == request[r] IN
    /\ t.op = "create"
    /\ Continue(r, [t EXCEPT !.op = IF Sticky(t.a) THEN "created" ELSE "undo"])
    /\ UNCHANGED <<rows, holders, sweep, sweeps, marks>>

\* Then the account's proxy is read again, and a persona made for the two of
\* them; an account that lost its proxy goes without a persona.
CreateFound(r) ==
    LET t == request[r] IN
    /\ t.op = "created"
    /\ \/ /\ accountProxy[t.a] = None
          /\ Answer(r)
          /\ UNCHANGED <<personas, personaProxy>>
       \/ /\ accountProxy[t.a] # None
          /\ \E q \in Personas \ personas :
                /\ Unused(q)
                /\ personas' = personas \cup {q}
                /\ personaProxy' = [personaProxy EXCEPT ![q] = accountProxy[t.a]]
                /\ Continue(r, [t EXCEPT !.op = "found", !.p = accountProxy[t.a], !.q = q])
    /\ UNCHANGED <<rows, accounts, accountProxy, accountPersona, sweep, sweeps, marks>>

\* A mutant: the proxies keep pointing at the account.
RemoveRowOnly(a) ==
    /\ ~Locked(a)
    /\ accounts' = accounts \ {a}
    /\ accountProxy' = [accountProxy EXCEPT ![a] = None]
    /\ accountPersona' = [accountPersona EXCEPT ![a] = None]
    /\ dedicated' = dedicated \ {a}
    /\ overtaken' = overtaken \ {a}
    /\ UNCHANGED <<rows, personas, personaProxy, sweep, sweeps, racing>>

\* deleteAccount is one transaction: the proxies that point at the account
\* let go of it, then the row goes.
Remove(a) ==
    /\ ~Locked(a)
    /\ accounts' = accounts \ {a}
    /\ accountProxy' = [accountProxy EXCEPT ![a] = None]
    /\ accountPersona' = [accountPersona EXCEPT ![a] = None]
    /\ toAccount' = [p \in Proxies |-> IF toAccount[p] = a THEN None ELSE toAccount[p]]
    /\ dedicated' = dedicated \ {a}
    /\ overtaken' = overtaken \ {a}
    /\ UNCHANGED <<proxies, active, toPersona, personas, personaProxy, sweep, sweeps, racing>>

CreateUndo(r) ==
    /\ request[r].op = "undo"
    /\ Answer(r)
    /\ Remove(request[r].a)

DeleteAccount(r, a) ==
    /\ Serve(r)
    /\ a \in accounts
    /\ Remove(a)

-----------------------------------------------------------------------------
\* Personas

\* POST /personas inserts the persona with the proxy it names, which nobody
\* checks; the proxy points back at it in a second statement.
CreatePersona(r, q, p) ==
    /\ q \notin personas
    /\ Unused(q)
    /\ p \in proxies \cup {None}
    /\ Begin(r, [Idle EXCEPT !.op = "found", !.p = p, !.q = q])
    /\ personas' = personas \cup {q}
    /\ personaProxy' = [personaProxy EXCEPT ![q] = p]
    /\ UNCHANGED <<rows, accounts, accountProxy, accountPersona, sweep, sweeps, marks>>

\* The second statement; it aborts when the persona is gone, and does nothing
\* when the proxy is.  POST /accounts goes on to attach its account.
FoundPersona(r) ==
    LET t == request[r] IN
    /\ t.op = "found"
    /\ IF t.p \in proxies /\ t.q \in personas
       THEN toPersona' = [toPersona EXCEPT ![t.p] = t.q]
       ELSE UNCHANGED toPersona
    /\ Continue(r, IF t.a # None /\ t.q \in personas
                   THEN [t EXCEPT !.op = "attach", !.p = personaProxy[t.q]] ELSE Idle)
    /\ racing' = IF t.a # None /\ t.q \in personas /\ Giving(t.q)
                 THEN racing \cup {r} ELSE racing
    /\ UNCHANGED <<proxies, active, toAccount, holders, sweep, sweeps, dedicated, overtaken>>

\* assignProxyToPersona: what its transaction checks (the other personas, not
\* the accounts), ...
GiveCheck(r, q, p) ==
    /\ Begin(r, [Idle EXCEPT !.op = "give", !.p = p, !.q = q])
    /\ q \in personas
    /\ Owners(p) \ {q} = {}
    /\ UNCHANGED <<rows, holders, sweep, sweeps, marks>>

\* ... its updates, which nobody sees before it commits: the accounts the
\* persona has by now, and the proxies that point back at it.  A persona or
\* a proxy deleted meanwhile aborts it (foreign keys).
GiveUpdate(r) ==
    LET t == request[r] IN
    /\ t.op = "give"
    /\ ~Giving(t.q)
    /\ IF t.p \in proxies /\ t.q \in personas
       THEN /\ Continue(r, [t EXCEPT !.op = "giving",
                                    !.took = {a \in accounts : accountPersona[a] = t.q},
                                    !.cleared = {p \in proxies : toPersona[p] = t.q}])
            /\ racing' = racing \cup {s \in Requests : request[s].op = "attach"
                                                     /\ request[s].q = t.q}
       ELSE /\ Answer(r)
            /\ UNCHANGED racing
    /\ UNCHANGED <<rows, holders, sweep, sweeps, dedicated, overtaken>>

\* A mutant: the accounts of the persona keep the proxy they had.
GiveCommitAlone(r) ==
    LET t == request[r] IN
    /\ t.op = "giving"
    /\ Answer(r)
    /\ personaProxy' = [personaProxy EXCEPT ![t.q] = t.p]
    /\ toPersona' = [toPersona EXCEPT ![t.p] = t.q]
    /\ dedicated' = dedicated \ t.took
    /\ overtaken' = overtaken \ t.took
    /\ UNCHANGED <<proxies, active, toAccount, accounts, accountProxy, accountPersona,
                   personas, sweep, sweeps, racing>>

\* ... and its commit: the persona, both back pointers, and the accounts it
\* has taken; one that joined the persona since keeps the proxy it was given.
GiveCommit(r) ==
    LET t == request[r] IN
    /\ t.op = "giving"
    /\ Answer(r)
    /\ personaProxy' = [personaProxy EXCEPT ![t.q] = t.p]
    /\ toPersona' = [p \in Proxies |->
                       IF p = t.p THEN t.q
                       ELSE IF p \in t.cleared /\ toPersona[p] = t.q THEN None
                       ELSE toPersona[p]]
    /\ accountProxy' = [a \in Accounts |-> IF a \in t.took THEN t.p ELSE accountProxy[a]]
    /\ dedicated' = dedicated \ t.took
    /\ overtaken' = overtaken \ t.took
    /\ UNCHANGED <<proxies, active, toAccount, accounts, accountPersona, personas,
                   sweep, sweeps, racing>>

\* assignAccountToPersona reads the persona with its proxy ...
AttachRead(r, a, q) ==
    /\ a \in accounts
    /\ q \in personas
    /\ Begin(r, [Idle EXCEPT !.op = "attach", !.a = a, !.q = q, !.p = personaProxy[q]])
    /\ racing' = IF Giving(q) THEN racing \cup {r} ELSE racing
    /\ UNCHANGED <<rows, holders, sweep, sweeps, dedicated, overtaken>>

\* ... and writes what it read into the account, unless a foreign key refuses.
AttachWrite(r) ==
    LET t == request[r] IN
    /\ t.op = "attach"
    /\ ~Locked(t.a)
    /\ Answer(r)
    /\ racing' = racing \ {r}
    /\ IF t.a \in accounts /\ t.q \in personas /\ t.p \in proxies \cup {None}
       THEN /\ accountPersona' = [accountPersona EXCEPT ![t.a] = t.q]
            /\ accountProxy' = [accountProxy EXCEPT ![t.a] = t.p]
            /\ dedicated' = dedicated \ {t.a}
            /\ overtaken' = IF r \in racing THEN overtaken \cup {t.a} ELSE overtaken \ {t.a}
       ELSE UNCHANGED <<accountPersona, accountProxy, dedicated, overtaken>>
    /\ UNCHANGED <<rows, accounts, personas, personaProxy, sweep, sweeps>>

DeletePersona(r, q) ==
    /\ Serve(r)
    /\ q \in personas
    /\ ~Giving(q)
    /\ personas' = personas \ {q}
    /\ personaProxy' = [personaProxy EXCEPT ![q] = None]
    /\ accountPersona' = [a \in Accounts |->
                            IF accountPersona[a] = q THEN None ELSE accountPersona[a]]
    /\ toPersona' = [p \in Proxies |-> IF toPersona[p] = q THEN None ELSE toPersona[p]]
    /\ UNCHANGED <<proxies, active, toAccount, accounts, accountProxy, sweep, sweeps, marks>>

-----------------------------------------------------------------------------
ProxyStep(r) ==
    \/ \E p \in Proxies : CreateProxy(r, p) \/ UpdateProxy(r, p) \/ DeleteProxyCheck(r, p)
    \/ DeleteProxy(r)

AccountStep(r) ==
    \/ \E a \in Accounts :
          \/ DeleteAccount(r, a)
          \/ \E p \in Proxies : AssignCheck(r, a, p)
          \/ \E op \in {"release", "rotate"} : ReleaseAccount(r, a, op)
          \/ \E op \in {"create", "enrol"} : CreateAccount(r, a, op)
    \/ AssignClear(r) \/ AssignCommit(r)
    \/ ReleaseProxies(r) \/ Refill(r)
    \/ EnrolProxy(r) \/ CreateAssign(r) \/ CreateFound(r) \/ CreateUndo(r)

PersonaStep(r) ==
    \/ \E q \in Personas :
          \/ DeletePersona(r, q)
          \/ \E p \in Proxies \cup {None} : CreatePersona(r, q, p)
          \/ \E p \in Proxies : GiveCheck(r, q, p)
          \/ \E a \in Accounts : AttachRead(r, a, q)
    \/ FoundPersona(r) \/ GiveUpdate(r) \/ GiveCommit(r) \/ AttachWrite(r)

Next ==
    \/ \E r \in Requests : ProxyStep(r) \/ AccountStep(r) \/ PersonaStep(r)
    \/ SweepStart
    \/ \E p \in Proxies : CheckProxyHealth(p)

Spec == Init /\ [][Next]_vars

-----------------------------------------------------------------------------
TypeOK ==
    /\ proxies \subseteq Proxies
    /\ active \in [Proxies -> BOOLEAN]
    /\ toAccount \in [Proxies -> Accounts \cup {None}]
    /\ toPersona \in [Proxies -> Personas \cup {None}]
    /\ accounts \subseteq Accounts
    /\ accountProxy \in [Accounts -> Proxies \cup {None}]
    /\ accountPersona \in [Accounts -> Personas \cup {None}]
    /\ personas \subseteq Personas
    /\ personaProxy \in [Personas -> Proxies \cup {None}]
    /\ request \in [Requests -> Todo]
    /\ requested \in 0 .. MaxRequests
    /\ sweep \subseteq Proxies
    /\ sweeps \in 0 .. MaxSweeps
    /\ dedicated \subseteq accounts
    /\ overtaken \subseteq accounts
    /\ racing \subseteq Requests

\* No row refers to a row that is gone, and a row that is gone refers to
\* nothing.
NoDangling ==
    /\ \A p \in Proxies :
          /\ toAccount[p] \in accounts \cup {None}
          /\ toPersona[p] \in personas \cup {None}
          /\ p \notin proxies => ~active[p] /\ toAccount[p] = None /\ toPersona[p] = None
    /\ \A a \in Accounts :
          /\ accountProxy[a] \in proxies \cup {None}
          /\ accountPersona[a] \in personas \cup {None}
          /\ a \notin accounts => accountProxy[a] = None /\ accountPersona[a] = None
    /\ \A q \in Personas :
          /\ personaProxy[q] \in proxies \cup {None}
          /\ q \notin personas => personaProxy[q] = None

\* Whatever is deleted while another request is about to write it (an account
\* undone by its own creation, a proxy dropped between check and commit), no
\* proxy, account or persona is left with a reference to a row that is gone.
PoolInvariant == TypeOK /\ NoDangling

\* "One dedicated proxy per account" is checked before it is written: of the
\* accounts an operator gave a proxy by name, no more hold the same one than
\* requests ran at the same time, and no more proxies point back at one
\* account (assignSpecificProxyToAccount).
SharingBounded ==
    /\ \A p \in proxies : Cardinality(Holders(p) \cap dedicated) <= Cardinality(Requests)
    /\ \A a \in accounts : Cardinality(Pointing(a)) <= Cardinality(Requests)

\* Accounts of q that carry another proxy than q, though nobody gave it to
\* them by name.
Strays(q) == {a \in accounts \ dedicated :
                /\ accountPersona[a] = q
                /\ accountProxy[a] \notin {None, personaProxy[q]}}

\* An account joins a persona with the proxy the request read before, and a
\* persona that gets another proxy takes the accounts it has when it updates
\* them.  Only an account that joined from a request that read or wrote while
\* such a transaction was open is left behind, and the persona's next proxy
\* brings it back (assignAccountToPersona against assignProxyToPersona).
StraysExplained == \A q \in personas : Strays(q) \subseteq overtaken

\* What assignments at the same time can do to the links is bounded by their
\* number, and a stray is explained by one that was under way.
LinksBounded == SharingBounded /\ StraysExplained
=============================================================================
