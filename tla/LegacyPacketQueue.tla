--------------------------- MODULE LegacyPacketQueue ---------------------------
(***************************************************************************)
(* The legacy publishing path of the distribution engine: the list         *)
(* content:ready, the sorted set content:delayed with its pollers, and     *)
(* processPacket, which posts a packet on each of its target accounts.     *)
(*                                                                         *)
(* BRPOP takes a packet away for good: what becomes of it is in the hands  *)
(* of the worker.  A worker that cannot post now puts the whole packet in  *)
(* the sorted set, where equal packets are one member; every process has a *)
(* poller that pushes what is due to the list and then removes it.         *)
(*                                                                         *)
(* Abstractions: the publications rows of a packet and an account are a    *)
(* sequence in order of creation, and logPublicationAttempt finds and      *)
(* writes the last one in one step; the daily limits of ActionLimits and   *)
(* WarmupManager are one constant each; a worker takes the accounts of a   *)
(* packet in any order; dry-run mode is off; the 30 seconds a manually     *)
(* retried packet is delayed cover the two statements of the request.      *)
(***************************************************************************)
EXTENDS Integers, Sequences, FiniteSetsExt

CONSTANTS
  Packets, Senders,
  TargetsOf,     \* packet.target_accounts as the content factory pushes it
  NoAccount,     \* in the hands of a worker that has none
  Workers,       \* calls of processPacket that may run at a time, over all processes
  Pollers,       \* processes, each with its poller of content:delayed
  ActionLimit,   \* the limit ActionLimits allows an account a day
  WarmupLimit,   \* the limit WarmupManager allows an account a day
  MaxRetries,
  MaxFaults,   \* bound: failing statements, lost answers, deaths and an operator's retries
  MaxCopies,   \* bound: copies of a packet out of the delayed set at a time
  MaxPosts     \* bound: posts of a packet on an account

ASSUME LegacyAssumption ==
  /\ IsFiniteSet(Workers) /\ Workers # {} /\ Packets # {}
  /\ NoAccount \notin Senders
  /\ TargetsOf \in [Packets -> SUBSET Senders]
  /\ ActionLimit \in Nat \ {0} /\ WarmupLimit \in Nat \ {0}
  /\ MaxRetries \in Nat /\ MaxFaults \in Nat
  /\ MaxCopies \in Nat \ {0} /\ MaxPosts \in Nat

VARIABLES
  queue,      \* copies of each packet in content:ready
  delayed,    \* members of content:delayed ...
  due,        \* ... and those whose score has passed
  poller,     \* what each poller has read, and the member it has pushed and not removed
  worker,     \* where each worker is, with which packet and account
  pubRows,       \* publications of a packet and an account, in order of creation
  blocked,    \* accounts that are banned, suspended, in cooldown, resting or shadowbanned
  recent,     \* accounts whose last_activity_at is less than the minimum interval ago
  count,      \* daily_action_counts of today, per account
  published,  \* publications of today, per account
  today,      \* posts Instagram has seen today, per account
  sent,      \* posts Instagram has seen, per packet and account
  attempts,   \* failed attempts since the retry count was last reset
  moved,      \* members of content:delayed that a poller has pushed since they were added
  swept,      \* members removed although they were added again after they were pushed
  turnedAway, \* packets and accounts given up because the account is blocked
  unlogged,  \* posts that added no row to the publications of today
  shared,     \* packets that two workers have held at a time
  lost, manual, dbErrors, crashes  \* events so far, by kind

queueVars == <<queue, delayed, due, moved, swept>>
accountVars == <<blocked, recent, count, published>>
worldVars == <<today, sent, unlogged, shared>>
spentVars == <<lost, manual, dbErrors, crashes>>
legacyVars == <<queueVars, poller, worker, pubRows, accountVars, worldVars, attempts, turnedAway,
          spentVars>>

\* What the lists hold: the JSON text of a packet, which its accounts are a part of.
Items == [packet : Packets, accounts : SUBSET Senders]

Deliveries == Packets \X Senders

RowStatus == {"failed", "retrying", "permanently_failed", "published"}

NoItem == [packet |-> CHOOSE p \in Packets : TRUE, accounts |-> {}]

Free == [pc |-> "idle", raw |-> NoItem, targets |-> {}, todo |-> {}, account |-> NoAccount,
         failure |-> "none", retries |-> 0]

Quiet == [read |-> {}, pushed |-> {}]

WorkerAt(w, pc) == worker[w].pc = pc

Goto(w, pc) == worker' = [worker EXCEPT ![w].pc = pc]

Handled(w) == <<worker[w].raw.packet, worker[w].account>>

\* The packet as the worker would write it: a backup account may have been added to it.
Item(w) == [packet |-> worker[w].raw.packet, accounts |-> worker[w].targets]

Bounded == lost + manual + dbErrors + crashes < MaxFaults

\* findExistingPublished: any row of the packet and the account.
IsPublished(pa) == \E n \in 1..Len(pubRows[pa]) : pubRows[pa][n].status = "published"

\* The loop goes on with the next account.
NextAccount(w) ==
  worker' = [worker EXCEPT ![w] =
    [worker[w] EXCEPT !.pc = "pick", !.todo = worker[w].todo \ {worker[w].account},
                      !.account = NoAccount, !.failure = "none", !.retries = 0]]

LegacyInit ==
  /\ queue = [i \in Items |-> IF i.accounts # {} /\ i.accounts = TargetsOf[i.packet] THEN 1 ELSE 0]
  /\ delayed = {} /\ due = {} /\ moved = {} /\ swept = {}
  /\ poller = [q \in Pollers |-> Quiet]
  /\ worker = [w \in Workers |-> Free]
  /\ pubRows = [pa \in Deliveries |-> << >>]
  /\ blocked = {} /\ recent = {}
  /\ count = [a \in Senders |-> 0]
  /\ published = [a \in Senders |-> 0]
  /\ today = [a \in Senders |-> 0]
  /\ sent = [pa \in Deliveries |-> 0]
  /\ attempts = [pa \in Deliveries |-> 0]
  /\ turnedAway = {}
  /\ unlogged = 0 /\ shared = {} /\ lost = 0 /\ manual = 0 /\ dbErrors = 0 /\ crashes = 0

-----------------------------------------------------------------------------
(* The delayed set.                                                        *)

\* pushDelayed: an equal member gets a new score.
PushDelayed(i) ==
  /\ delayed' = delayed \cup {i}
  /\ due' = due \ {i}
  /\ moved' = moved \ {i}
  /\ UNCHANGED <<queue, swept>>

DelayEnds(i) ==
  /\ i \in delayed \ due
  /\ due' = due \cup {i}
  /\ UNCHANGED <<queue, delayed, moved, swept, poller, worker, pubRows, accountVars,
                 worldVars, attempts, turnedAway, spentVars>>

\* ZRANGEBYSCORE: every 10 seconds a poller reads what is due ...
PollRead(q) ==
  /\ poller[q] = Quiet
  /\ due # {}
  /\ poller' = [poller EXCEPT ![q].read = due]
  /\ UNCHANGED <<queueVars, worker, pubRows, accountVars, worldVars, attempts, turnedAway,
                 spentVars>>

Copies(p) ==
  Cardinality({w \in Workers : ~WorkerAt(w, "idle") /\ worker[w].raw.packet = p})
  + FoldSet(LAMBDA i, sum : sum + queue[i], 0, [packet : {p}, accounts : SUBSET Senders])

\* (Mutant: the member is removed before it is pushed, and the push is forgotten.)
PollSkip(q, i) ==
  /\ i \in poller[q].read /\ poller[q].pushed = {}
  /\ poller' = [poller EXCEPT ![q].pushed = {i}]
  /\ moved' = moved \cup {i}
  /\ UNCHANGED <<queue, delayed, due, swept, worker, pubRows, accountVars, worldVars,
                 attempts, turnedAway, spentVars>>

\* ... pushes each member to content:ready, whoever else has pushed it ...
PollPush(q, i) ==
  /\ i \in poller[q].read /\ poller[q].pushed = {}
  /\ Copies(i.packet) < MaxCopies
  /\ poller' = [poller EXCEPT ![q].pushed = {i}]
  /\ queue' = [queue EXCEPT ![i] = @ + 1]
  /\ moved' = moved \cup ({i} \cap delayed)
  /\ UNCHANGED <<delayed, due, swept, worker, pubRows, accountVars, worldVars, attempts,
                 turnedAway, spentVars>>

\* ... and removes it, whether or not it has been added again in the meantime.
PollRemove(q) ==
  /\ poller[q].pushed # {}
  /\ delayed' = delayed \ poller[q].pushed
  /\ due' = due \ poller[q].pushed
  /\ moved' = moved \ poller[q].pushed
  /\ swept' = swept \cup (poller[q].pushed \cap (delayed \ moved))
  /\ poller' = [poller EXCEPT ![q] = [read |-> @.read \ @.pushed, pushed |-> {}]]
  /\ UNCHANGED <<queue, worker, pubRows, accountVars, worldVars, attempts, turnedAway,
                 spentVars>>

\* Redis refuses, or the process dies: the rest of what was read waits for the next poll.
PollerDies(q) ==
  /\ Bounded
  /\ crashes' = crashes + 1
  /\ poller[q] # Quiet
  /\ poller' = [poller EXCEPT ![q] = Quiet]
  /\ UNCHANGED <<queueVars, worker, pubRows, accountVars, worldVars, attempts, turnedAway,
                 lost, manual, dbErrors>>

-----------------------------------------------------------------------------
(* The publications rows.                                                  *)

\* logPublicationAttempt writes the newest row whatever its status, or the first one.
Logged(pa, status, retries) ==
  LET row == [status |-> status, retry |-> retries]
  IN IF pubRows[pa] = << >> THEN <<row>> ELSE [pubRows[pa] EXCEPT ![Len(pubRows[pa])] = row]

LogAttempt(pa, status, retries) == pubRows' = [pubRows EXCEPT ![pa] = Logged(pa, status, retries)]

Largest(S) == IF S = {} THEN 0 ELSE Max(S)

\* getRetryCount: the largest over all rows.
RetryCount(pa) == Largest({pubRows[pa][n].retry : n \in DOMAIN pubRows[pa]})

-----------------------------------------------------------------------------
(* A worker.                                                               *)

\* BRPOP and ensureContentPacketExists: nothing else holds the packet now.
Receive(w, i) ==
  /\ WorkerAt(w, "idle")
  /\ queue[i] > 0
  /\ queue' = [queue EXCEPT ![i] = @ - 1]
  /\ worker' = [worker EXCEPT ![w] = [Free EXCEPT !.pc = "pick", !.raw = i,
                                      !.targets = i.accounts, !.todo = i.accounts]]
  /\ shared' = IF \E v \in Workers : ~WorkerAt(v, "idle") /\ worker[v].raw.packet = i.packet
               THEN shared \cup {i.packet} ELSE shared
  /\ UNCHANGED <<delayed, due, moved, swept, poller, pubRows, accountVars, today, sent,
                 unlogged, attempts, turnedAway, spentVars>>

\* The accounts are done: currentWorkers goes down.
PacketDone(w) ==
  /\ WorkerAt(w, "pick")
  /\ worker[w].todo = {}
  /\ worker' = [worker EXCEPT ![w] = Free]
  /\ UNCHANGED <<queueVars, poller, pubRows, accountVars, worldVars, attempts, turnedAway,
                 spentVars>>

\* An account that has a published row of the packet is skipped.
Lookup(w, a) ==
  /\ WorkerAt(w, "pick")
  /\ a \in worker[w].todo
  /\ worker' = [worker EXCEPT ![w] =
       IF IsPublished(<<worker[w].raw.packet, a>>)
       THEN [worker[w] EXCEPT !.todo = worker[w].todo \ {a}]
       ELSE [worker[w] EXCEPT !.account = a, !.pc = "guard"]]
  /\ UNCHANGED <<queueVars, poller, pubRows, accountVars, worldVars, attempts, turnedAway,
                 spentVars>>

\* checkDailyLimit and checkRateLimit.
AtLimit(a) == count[a] >= ActionLimit \/ published[a] >= WarmupLimit

\* preActionValidation, checkRateLimit and checkMinInterval, in this order.
Guard(w) ==
  /\ WorkerAt(w, "guard")
  /\ LET a == worker[w].account
     IN Goto(w, CASE a \in blocked -> "turn away"
                  [] a \notin blocked /\ AtLimit(a) -> "postpone"
                  [] a \notin blocked /\ ~AtLimit(a) /\ a \in recent -> "requeue"
                  [] OTHER -> "post")
  /\ UNCHANGED <<queueVars, poller, pubRows, accountVars, worldVars, attempts, turnedAway,
                 spentVars>>

\* A blocked account: the attempt is logged with retry count 0 and the packet is not put back.
TurnAway(w) ==
  /\ WorkerAt(w, "turn away")
  /\ LogAttempt(Handled(w), "failed", 0)
  /\ attempts' = [attempts EXCEPT ![Handled(w)] = 0]
  /\ turnedAway' = turnedAway \cup {Handled(w)}
  /\ NextAccount(w)
  /\ UNCHANGED <<queueVars, poller, accountVars, worldVars, spentVars>>

\* A daily limit: logged in the same way, and the packet is put back for later.
Postpone(w) ==
  /\ WorkerAt(w, "postpone")
  /\ LogAttempt(Handled(w), "failed", 0)
  /\ attempts' = [attempts EXCEPT ![Handled(w)] = 0]
  /\ Goto(w, "requeue")
  /\ UNCHANGED <<queueVars, poller, accountVars, worldVars, turnedAway, spentVars>>

\* requeueWithDelay puts back the whole packet.
Requeue(w) ==
  /\ WorkerAt(w, "requeue")
  /\ PushDelayed(Item(w))
  /\ NextAccount(w)
  /\ UNCHANGED <<poller, pubRows, accountVars, worldVars, attempts, turnedAway, spentVars>>

\* After the human delay the worker looks once more ...
SkipPosted(w) ==
  /\ WorkerAt(w, "post")
  /\ IsPublished(Handled(w))
  /\ NextAccount(w)
  /\ UNCHANGED <<queueVars, poller, pubRows, accountVars, worldVars, attempts, turnedAway, spentVars>>

\* ... and posts.
PostGoesOut(pa) ==
  /\ sent[pa] < MaxPosts
  /\ sent' = [sent EXCEPT ![pa] = @ + 1]
  /\ today' = [today EXCEPT ![pa[2]] = @ + 1]

PostSucceeds(w) ==
  /\ WorkerAt(w, "post")
  /\ ~IsPublished(Handled(w))
  /\ PostGoesOut(Handled(w))
  /\ Goto(w, "insert")
  /\ UNCHANGED <<queueVars, poller, pubRows, accountVars, unlogged, shared, attempts,
                 turnedAway, spentVars>>

Fails(w, kind) == worker' = [worker EXCEPT ![w].pc = "count failure", ![w].failure = kind]

\* classifyError: a permanent failure (it may be a suspension) or one to be tried again.
SendFails(w) ==
  /\ WorkerAt(w, "post")
  /\ ~IsPublished(Handled(w))
  /\ \E kind \in {"permanent", "suspended", "transient"} : Fails(w, kind)
  /\ attempts' = [attempts EXCEPT ![Handled(w)] = @ + 1]
  /\ UNCHANGED <<queueVars, poller, pubRows, accountVars, worldVars, turnedAway, spentVars>>

\* The post went out and its answer was lost.
PostUnanswered(w) ==
  /\ Bounded
  /\ WorkerAt(w, "post")
  /\ ~IsPublished(Handled(w))
  /\ PostGoesOut(Handled(w))
  /\ lost' = lost + 1
  /\ unlogged' = unlogged + 1
  /\ Fails(w, "transient")
  /\ attempts' = [attempts EXCEPT ![Handled(w)] = @ + 1]
  /\ UNCHANGED <<queueVars, poller, pubRows, accountVars, shared, turnedAway, manual, dbErrors,
                 crashes>>

\* (Mutant: the row of a post is not one that checkRateLimit counts.)
InsertUncounted(w) ==
  /\ WorkerAt(w, "insert")
  /\ pubRows' = [pubRows EXCEPT ![Handled(w)] = Append(@, [status |-> "published", retry |-> 0])]
  /\ Goto(w, "activity")
  /\ UNCHANGED <<queueVars, poller, accountVars, worldVars, attempts, turnedAway, spentVars>>

\* logPublication: the unique index admits one published row; a second one is no error.
InsertPublished(w) ==
  /\ WorkerAt(w, "insert")
  /\ LET pa == Handled(w)
     IN IF IsPublished(pa)
        THEN /\ unlogged' = unlogged + 1
             /\ UNCHANGED <<pubRows, published>>
        ELSE /\ pubRows' = [pubRows EXCEPT ![pa] = Append(@, [status |-> "published", retry |-> 0])]
             /\ published' = [published EXCEPT ![pa[2]] = @ + 1]
             /\ UNCHANGED unlogged
  /\ Goto(w, "activity")
  /\ UNCHANGED <<queueVars, poller, blocked, recent, count, today, sent,
                 shared, attempts, turnedAway, spentVars>>

\* updateLastActivity.
UpdateActivity(w) ==
  /\ WorkerAt(w, "activity")
  /\ recent' = recent \cup {worker[w].account}
  /\ Goto(w, "count success")
  /\ UNCHANGED <<queueVars, poller, pubRows, blocked, count, published, worldVars, attempts,
                 turnedAway, spentVars>>

\* recordAction counts successes and failures alike.
Count(w) ==
  /\ \/ WorkerAt(w, "count success") /\ NextAccount(w)
     \/ /\ WorkerAt(w, "count failure")
        /\ worker' = [worker EXCEPT ![w].pc = "log failure", ![w].retries = RetryCount(Handled(w))]
  /\ count' = [count EXCEPT ![worker[w].account] = @ + 1]
  /\ UNCHANGED <<queueVars, poller, pubRows, blocked, recent, published, worldVars,
                 attempts, turnedAway, spentVars>>

Final(w) == worker[w].failure \in {"permanent", "suspended"} \/ worker[w].retries >= MaxRetries

\* A failure has been dealt with: the account is given up or the packet gets another round.
AfterFailure(w) ==
  CASE worker[w].failure = "suspended" -> Goto(w, "alert")
    [] worker[w].failure # "suspended" /\ Final(w) -> NextAccount(w)
    [] OTHER -> Goto(w, "requeue")

\* The row gets its outcome, or one retry more.
LogFailure(w) ==
  /\ WorkerAt(w, "log failure")
  /\ AfterFailure(w)
  /\ IF Final(w)
     THEN /\ LogAttempt(Handled(w), "permanently_failed", 0)
          /\ attempts' = [attempts EXCEPT ![Handled(w)] = 0]
     ELSE /\ LogAttempt(Handled(w), "retrying", worker[w].retries + 1)
          /\ UNCHANGED attempts
  /\ UNCHANGED <<queueVars, poller, accountVars, worldVars, turnedAway, spentVars>>

\* A suspension: the account is banned and an active one takes its place in the packet.
Alert(w) ==
  /\ WorkerAt(w, "alert")
  /\ LET a == worker[w].account
         backups == Senders \ (blocked \cup {a})
     IN /\ blocked' = blocked \cup {a}
        /\ \E more \in {{}} \cup {{b} : b \in backups \ worker[w].targets} :
             worker' = [worker EXCEPT ![w] =
               [worker[w] EXCEPT !.pc = "pick", !.account = NoAccount, !.failure = "none", !.retries = 0,
                                 !.targets = worker[w].targets \cup more,
                                 !.todo = (worker[w].todo \cup more) \ {a}]]
  /\ UNCHANGED <<queueVars, poller, pubRows, recent, count, published, worldVars, attempts,
                 turnedAway, spentVars>>

\* The outer catch takes over the attempt.
Unexpected(w) ==
  /\ Fails(w, "unknown")
  /\ attempts' = [attempts EXCEPT ![Handled(w)] = @ + 1]

\* The look for a published row throws: the outer catch deals with an account whose post may be
\* on record.
LookupThrows(w, a) ==
  /\ WorkerAt(w, "pick")
  /\ a \in worker[w].todo
  /\ worker' = [worker EXCEPT ![w] =
       [worker[w] EXCEPT !.account = a, !.pc = "count failure", !.failure = "unknown"]]
  /\ attempts' = [attempts EXCEPT ![<<worker[w].raw.packet, a>>] = @ + 1]
  /\ UNCHANGED <<queueVars, unlogged, count>>

\* Before the outcome is logged the outer catch counts and logs the attempt, even after a success; a
\* failing insert after the post stops the packet; a failing ZADD is an unexpected error too, and the
\* second one puts back the packet as it came.
StatementThrows(w) ==
  /\ \/ /\ worker[w].pc \in {"guard", "post", "alert", "activity"}
        /\ Unexpected(w)
        /\ UNCHANGED <<queueVars, unlogged>>
     \/ /\ WorkerAt(w, "insert")
        /\ worker' = [worker EXCEPT ![w] = Free]
        /\ unlogged' = unlogged + 1
        /\ UNCHANGED <<queueVars, attempts>>
     \/ /\ WorkerAt(w, "requeue")
        /\ IF worker[w].failure = "unknown"
           THEN /\ queue' = [queue EXCEPT ![worker[w].raw] = @ + 1]
                /\ worker' = [worker EXCEPT ![w] = Free]
                /\ UNCHANGED attempts
           ELSE /\ Unexpected(w)
                /\ UNCHANGED queue
        /\ UNCHANGED <<delayed, due, moved, swept, unlogged>>
  /\ UNCHANGED count

\* A count, a retry count that cannot be read (it is taken for 0) and the row of an attempt: their
\* errors are caught at once.
ErrorSwallowed(w) ==
  /\ \/ worker[w].pc \in {"turn away", "count success"} /\ NextAccount(w) /\ UNCHANGED count
     \/ WorkerAt(w, "postpone") /\ Goto(w, "requeue") /\ UNCHANGED count
     \/ WorkerAt(w, "log failure") /\ AfterFailure(w) /\ UNCHANGED count
     \/ /\ WorkerAt(w, "count failure")
        /\ \E n \in {0, RetryCount(Handled(w))} :
             worker' = [worker EXCEPT ![w].pc = "log failure", ![w].retries = n]
        /\ count' \in {count, [count EXCEPT ![worker[w].account] = @ + 1]}
  /\ UNCHANGED <<queueVars, attempts, unlogged>>

\* A statement of a worker fails.
DbError(w) ==
  /\ Bounded
  /\ dbErrors' = dbErrors + 1
  /\ StatementThrows(w) \/ ErrorSwallowed(w) \/ \E a \in Senders : LookupThrows(w, a)
  /\ UNCHANGED <<poller, pubRows, blocked, recent, published, today, sent, turnedAway, shared, lost,
                 manual, crashes>>

\* The process dies with the packet.
Crash(w) ==
  /\ Bounded
  /\ crashes' = crashes + 1
  /\ ~WorkerAt(w, "idle")
  /\ worker' = [worker EXCEPT ![w] = Free]
  /\ IF WorkerAt(w, "insert") THEN unlogged' = unlogged + 1 ELSE UNCHANGED unlogged
  /\ UNCHANGED <<queueVars, poller, pubRows, accountVars, today, sent, shared, attempts,
                 turnedAway, lost, manual, dbErrors>>

-----------------------------------------------------------------------------
(* The operator, the accounts and the clock.                               *)

\* (Mutant: a published row may be retried as well.)
RetryableAny(row) == row.retry < MaxRetries

Retryable(row) == row.status # "published" /\ row.retry < MaxRetries

\* POST /publications/:id/retry for a packet: a packet for the one account is delayed, and the row
\* is marked.
ManualRetry(pa) ==
  /\ Bounded
  /\ manual' = manual + 1
  /\ \E n \in 1..Len(pubRows[pa]) :
       /\ Retryable(pubRows[pa][n])
       /\ pubRows' = [pubRows EXCEPT ![pa][n].status = "retrying"]
  /\ PushDelayed([packet |-> pa[1], accounts |-> {pa[2]}])
  /\ UNCHANGED <<poller, worker, accountVars, worldVars, attempts, turnedAway, lost,
                 dbErrors, crashes>>

SetBlocked(a) ==
  /\ blocked' \in {blocked \cup {a}, blocked \ {a}}
  /\ blocked' # blocked
  /\ UNCHANGED <<queueVars, poller, worker, pubRows, recent, count, published, worldVars,
                 attempts, turnedAway, spentVars>>

IntervalEnds(a) ==
  /\ a \in recent
  /\ recent' = recent \ {a}
  /\ UNCHANGED <<queueVars, poller, worker, pubRows, blocked, count, published, worldVars,
                 attempts, turnedAway, spentVars>>

NewDay ==
  /\ \E a \in Senders : count[a] + published[a] + today[a] > 0
  /\ count' = [a \in Senders |-> 0]
  /\ published' = [a \in Senders |-> 0]
  /\ today' = [a \in Senders |-> 0]
  /\ UNCHANGED <<queueVars, poller, worker, pubRows, blocked, recent, sent, unlogged,
                 shared, attempts, turnedAway, spentVars>>

Poll(q) == PollRead(q) \/ PollRemove(q) \/ \E i \in Items : PollPush(q, i)

Attempt(w) ==
  Guard(w) \/ TurnAway(w) \/ Postpone(w) \/ Requeue(w) \/ SkipPosted(w)
  \/ PostSucceeds(w) \/ SendFails(w) \/ PostUnanswered(w)

Conclude(w) == InsertPublished(w) \/ UpdateActivity(w) \/ Count(w) \/ LogFailure(w) \/ Alert(w)

WorkerStep(w) ==
  \/ \E i \in Items : Receive(w, i)
  \/ PacketDone(w)
  \/ \E a \in Senders : Lookup(w, a)
  \/ Attempt(w) \/ Conclude(w)

Environment ==
  \/ \E i \in Items : DelayEnds(i)
  \/ \E q \in Pollers : PollerDies(q)
  \/ \E w \in Workers : DbError(w) \/ Crash(w)
  \/ \E pa \in Deliveries : ManualRetry(pa)
  \/ \E a \in Senders : SetBlocked(a) \/ IntervalEnds(a)
  \/ NewDay

LegacyNext ==
  \/ \E q \in Pollers : Poll(q)
  \/ \E w \in Workers : WorkerStep(w)
  \/ Environment

LegacySpec == LegacyInit /\ [][LegacyNext]_legacyVars

-----------------------------------------------------------------------------
(* Properties.                                                             *)

WorkerPcs == {"idle", "pick", "guard", "turn away", "postpone", "requeue", "post", "insert", "activity", "count success", "count failure", "log failure", "alert"}

LegacyTypeOK ==
  /\ queue \in [Items -> Nat]
  /\ delayed \subseteq Items /\ due \subseteq delayed /\ moved \subseteq delayed
  /\ swept \subseteq Items
  /\ poller \in [Pollers -> [read : SUBSET Items, pushed : SUBSET Items]]
  /\ worker \in [Workers ->
       [pc : WorkerPcs, raw : Items, targets : SUBSET Senders, todo : SUBSET Senders,
        account : Senders \cup {NoAccount}, retries : 0..MaxRetries,
        failure : {"none", "permanent", "suspended", "transient", "unknown"}]]
  /\ \A w \in Workers :
       worker[w].pc \in {"idle", "pick"} \/ worker[w].account \in worker[w].todo
  /\ pubRows \in [Deliveries -> Seq([status : RowStatus, retry : 0..MaxRetries])]
  /\ blocked \subseteq Senders /\ recent \subseteq Senders
  /\ count \in [Senders -> Nat] /\ published \in [Senders -> Nat] /\ today \in [Senders -> Nat]
  /\ sent \in [Deliveries -> Nat] /\ attempts \in [Deliveries -> Nat]
  /\ turnedAway \subseteq Deliveries /\ shared \subseteq Packets
  /\ unlogged \in Nat /\ lost \in Nat /\ manual \in Nat /\ dbErrors \in Nat /\ crashes \in Nat

\* Workers past the rate limit of an account that have not recorded their post, and those of them
\* that have posted.
Window(a) == {w \in Workers : worker[w].account = a /\ worker[w].pc \in {"post", "insert"}}
Unwritten(a) == {w \in Workers : worker[w].account = a /\ WorkerAt(w, "insert")}

PublishedBounded ==
  \A a \in Senders :
    published[a] + Cardinality(Window(a)) <= WarmupLimit + Cardinality(Workers) - 1

TodayCounted ==
  \A a \in Senders : today[a] <= published[a] + Cardinality(Unwritten(a)) + unlogged

\* Types, and the two facts that bound how far checkRateLimit, which counts rows
\* that are inserted after the post, can be overrun.
LegacyInvariant == LegacyTypeOK /\ PublishedBounded /\ TodayCounted

\* The posts of an account exceed the warm-up limit of a day by less than the number of calls of
\* processPacket that may run at a time, apart from posts that left no row.
WarmupOverrunBounded ==
  \A a \in Senders : today[a] <= WarmupLimit + Cardinality(Workers) - 1 + unlogged

\* A packet that no two workers have held is posted on an account once, and once more at most for
\* every lost answer, failing statement and death: retries, postponements, manual retries and the
\* rows they overwrite do not repeat a post, and no fault repeats it twice.
PostedOnce ==
  \A pa \in Deliveries : pa[1] \in shared \/ sent[pa] <= 1 + lost + dbErrors + crashes

Carried(pa) ==
  \/ \E i \in Items :
       i.packet = pa[1] /\ pa[2] \in i.accounts /\ (queue[i] > 0 \/ i \in delayed \ moved)
  \/ \E w \in Workers : worker[w].raw.packet = pa[1] /\ pa[2] \in worker[w].todo

Settled(pa) ==
  \/ \E n \in 1..Len(pubRows[pa]) : pubRows[pa][n].status \in {"published", "permanently_failed"}
  \/ pa \in turnedAway

\* A packet that is neither published nor given up on an account of it is on its way, unless a
\* poller removed it from the delayed set although it had been added again, or a death or a failing
\* statement interfered.
NothingLostUnlessSwept ==
  crashes + dbErrors = 0 =>
    \A p \in Packets : \A a \in TargetsOf[p] :
      Settled(<<p, a>>) \/ Carried(<<p, a>>) \/ \E i \in swept : i.packet = p

\* A packet no second worker has held is tried at most max_retries times after its first failure,
\* before it is given up or its count is reset, unless an attempt was not logged.
BudgetRespected ==
  \A pa \in Deliveries : attempts[pa] > MaxRetries + 1 => pa[1] \in shared \/ dbErrors + crashes > 0

\* Posts, tries and losses of a packet are accounted for.
DeliveriesAccounted == PostedOnce /\ BudgetRespected /\ NothingLostUnlessSwept
=============================================================================
