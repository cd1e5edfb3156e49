--------------------------- MODULE IntentCreation ---------------------------
(***************************************************************************)
(* The publish panel of the studio and the requests it sends: creation of  *)
(* a publish intent, its dispatch, and the outcome the panel shows while    *)
(* it polls the intent (GenerationStudioPublishPanel, publication-outcome,  *)
(* create_publish_intent and dispatch_intent of generation_jobs.py).        *)
(*                                                                         *)
(* One job with one asset.  A request reads the intents twice before it     *)
(* inserts (once by its key, once for an active post of the same accounts)  *)
(* and nothing locks them in between, so requests of several panels, and    *)
(* of one panel that stopped waiting, interleave at each read.              *)
(*                                                                         *)
(* What happens to a queued intent is PublishPipeline; here it only ends.   *)
(***************************************************************************)
EXTENDS Integers, FiniteSets

CONSTANTS Panels,          \* open publish panels
          Slots,           \* requests the server works on at a time
          Intents,         \* ids of intents: bounds how many are made
          AccountSets,     \* choices of target accounts
          Captions,
          Nobody,
          MaxMatched,      \* LIMIT of the search for an active post (30 in the code)
          MaxSubmits,      \* bound: submissions in a behaviour
          MaxLost,         \* bound: answers lost or given up on
          MaxReopened,     \* bound: manual retries of a failed intent
          MaxPolls         \* bound: different poll answers in flight

ASSUME IntentAssumption ==
    /\ Nobody \notin Panels \cup Intents
    /\ IsFiniteSet(Slots) /\ IsFiniteSet(Intents)
    /\ MaxMatched \in Nat \ {0}
    /\ {MaxSubmits, MaxLost, MaxReopened, MaxPolls} \subseteq Nat

VARIABLES made,        \* intents that exist
          intent,      \* their rows
          slot,        \* the request each slot works on
          panel,       \* what each panel waits for
          outcome,     \* the publication outcome each panel shows
          polls,       \* statuses in flight to each panel's polling effect
          overlapped,  \* history: a request began before another had ended
          crowded,     \* history: a search met more active posts than it reads
          submits, lost, reopened

server == <<made, intent>>
deskCounters == <<submits, lost, reopened, overlapped, crowded>>
deskVars == <<server, slot, panel, outcome, polls, deskCounters>>

PublishModes == {"publish_now", "save_for_later", "scheduled"}
Active == {"ready", "queued"}
Ended == {"published", "failed"}
Status == {"draft"} \cup Active \cup Ended

\* buildPublishIdempotencyKey: the job, asset and content type are fixed.
Key == [accounts : AccountSets, caption : Captions, mode : PublishModes]
Actions == {"post_now", "create"}     \* the buttons that only create differ in wording

NoRow == [key |-> Nobody, accounts |-> Nobody, mode |-> "none", born |-> "none", status |-> "none"]
\* mode is what a reschedule changes, born the mode of the insert.
Row == [key : Key, accounts : AccountSets, mode : PublishModes, born : PublishModes, status : Status]
           \cup {NoRow}

Free == [stage |-> "free", for |-> Nobody, key |-> Nobody, mode |-> "none", id |-> Nobody, status |-> "none"]
Stages == {"free", "lookup", "match", "insert", "created", "dispatch", "dispatched", "refused"}

Quiet == [waits |-> FALSE, want |-> Nobody, action |-> "none"]
Blank == [id |-> Nobody, status |-> "none", action |-> "none", dispatched |-> FALSE, error |-> FALSE]

DeskInit ==
    /\ made = {}
    /\ intent = [i \in Intents |-> NoRow]
    /\ slot = [s \in Slots |-> Free]
    /\ panel = [p \in Panels |-> Quiet]
    /\ outcome = [p \in Panels |-> Blank]
    /\ polls = [p \in Panels |-> {}]
    /\ submits = 0 /\ lost = 0 /\ reopened = 0 /\ overlapped = FALSE /\ crowded = FALSE

ByKey(k) == {i \in made : intent[i].key = k}
\* A mutant: the accounts are not compared.
ActivePostsOfAnyone(a) ==
    {i \in made : intent[i].mode = "publish_now" /\ intent[i].status \in Active}

\* The active posts of the asset to the accounts a.
ActivePosts(a) ==
    {i \in made : /\ intent[i].mode = "publish_now"
                  /\ intent[i].status \in Active
                  /\ intent[i].accounts = a}

ActiveNow == UNION {ActivePosts(a) : a \in AccountSets}

\* The rows one search reads: the newest, and created_at is when a request began, so the rows that are
\* inserted last need not be the newest.
Matched ==
    {rows \in SUBSET ActiveNow :
        IF Cardinality(ActiveNow) <= MaxMatched THEN rows = ActiveNow ELSE Cardinality(rows) = MaxMatched}

Terminal(o) == o.error \/ o.status \in Ended

\* A mutant: a dispatched intent is not polled any more.
WatchedUntilSent(o) == IF Terminal(o) \/ o.dispatched THEN Nobody ELSE o.id

\* The intent the panel's effect polls.
Watched(o) == IF Terminal(o) THEN Nobody ELSE o.id

\* A mutant: the effect has no clean-up.
ShowOnly(p, o) == outcome' = [outcome EXCEPT ![p] = o] /\ UNCHANGED polls

\* The panel shows o; the clean-up of an effect on another intent, or on
\* one that has ended, cancels the polls in flight.
Show(p, o) ==
    /\ outcome' = [outcome EXCEPT ![p] = o]
    /\ polls' = [polls EXCEPT ![p] = IF Watched(o) = Watched(outcome[p]) THEN @ ELSE {}]

Reply(s, answer) == slot' = [slot EXCEPT ![s] = answer]

-----------------------------------------------------------------------------
\* The panel

\* One of the three buttons: "post now" creates and then dispatches, the
\* other two only create.  They are disabled while an answer is awaited.
\* A time chosen in the future may have passed when the server reads it
\* (late); it then creates a publish_now intent under the scheduled key.
Submit(p, s, want, action, late) ==
    /\ ~panel[p].waits
    /\ slot[s] = Free
    /\ submits < MaxSubmits
    /\ action = "post_now" => want.mode = "publish_now"
    /\ late => want.mode = "scheduled"
    /\ panel' = [panel EXCEPT ![p] = [waits |-> TRUE, want |-> want, action |-> action]]
    /\ Show(p, Blank)
    /\ Reply(s, [Free EXCEPT !.stage = "lookup", !.for = p, !.key = want,
                             !.mode = IF late THEN "publish_now" ELSE want.mode])
    /\ submits' = submits + 1
    /\ overlapped' = (overlapped \/ \E other \in Slots : slot[other] # Free)
    /\ UNCHANGED <<server, lost, reopened, crowded>>

Done(p) == panel' = [panel EXCEPT ![p].waits = FALSE]

\* The answer to the creation: a post goes on with the dispatch, the other
\* actions show the intent.
Created(s) ==
    LET p == slot[s].for IN
    /\ slot[s].stage = "created"
    /\ p # Nobody
    /\ IF panel[p].action = "post_now"
       THEN /\ Reply(s, [slot[s] EXCEPT !.stage = "dispatch"])
            /\ UNCHANGED <<panel, outcome, polls>>
       ELSE /\ Done(p)
            /\ Show(p, [Blank EXCEPT !.id = slot[s].id, !.status = slot[s].status,
                                     !.action = panel[p].action])
            /\ Reply(s, Free)
    /\ UNCHANGED <<server, deskCounters>>

\* The answer to the dispatch.
Dispatched(s) ==
    LET p == slot[s].for IN
    /\ slot[s].stage = "dispatched"
    /\ p # Nobody
    /\ Done(p)
    /\ Show(p, [Blank EXCEPT !.id = slot[s].id, !.status = "queued",
                             !.action = "post_now", !.dispatched = TRUE])
    /\ Reply(s, Free)
    /\ UNCHANGED <<server, deskCounters>>

\* The outcome of a request that failed.  A post shows a failure: of the
\* intent when it exists, of no intent when its creation failed.  The other
\* actions show the message alone.
Failure(p, s) ==
    IF panel[p].action # "post_now" THEN Blank
    ELSE IF slot[s].id = Nobody \/ slot[s].stage = "created"
    THEN [Blank EXCEPT !.status = "failed", !.action = "post_now", !.error = TRUE]
    ELSE [Blank EXCEPT !.id = slot[s].id, !.status = slot[s].status,
                       !.action = "post_now", !.error = TRUE]

Refused(s) ==
    LET p == slot[s].for IN
    /\ slot[s].stage = "refused"
    /\ p # Nobody
    /\ Done(p)
    /\ Show(p, Failure(p, s))
    /\ Reply(s, Free)
    /\ UNCHANGED <<server, deskCounters>>

\* The client gives up after 5 s, or the connection breaks: the panel is
\* free again while the server goes on.
GiveUp(p, s) ==
    /\ slot[s].for = p
    /\ lost < MaxLost
    /\ lost' = lost + 1
    /\ Done(p)
    /\ Show(p, Failure(p, s))
    /\ Reply(s, [slot[s] EXCEPT !.for = Nobody])
    /\ UNCHANGED <<server, submits, reopened, overlapped, crowded>>

\* "Retry" and "dismiss" of the status card clear the outcome.
Clear(p) ==
    /\ outcome[p] # Blank
    /\ ~panel[p].waits
    /\ Show(p, Blank)
    /\ UNCHANGED <<server, slot, panel, deskCounters>>

\* The polling effect: a request every 3 s, answered from the row as it is
\* when the server reads it, applied if the effect is still the same.
PollSend(p) ==
    LET i == Watched(outcome[p]) IN
    /\ i # Nobody
    /\ Cardinality(polls[p] \cup {intent[i].status}) <= MaxPolls
    /\ polls' = [polls EXCEPT ![p] = @ \cup {intent[i].status}]
    /\ UNCHANGED <<server, slot, panel, outcome, deskCounters>>

Resolve(o, status) == [o EXCEPT !.status = status]

PollAnswer(p) ==
    /\ \E status \in polls[p] :
         LET o == Resolve(outcome[p], status) IN
         /\ outcome' = [outcome EXCEPT ![p] = o]
         /\ polls' = [polls EXCEPT ![p] = IF Terminal(o) THEN {} ELSE @ \ {status}]
    /\ UNCHANGED <<server, slot, panel, deskCounters>>

PollLost(p, status) ==
    /\ status \in polls[p]
    /\ lost < MaxLost
    /\ lost' = lost + 1
    /\ polls' = [polls EXCEPT ![p] = @ \ {status}]
    /\ UNCHANGED <<server, slot, panel, outcome, submits, reopened, overlapped, crowded>>

-----------------------------------------------------------------------------
\* The server

\* The answer of a creation, with the status read for it; nobody may be
\* waiting for it any more.
Answer(s, i, status) ==
    Reply(s, IF slot[s].for = Nobody THEN Free
             ELSE [slot[s] EXCEPT !.stage = "created", !.id = i, !.status = status])

Refuse(s) ==
    Reply(s, IF slot[s].for = Nobody THEN Free ELSE [slot[s] EXCEPT !.stage = "refused"])

\* An asset that is not ready or an unknown account (400), or a statement
\* that fails (500): the transaction is rolled back.
Reject(s) ==
    /\ slot[s].stage \in {"match", "insert", "dispatch"}
    /\ lost < MaxLost
    /\ lost' = lost + 1
    /\ Refuse(s)
    /\ UNCHANGED <<server, panel, outcome, polls, submits, reopened, overlapped, crowded>>

\* A known key answers with its intent, whatever became of it.
LookupKey(s) ==
    /\ slot[s].stage = "lookup"
    /\ IF ByKey(slot[s].key) # {}
       THEN \E i \in ByKey(slot[s].key) : Answer(s, i, intent[i].status)
       ELSE Reply(s, [slot[s] EXCEPT !.stage =
                        IF slot[s].mode = "publish_now" THEN "match" ELSE "insert"])
    /\ UNCHANGED <<server, panel, outcome, polls, deskCounters>>

\* publish_now: an active post of the same job, asset and accounts answers
\* instead, with its own caption, when the search reads it.
MatchActive(s) ==
    /\ slot[s].stage = "match"
    /\ \E rows \in Matched :
         LET same == rows \cap ActivePosts(slot[s].key.accounts) IN
         IF same # {}
         THEN \E i \in same : Answer(s, i, intent[i].status)
         ELSE Reply(s, [slot[s] EXCEPT !.stage = "insert"])
    /\ crowded' = (crowded \/ Cardinality(ActiveNow) > MaxMatched)
    /\ UNCHANGED <<server, panel, outcome, polls, submits, lost, reopened, overlapped>>

\* Ids differ in nothing else: one that is not in use is as good as another.
NewId == CHOOSE i \in Intents : i \notin made

\* The insert; the unique key turns a second insert into a read.
InsertIntent(s) ==
    LET k == slot[s].key IN
    /\ slot[s].stage = "insert"
    /\ IF ByKey(k) # {}
       THEN /\ \E i \in ByKey(k) : Answer(s, i, intent[i].status)
            /\ UNCHANGED server
       ELSE LET i == NewId
                status == IF slot[s].mode = "save_for_later" THEN "draft" ELSE "ready"
            IN /\ made # Intents
               /\ made' = made \cup {i}
               /\ intent' = [intent EXCEPT ![i] = [key |-> k, accounts |-> k.accounts,
                                                   mode |-> slot[s].mode, born |-> slot[s].mode,
                                                   status |-> status]]
               /\ Answer(s, i, status)
    /\ UNCHANGED <<panel, outcome, polls, deskCounters>>

\* A mutant: an intent that is already queued is refused.
DispatchReady(s) ==
    LET i == slot[s].id IN
    /\ slot[s].stage = "dispatch"
    /\ IF intent[i].status = "ready"
       THEN /\ intent' = [intent EXCEPT ![i].status = "queued"]
            /\ Reply(s, IF slot[s].for = Nobody THEN Free
                        ELSE [slot[s] EXCEPT !.stage = "dispatched"])
       ELSE /\ Refuse(s)
            /\ UNCHANGED intent
    /\ UNCHANGED <<made, panel, outcome, polls, deskCounters>>

\* dispatch_intent: one transaction; an intent already queued is left alone
\* and answered as dispatched, one that is neither ready nor queued is
\* refused.
DispatchIntent(s) ==
    LET i == slot[s].id IN
    /\ slot[s].stage = "dispatch"
    /\ IF intent[i].status \in Active
       THEN /\ intent' = [intent EXCEPT ![i].status = "queued"]
            /\ Reply(s, IF slot[s].for = Nobody THEN Free
                        ELSE [slot[s] EXCEPT !.stage = "dispatched"])
       ELSE /\ Refuse(s)
            /\ UNCHANGED intent
    /\ UNCHANGED <<made, panel, outcome, polls, deskCounters>>

\* An answer nobody waits for is dropped.
Drop(s) ==
    /\ slot[s].stage \in {"created", "dispatched", "refused"}
    /\ slot[s].for = Nobody
    /\ Reply(s, Free)
    /\ UNCHANGED <<server, panel, outcome, polls, deskCounters>>

\* The pipeline: the scheduler queues a scheduled intent, the workers end a
\* queued one, and a manual retry of its targets gives a failed one
\* another end.
RunSchedule(i) ==
    /\ intent[i].mode = "scheduled"
    /\ intent[i].status = "ready"
    /\ intent' = [intent EXCEPT ![i].status = "queued"]
    /\ UNCHANGED <<made, slot, panel, outcome, polls, deskCounters>>

EndIntent(i, status) ==
    /\ intent[i].status = "queued"
    /\ intent' = [intent EXCEPT ![i].status = status]
    /\ UNCHANGED <<made, slot, panel, outcome, polls, deskCounters>>

RetryPublished(i) ==
    /\ intent[i].status = "failed"
    /\ reopened < MaxReopened
    /\ reopened' = reopened + 1
    /\ intent' = [intent EXCEPT ![i].status = "published"]
    /\ UNCHANGED <<made, slot, panel, outcome, polls, submits, lost, overlapped, crowded>>

\* The calendar gives an intent that is not sent a time: whatever its mode was it is scheduled now, a
\* draft becomes ready, a failed one stays failed, and its key stays what it was.
Reschedule(i) ==
    /\ intent[i].status \notin {"queued", "published"}
    /\ intent' = [intent EXCEPT ![i].mode = "scheduled",
                                ![i].status = IF @ = "draft" THEN "ready" ELSE @]
    /\ UNCHANGED <<made, slot, panel, outcome, polls, deskCounters>>

-----------------------------------------------------------------------------
PanelStep ==
    \/ \E p \in Panels, s \in Slots, want \in Key, action \in Actions, late \in BOOLEAN :
         Submit(p, s, want, action, late)
    \/ \E p \in Panels, s \in Slots : GiveUp(p, s)
    \/ \E p \in Panels : Clear(p) \/ PollSend(p) \/ PollAnswer(p)
    \/ \E p \in Panels, status \in Status : PollLost(p, status)

Receive(s) == Created(s) \/ Dispatched(s) \/ Refused(s) \/ Drop(s)

Serve(s) == LookupKey(s) \/ MatchActive(s) \/ InsertIntent(s) \/ DispatchIntent(s)

Pipeline(i) == RunSchedule(i) \/ (\E status \in Ended : EndIntent(i, status))

DeskNext ==
    \/ PanelStep
    \/ \E s \in Slots : Receive(s) \/ Serve(s) \/ Reject(s)
    \/ \E i \in made : Pipeline(i) \/ RetryPublished(i) \/ Reschedule(i)

\* The server serves, the network answers, the interval fires and the
\* pipeline ends what is queued; the user owes nothing.
DeskFairness ==
    /\ \A s \in Slots : WF_deskVars(Serve(s)) /\ WF_deskVars(Receive(s))
    /\ \A p \in Panels : WF_deskVars(PollSend(p)) /\ WF_deskVars(PollAnswer(p))
    /\ \A i \in Intents : WF_deskVars(i \in made /\ Pipeline(i))

DeskSpec == DeskInit /\ [][DeskNext]_deskVars /\ DeskFairness

-----------------------------------------------------------------------------
DeskTypeOK ==
    /\ made \subseteq Intents
    /\ intent \in [Intents -> Row]
    /\ \A s \in Slots : /\ slot[s].stage \in Stages
                        /\ slot[s].for \in Panels \cup {Nobody}
                        /\ slot[s].id \in made \cup {Nobody}
    /\ \A p \in Panels : /\ panel[p].waits \in BOOLEAN
                         /\ outcome[p].id \in made \cup {Nobody}
                         /\ polls[p] \subseteq Status

\* As long as no request began before the one before it had ended, on the
\* server and not only in its panel, and no search met more active posts of
\* the asset than it reads, one active post of a choice of accounts exists:
\* across panels, keys, scheduled times that had passed and reschedules.
PostsExplained ==
    ~overlapped /\ ~crowded => \A a \in AccountSets : Cardinality(ActivePosts(a)) <= 1

\* The intent a panel shows publishes to the accounts of its submission,
\* whether it was made for it, found by its key or matched as active; a
\* post is answered with an intent that was created as a post and never with
\* one that began as a draft or with a time.  It may have been given a time
\* since: a reschedule changes the mode and leaves the key.
AnswerFits ==
    \A p \in Panels :
        outcome[p].id # Nobody =>
            /\ intent[outcome[p].id].accounts = panel[p].want.accounts
            /\ outcome[p].action = "post_now" => /\ intent[outcome[p].id].born = "publish_now"
                                                 /\ intent[outcome[p].id].status # "draft"

\* What a panel is answered and what create_publish_intent lets in.
DeskInvariant == DeskTypeOK /\ AnswerFits /\ PostsExplained

\* Without a lost answer and a rejected request, "post now" reports a
\* failure of an intent only when that intent has ended: two panels sent to
\* the same intent both dispatch it and neither shows an error.
FailureExplained ==
    lost = 0 =>
        \A p \in Panels :
            outcome[p].error /\ outcome[p].id # Nobody => intent[outcome[p].id].status \in Ended

\* An end once shown is only replaced by a new submission or a dismissal:
\* no answer that was in flight turns it back.
TerminalStays ==
    [][\A p \in Panels :
         Terminal(outcome[p]) => outcome'[p] \in {outcome[p], Blank}]_deskVars

\* Every submission comes back to its panel: the buttons never stay blocked.
SubmissionReturns == \A p \in Panels : panel[p].waits ~> ~panel[p].waits

\* A panel that shows a dispatched intent goes on polling until it shows
\* its end, unless the user starts something else.
DispatchedIsShown ==
    \A p \in Panels :
        outcome[p].dispatched /\ ~Terminal(outcome[p])
            ~> Terminal(outcome[p]) \/ ~outcome[p].dispatched

\* The panel always gets on, and what it shows as sent it follows to the end.
PanelLive == SubmissionReturns /\ DispatchedIsShown
=============================================================================
