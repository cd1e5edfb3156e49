---------------------------- MODULE AccountCare ----------------------------
(***************************************************************************)
(* The timers of the distribution engine that look after accounts: the     *)
(* shadowban sweep, the operational alerts, the campaign cycle and the     *)
(* evaluation of A/B tests, next to the ban monitor the publisher calls    *)
(* and the operator's own requests.                                        *)
(*                                                                         *)
(* Every timer reads a list and then works through it, statement by        *)
(* statement; nothing stops the same timer of another replica, an          *)
(* overlapping run or an operator in between.  A slot runs one such task:  *)
(* whatever runs at the same time, of one replica or of several, takes     *)
(* slots of its own.  Health scores and engagement figures are data: a     *)
(* drop, a ratio or a winner is chosen freely.                             *)
(***************************************************************************)
EXTENDS Integers, FiniteSets

CONSTANTS Watched,         \* the accounts the timers look after
          Campaigns,
          Keys,            \* alerts, by the prefix of their message
          Unmatched,       \* keys whose prefix the stored message lacks
          Slots,           \* tasks that run at the same time
          Nil,
          MaxTasks,        \* bound: tasks in a behaviour
          MaxEdits,        \* bound: operator requests and changes of the
                           \* conditions that the alerts report
          FrequencyCap     \* posts_per_day goes no further (5 in the code)

ASSUME CareAssumption ==
    /\ Nil \notin Watched \cup Campaigns \cup Keys
    /\ Unmatched \subseteq Keys
    /\ IsFiniteSet(Slots)
    /\ MaxTasks \in Nat
    /\ MaxEdits \in Nat
    /\ FrequencyCap \in Nat \ {0}

VARIABLES status,       \* accounts.status
          frequency,    \* accounts.posts_per_day
          raised,       \* the condition an alert key reports
          open,         \* unread rows of alerts, per key
          campaign,     \* campaigns.status
          test,         \* status and winner of the A/B test
          task,         \* what each slot is doing
          tasks, edits, \* counted for the bounds
          overturned,   \* history: bans undone since an operator set the status
          acted,        \* history: campaign steps since the last pause
          declared      \* history: winners declared

data == <<status, frequency, raised, open, campaign, test>>
history == <<overturned, acted, declared>>
careVars == <<data, task, tasks, edits, history>>

\* What an operator may set, and what the program writes: 'flagged' would take
\* a report of another type than 'ban', and nobody makes one.
PatchStatuses == {"warming", "active", "inactive", "shadowbanned", "banned"}
AccountStatus == PatchStatuses \cup {"cooldown"}
CampaignStatus == {"active", "paused", "deleted"}
NoTask == [job |-> "idle", todo |-> {}, item |-> Nil, seen |-> 0]
Jobs == {"idle", "sweep", "drop", "alert", "insert", "resolve",
         "campaign", "raise", "evaluate", "ban"}

CareInit ==
    /\ status \in [Watched -> {"warming", "active"}]
    /\ frequency = [a \in Watched |-> 1]
    /\ raised = [k \in Keys |-> TRUE]
    /\ open = [k \in Keys |-> 0]
    /\ campaign = [c \in Campaigns |-> "active"]
    /\ test = [status |-> "running", winner |-> Nil]
    /\ task = [s \in Slots |-> NoTask]
    /\ tasks = 0
    /\ edits = 0
    /\ overturned = [a \in Watched |-> 0]
    /\ acted = [c \in Campaigns |-> 0]
    /\ declared = 0

Start(s, t) ==
    /\ task[s] = NoTask
    /\ tasks < MaxTasks
    /\ task' = [task EXCEPT ![s] = t]
    /\ tasks' = tasks + 1
    /\ UNCHANGED edits

Go(s, t) ==
    /\ task' = [task EXCEPT ![s] = t]
    /\ UNCHANGED <<tasks, edits>>

\* The next item of a list, or the end of the task.
Rest(t) == IF t.todo = {} THEN NoTask ELSE t

\* updateAccountHealth with a new status: the row was read before, and what
\* it says now is overwritten.
SetStatus(a, st) ==
    /\ status' = [status EXCEPT ![a] = st]
    /\ overturned' = [overturned EXCEPT ![a] =
                        IF status[a] = "banned" /\ st # "banned" THEN @ + 1 ELSE @]
    /\ UNCHANGED <<frequency, raised, open, campaign, test, acted, declared>>

-----------------------------------------------------------------------------
\* Shadowban sweep and ban monitor

Sweepable(a) == status[a] \in {"active", "warming"}

SweepList(s) ==
    /\ {a \in Watched : Sweepable(a)} # {}
    /\ Start(s, [NoTask EXCEPT !.job = "sweep", !.todo = {a \in Watched : Sweepable(a)}])
    /\ UNCHANGED <<data, history>>

\* analyzeEngagement: too little data or no drop, and the sweep goes on ...
SweepAnalyze(s, a) ==
    LET t == [task[s] EXCEPT !.todo = @ \ {a}] IN
    /\ task[s].job = "sweep"
    /\ a \in task[s].todo
    /\ \/ Go(s, Rest(t))
       \/ Go(s, [t EXCEPT !.job = "drop", !.item = a])
    /\ UNCHANGED <<data, history>>

\* ... or a drop of more than 70 %: the account is flagged, whatever its
\* status has become since the list was read.
SweepFlag(s) ==
    LET t == task[s] IN
    /\ t.job = "drop"
    /\ SetStatus(t.item, "shadowbanned")
    /\ Go(s, Rest([t EXCEPT !.job = "sweep", !.item = Nil]))

\* A mutant: the publisher does not ask for the account's status.
PublishableAny(a) == TRUE

\* preActionValidation
Publishable(a) == status[a] \notin {"banned", "cooldown", "shadowbanned"}

\* The publisher takes up a post of an account that is fit ...
BanStart(s, a) ==
    /\ Publishable(a)
    /\ Start(s, [NoTask EXCEPT !.job = "ban", !.item = a])
    /\ UNCHANGED <<data, history>>

\* ... and minutes later the post has gone out, or was refused for good:
\* recordAlert writes 'banned', or 'cooldown' when the message says that the
\* action was blocked (whatever else it says), over whatever the status has
\* become.  The alert it adds is none of the keys'.
BanWrite(s) ==
    /\ task[s].job = "ban"
    /\ \/ UNCHANGED <<data, history>>
       \/ \E st \in {"banned", "cooldown"} : SetStatus(task[s].item, st)
    /\ Go(s, NoTask)

-----------------------------------------------------------------------------
\* Operational alerts

\* A check queries the condition behind an alert.
AlertCheck(s, k) ==
    /\ Start(s, [NoTask EXCEPT !.job = IF raised[k] THEN "alert" ELSE "resolve", !.item = k])
    /\ UNCHANGED <<data, history>>

\* syncGlobalAlert, the condition gone: every open row of the key is closed.
AlertResolve(s) ==
    LET k == task[s].item IN
    /\ task[s].job = "resolve"
    /\ open' = [open EXCEPT ![k] = IF k \in Unmatched THEN @ ELSE 0]
    /\ Go(s, NoTask)
    /\ UNCHANGED <<status, frequency, raised, campaign, test, history>>

\* The open row the sync would find.
Found(k) == open[k] > 0 /\ k \notin Unmatched

\* The condition holds: an open row is refreshed, and without one ...
AlertLook(s) ==
    LET t == task[s] IN
    /\ t.job = "alert"
    /\ Go(s, IF Found(t.item) THEN NoTask ELSE [t EXCEPT !.job = "insert"])
    /\ UNCHANGED <<data, history>>

\* ... a new row is inserted.
AlertInsert(s) ==
    LET k == task[s].item IN
    /\ task[s].job = "insert"
    /\ open' = [open EXCEPT ![k] = @ + 1]
    /\ Go(s, NoTask)
    /\ UNCHANGED <<status, frequency, raised, campaign, test, history>>

-----------------------------------------------------------------------------
\* Campaigns

\* A mutant: a paused campaign is listed as well.
ListedPaused(c) == campaign[c] # "deleted"

\* getActiveCampaigns
Listed(c) == campaign[c] = "active"

CampaignStart(s) ==
    /\ {c \in Campaigns : Listed(c)} # {}
    /\ Start(s, [NoTask EXCEPT !.job = "campaign", !.todo = {c \in Campaigns : Listed(c)}])
    /\ UNCHANGED <<data, history>>

\* processCampaign: the snapshot of a campaign that was deleted meanwhile is
\* refused, which ends its turn; otherwise its rules run, on the row that was
\* listed, and a high engagement has the account's frequency looked up.
CampaignStep(s, c) ==
    LET t == [task[s] EXCEPT !.todo = @ \ {c}] IN
    /\ task[s].job = "campaign"
    /\ c \in task[s].todo
    /\ \/ /\ campaign[c] # "deleted"
          /\ acted' = [acted EXCEPT ![c] = @ + 1]
          /\ \/ Go(s, Rest(t))
             \/ \E a \in Watched : Go(s, [t EXCEPT !.job = "raise", !.item = a,
                                                    !.seen = frequency[a]])
       \/ /\ campaign[c] = "deleted"
          /\ Go(s, Rest(t))
          /\ UNCHANGED acted
    /\ UNCHANGED <<data, overturned, declared>>

\* getFrequencyOptimization: one more post a day, up to the cap.
Raised(n) == IF n + 1 > FrequencyCap THEN FrequencyCap ELSE n + 1

CampaignRaise(s) ==
    LET t == task[s] IN
    /\ t.job = "raise"
    /\ frequency' = [frequency EXCEPT ![t.item] = Raised(t.seen)]
    /\ Go(s, Rest([t EXCEPT !.job = "campaign", !.item = Nil, !.seen = 0]))
    /\ UNCHANGED <<status, raised, open, campaign, test, history>>

-----------------------------------------------------------------------------
\* A/B tests

\* A mutant: a completed test is evaluated again.
UndecidedAny == TRUE

\* evaluateTest looks at the status first, ...
Undecided == test.status # "completed"

EvaluateStart(s) ==
    /\ Undecided
    /\ Start(s, [NoTask EXCEPT !.job = "evaluate"])
    /\ UNCHANGED <<data, history>>

\* ... then at the figures of the variants: not enough of them or too close,
\* or a winner, which overwrites the one declared meanwhile.
EvaluateDecide(s) ==
    /\ task[s].job = "evaluate"
    /\ \/ UNCHANGED <<test, declared>>
       \/ \E w \in {"A", "B"} : /\ test' = [status |-> "completed", winner |-> w]
                                /\ declared' = declared + 1
    /\ Go(s, NoTask)
    /\ UNCHANGED <<status, frequency, raised, open, campaign, overturned, acted>>

-----------------------------------------------------------------------------
\* The operator and the world

Edit ==
    /\ edits < MaxEdits
    /\ edits' = edits + 1
    /\ UNCHANGED <<task, tasks>>

\* PATCH /accounts/:id
PatchStatus(a, st) ==
    /\ Edit
    /\ status' = [status EXCEPT ![a] = st]
    /\ overturned' = [overturned EXCEPT ![a] = 0]
    /\ UNCHANGED <<frequency, raised, open, campaign, test, acted, declared>>

\* PATCH and DELETE /campaigns/:id
PatchCampaign(c, st) ==
    /\ Edit
    /\ campaign[c] # "deleted"
    /\ campaign' = [campaign EXCEPT ![c] = st]
    /\ acted' = [acted EXCEPT ![c] = 0]
    /\ UNCHANGED <<status, frequency, raised, open, test, overturned, declared>>

\* The condition an alert reports comes or goes.
Toggle(k) ==
    /\ Edit
    /\ raised' = [raised EXCEPT ![k] = ~@]
    /\ UNCHANGED <<status, frequency, open, campaign, test, history>>

CareNext ==
    \/ \E s \in Slots :
          \/ SweepList(s) \/ SweepFlag(s) \/ BanWrite(s)
          \/ \E a \in Watched : SweepAnalyze(s, a) \/ BanStart(s, a)
          \/ \E k \in Keys : AlertCheck(s, k)
          \/ AlertResolve(s) \/ AlertLook(s) \/ AlertInsert(s)
          \/ CampaignStart(s) \/ CampaignRaise(s)
          \/ \E c \in Campaigns : CampaignStep(s, c)
          \/ EvaluateStart(s) \/ EvaluateDecide(s)
    \/ \E a \in Watched, st \in PatchStatuses : PatchStatus(a, st)
    \/ \E c \in Campaigns, st \in CampaignStatus : PatchCampaign(c, st)
    \/ \E k \in Keys : Toggle(k)

CareSpec == CareInit /\ [][CareNext]_careVars

-----------------------------------------------------------------------------
CareTypeOK ==
    /\ status \in [Watched -> AccountStatus]
    /\ frequency \in [Watched -> Nat]
    /\ raised \in [Keys -> BOOLEAN]
    /\ open \in [Keys -> Nat]
    /\ campaign \in [Campaigns -> CampaignStatus]
    /\ test \in [status : {"running", "completed"}, winner : {"A", "B", Nil}]
    /\ task \in [Slots -> [job : Jobs, todo : SUBSET (Watched \cup Campaigns),
                           item : Watched \cup Keys \cup {Nil}, seen : Nat]]
    /\ tasks \in 0 .. MaxTasks
    /\ edits \in 0 .. MaxEdits
    /\ overturned \in [Watched -> Nat]
    /\ acted \in [Campaigns -> Nat]
    /\ declared \in Nat

\* A ban is undone only by a sweep that had listed the account before, or by
\* a publisher that had found it fit before (its 'Action Blocked' turns a ban
\* into a cooldown), once for each that runs at the same time; however often
\* the account is banned, only an operator makes it fit for another listing
\* or another post.
OverturnedBounded == \A a \in Watched : overturned[a] <= Cardinality(Slots)

\* "One open proxy-pool warning at a time": runs that overlap all miss the
\* row the others are about to insert, and no key gets more open rows than
\* runs overlap (syncGlobalAlert, syncAccountAlert).
OpenAlertsBounded ==
    \A k \in Keys \ Unmatched : open[k] <= Cardinality(Slots)

\* A campaign that was paused or deleted acts at most once more in each cycle
\* that had listed it, and no account is ever sent over the ceiling of posts
\* a day, whichever cycles raise it from figures they read earlier.
PausedActsBounded ==
    /\ \A c \in Campaigns : campaign[c] # "active" => acted[c] <= Cardinality(Slots)
    /\ \A a \in Watched : frequency[a] <= FrequencyCap

\* A winner is declared again only by evaluations that were running when it
\* was declared first (evaluateTest).
DeclarationsBounded == declared <= Cardinality(Slots)

\* Timers that act on lists read earlier, and timers that look before they
\* write: no replica and no slow run makes them worse than their number.
CareBounded ==
    /\ CareTypeOK
    /\ OverturnedBounded /\ PausedActsBounded
    /\ OpenAlertsBounded /\ DeclarationsBounded
=============================================================================
