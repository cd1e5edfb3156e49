--------------------------- MODULE MediaProviders ---------------------------
(***************************************************************************)
(* One request for an image or a video to an outside provider, with the    *)
(* loops that retry it: Kie.ai videos ("clip") and images ("photo"),       *)
(* Seedance and AliveAI videos.  Each creates a task that is paid for and  *)
(* then asks for its result; the request may be repeated in three places:  *)
(* the create call, the poll loop and the orchestrator's attempts.         *)
(*                                                                         *)
(* The provider is external: a create call may be accepted although its    *)
(* answer is lost, and a task goes on when nobody asks for it any more.    *)
(* What such a task does is not observed and not modelled.                 *)
(***************************************************************************)
EXTENDS Integers, Sequences, FiniteSets

CONSTANTS
  MediaKinds,    \* kinds of requests that are made
  PollLimit,     \* GENERATION_..._MAX_POLLS
  SuccessWait,   \* GENERATION_VIDEO_SUCCESS_WAIT_POLLS
  MaxCreates,    \* GENERATION_KIE_VIDEO_CREATE_MAX_ATTEMPTS
  MaxAgain,      \* GENERATION_KIE_VIDEO_MAX_RETRIES
  MaxAttempts    \* max_attempts of the Seedance and AliveAI steps

ASSUME MediaAssumption ==
  /\ MediaKinds \subseteq {"clip", "photo", "seedance", "ailive"}
  /\ PollLimit \in Nat \ {0} /\ SuccessWait \in Nat \ {0}
  /\ MaxCreates \in Nat \ {0} /\ MaxAttempts \in Nat \ {0} /\ MaxAgain \in Nat

VARIABLES
  call,   \* the request
  bills   \* the tasks the provider accepted, in order

mediaVars == <<call, bills>>

\* Seedance and AliveAI requests are repeated by the step of the orchestrator.
ByStep == {"seedance", "ailive"}

\* An AliveAI video starts from an image of its own unless a media id is configured.
Beginning(kind, source) == IF kind = "ailive" /\ ~source THEN "image" ELSE "create"

MediaInit ==
  /\ bills = <<>>
  /\ \E kind \in MediaKinds, source \in BOOLEAN :
        call = [kind |-> kind, source |-> source, pc |-> Beginning(kind, source), cycle |-> 1, tries |-> 1,
                polls |-> 0, first |-> 0, images |-> 0, result |-> "none", why |-> "none"]

Last == Len(bills)

\* The request leaves its task: `held' by the poll loop until then.
Leave(left) == bills' = [bills EXCEPT ![Last].left = left]

-----------------------------------------------------------------------------
(* The end of a create-and-poll cycle.                                      *)

\* Mutant: a local timeout is repeated like any other failure.
AgainAlways(why) ==
  \/ call.kind = "clip" /\ why \in {"timeout", "empty"} /\ call.cycle <= MaxAgain
  \/ call.kind \in ByStep /\ call.cycle < MaxAttempts

\* A Kie video is made again when the task was not heard of in time or had no URL; the step of a
\* Seedance or AliveAI video repeats any failure whose text does not say TIMEOUT.
Again(why) ==
  \/ call.kind = "clip" /\ why \in {"timeout", "empty"} /\ call.cycle <= MaxAgain
  \/ call.kind \in ByStep /\ why # "timeout" /\ call.cycle < MaxAttempts

Fresh == [call EXCEPT !.pc = Beginning(call.kind, call.source), !.cycle = @ + 1, !.tries = 1,
                      !.polls = 0, !.first = 0]

EndCycle(why) ==
  call' = IF Again(why) THEN Fresh ELSE [call EXCEPT !.pc = "over", !.result = "failed", !.why = why]

HandOver(url) == call' = [call EXCEPT !.pc = "over", !.result = url]

-----------------------------------------------------------------------------
(* Creation.                                                                *)

Task(left) == [state |-> "working", left |-> left, seen |-> <<>>]

\* The blocking request for the portrait: each attempt makes its own.
SourceImage ==
  /\ call.pc = "image"
  /\ \/ call' = [call EXCEPT !.pc = "create", !.images = @ + 1]
     \/ \E why \in {"refused", "timeout"} : EndCycle(why)
  /\ UNCHANGED bills

CreateAccepted ==
  /\ call.pc = "create"
  /\ bills' = Append(bills, Task("held"))
  /\ call' = [call EXCEPT !.pc = "poll"]

\* AliveAI may answer the creation with the video.
CreateAnswered ==
  /\ call.pc = "create"
  /\ call.kind = "ailive"
  /\ bills' = Append(bills, [Task("used") EXCEPT !.state = "done"])
  /\ HandOver("url")

\* No answer, or one that does not tell that the task exists: the provider may have accepted it.
PerhapsBilled == bills' \in {bills, Append(bills, Task("lost"))}

\* Mutant: one request more than the setting allows.
CreateRetriedOnce ==
  /\ call.pc = "create"
  /\ call.kind = "clip"
  /\ call.tries <= MaxCreates
  /\ call' = [call EXCEPT !.tries = @ + 1]
  /\ PerhapsBilled

\* A transport error or a server's error: a Kie video is asked for again in the same cycle.
CreateRetried ==
  /\ call.pc = "create"
  /\ call.kind = "clip"
  /\ call.tries < MaxCreates
  /\ call' = [call EXCEPT !.tries = @ + 1]
  /\ PerhapsBilled

\* Any other failure, or the last one; the provider's message may contain the word timeout.
CreateFailed ==
  /\ call.pc = "create"
  /\ \E why \in {"refused"} \cup (IF call.kind \in ByStep THEN {"timeout"} ELSE {}) : EndCycle(why)
  /\ PerhapsBilled

\* Code 402: Kie answers with a string in place of the URL.
NoCredits ==
  /\ call.pc = "create"
  /\ call.kind \notin ByStep
  /\ HandOver("credits")
  /\ UNCHANGED bills

-----------------------------------------------------------------------------
(* Polling.                                                                 *)

\* The provider works on the task: its success may precede its URLs, and may be taken back.
Moves == [working |-> {"empty", "done", "failed"}, empty |-> {"working", "done"}, done |-> {}, failed |-> {}]

TaskMoves ==
  /\ call.pc = "poll"
  /\ \E s \in Moves[bills[Last].state] : bills' = [bills EXCEPT ![Last].state = s]
  /\ UNCHANGED call

Polling == call.pc = "poll" /\ call.polls < PollLimit

\* What the poll loop of a Kie video has seen of its task, for the properties.
Note(what) == bills' = IF call.kind = "clip" THEN [bills EXCEPT ![Last].seen = Append(@, what)] ELSE bills

Asked == [call EXCEPT !.polls = @ + 1]

\* An unusable answer is passed over.
PollTroubled ==
  /\ Polling
  /\ call' = Asked
  /\ Note("other")

\* The handlers of Seedance and AliveAI enclose the poll loop: a transport error ends the cycle.
PollBroken ==
  /\ Polling
  /\ call.kind \in ByStep
  /\ Leave("broken")
  /\ EndCycle("broken")

\* Mutant: the wait for URLs is not restarted.
PollWorkingOn ==
  /\ Polling
  /\ bills[Last].state = "working"
  /\ \E what \in {"processing", "other"} : call' = Asked /\ Note(what)

\* The state "processing" restarts the wait for URLs, other states of a working task do not.
PollWorking ==
  /\ Polling
  /\ bills[Last].state = "working"
  /\ \E what \in {"processing", "other"} :
        /\ call' = IF call.kind = "clip" /\ what = "processing" THEN [Asked EXCEPT !.first = 0] ELSE Asked
        /\ Note(what)

\* Success without a URL: AliveAI goes on asking, a Kie video does for SuccessWait more polls.
PollEmpty ==
  /\ Polling
  /\ bills[Last].state = "empty"
  /\ LET polls == call.polls + 1
         first == IF call.first = 0 THEN polls ELSE call.first
         waiting == polls - first < SuccessWait
     IN  \/ call.kind = "ailive" /\ call' = Asked /\ UNCHANGED bills
         \/ call.kind = "clip" /\ waiting /\ call' = [Asked EXCEPT !.first = first] /\ Note("empty")
         \/ /\ call.kind = "clip" /\ ~waiting
            /\ EndCycle("empty")
            /\ bills' = [bills EXCEPT ![Last].left = "empty", ![Last].seen = Append(@, "empty")]
         \/ call.kind \notin {"ailive", "clip"} /\ EndCycle("empty") /\ Leave("empty")

PollDone ==
  /\ Polling
  /\ bills[Last].state = "done"
  /\ HandOver("url")
  /\ Leave("used")

\* AliveAI's answer carries no state: a failed task is asked for until the limit.
PollFailed ==
  /\ Polling
  /\ bills[Last].state = "failed"
  /\ IF call.kind = "ailive" THEN call' = Asked /\ UNCHANGED bills
                             ELSE EndCycle("failed") /\ Leave("ended")

PollsExhausted ==
  /\ call.pc = "poll"
  /\ call.polls = PollLimit
  /\ EndCycle("timeout")
  /\ Leave("timeout")

MediaNext ==
  \/ SourceImage \/ CreateAccepted \/ CreateAnswered \/ CreateRetried \/ CreateFailed \/ NoCredits
  \/ TaskMoves \/ PollTroubled \/ PollBroken \/ PollWorking \/ PollEmpty \/ PollDone \/ PollFailed
  \/ PollsExhausted

MediaSpec == MediaInit /\ [][MediaNext]_mediaVars

-----------------------------------------------------------------------------
(* Properties.                                                              *)

Left(how) == {i \in 1..Last : bills[i].left = how}

MediaTyped ==
  /\ call \in [kind : MediaKinds, source : BOOLEAN, pc : {"image", "create", "poll", "over"},
               cycle : 1..(MaxAttempts + MaxAgain + 1), tries : 1..MaxCreates, polls : 0..PollLimit,
               first : 0..PollLimit, images : 0..MaxAttempts,
               result : {"none", "url", "credits", "failed"},
               why : {"none", "refused", "timeout", "broken", "empty", "failed"}]
  /\ bills \in Seq([state : {"working", "empty", "done", "failed"},
                    left : {"held", "lost", "timeout", "broken", "empty", "ended", "used"},
                    seen : Seq({"other", "processing", "empty"})])

\* The tasks one request can cost.
SpendLimit == [clip |-> MaxCreates * (MaxAgain + 1), photo |-> 1, seedance |-> MaxAttempts, ailive |-> MaxAttempts]

\* What a request may cost (kie_service.py:308, generation_orchestrator.py:1274, 1905 and 2097).  No
\* more tasks than the three retry loops allow together; the poll loop holds the last one and no
\* other; a video that is delivered is the last task's; and a step that gave up waiting for a task of
\* Seedance or AliveAI never asks for another (generation_orchestrator.py:1950).
SpendExplained ==
  /\ Last <= SpendLimit[call.kind]
  /\ call.images <= MaxAttempts
  /\ Left("held") = IF call.pc = "poll" THEN {Last} ELSE {}
  /\ Left("used") = IF call.result = "url" THEN {Last} ELSE {}
  /\ call.kind \in ByStep => Left("timeout") \subseteq {Last} /\ (Left("timeout") # {} => call.pc = "over")
  /\ call.kind = "clip" => Cardinality(Left("timeout") \cup Left("empty")) <= MaxAgain + 1

\* A wait of SuccessWait polls for URLs that no "processing" interrupted.
Waited(seen) ==
  \E i \in 1..Len(seen) :
     /\ Len(seen) - i >= SuccessWait
     /\ seen[i] = "empty" /\ seen[Len(seen)] = "empty"
     /\ \A k \in i..Len(seen) : seen[k] # "processing"

\* A Kie video that was paid for is given up only after its time: without URLs only when the task
\* reported success and kept reporting it for SuccessWait polls (kie_service.py:660 and 700), and as
\* timed out only after every poll of the limit (kie_service.py:621).
PatienceKept ==
  call.kind = "clip" =>
     \A i \in 1..Last : /\ bills[i].left = "empty" => Waited(bills[i].seen)
                        /\ bills[i].left = "timeout" => Len(bills[i].seen) = PollLimit
                        /\ bills[i].left = "held" => ~Waited(bills[i].seen)

\* What a request costs, and what is done with what was paid for.
MediaInvariant == MediaTyped /\ SpendExplained /\ PatienceKept
=============================================================================
