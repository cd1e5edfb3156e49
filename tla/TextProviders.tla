---------------------------- MODULE TextProviders ----------------------------
(***************************************************************************)
(* One request for texts to the language models: the draft of a job (a     *)
(* persona, a scene plan and a caption), the preview of a plan, the        *)
(* caption of a manual post, topic ideas, and the reply to a comment.      *)
(* Each operation is retried by a decorator; what is left of an error      *)
(* decides whether the caller falls back from Anthropic to Gemini, answers *)
(* from a static pool, or fails.                                           *)
(*                                                                         *)
(* A model's answer is an external choice: usable, malformed, a transient  *)
(* error, a rate limit or quota, or Anthropic's "credit balance" error.    *)
(* Of a plan only its number of scenes is kept.                            *)
(***************************************************************************)
EXTENDS Integers, FiniteSets

CONSTANTS
  TextKinds,   \* kinds of requests that are made
  Tries,       \* stop_after_attempt of the decorators
  NumModels    \* Gemini models a reply is tried with

ASSUME TextAssumption ==
  /\ TextKinds \subseteq {"draft", "preview", "caption", "topics", "reply"}
  /\ Tries \in Nat \ {0} /\ NumModels \in Nat \ {0}

VARIABLE text
textVars == <<text>>

TextProvidersUsed == {"anthropic", "gemini"}
TextOps == {"persona", "plan", "caption", "topics", "reply"}

\* The operation a request begins with; only an AILIVEAI draft has a persona.
FirstOps(kind) == CASE kind = "draft" -> {"persona", "plan"}
                    [] kind = "preview" -> {"plan"}
                    [] OTHER -> {kind}

NoText == [op \in TextOps |-> "none"]

\* _prefer_anthropic: with both keys the setting decides; a request without any key is refused
\* before it asks.  `synthetic': GENERATION_ALLOW_SYNTHETIC_PREVIEW_FALLBACK.
TextInit ==
  \E kind \in TextKinds, from \in TextProvidersUsed, gemini, synthetic \in BOOLEAN, wanted \in {1, 7} :
  \E op \in FirstOps(kind) :
     /\ from = "gemini" => gemini
     /\ op = "persona" => wanted = 1
     /\ text = [kind |-> kind, op |-> op, provider |-> from, from |-> from, gemini |-> gemini,
                synthetic |-> synthetic, wanted |-> wanted, try |-> 1, model |-> 1,
                asked |-> [o \in TextOps |-> [p \in TextProvidersUsed |-> 0]],
                quota |-> [o \in TextOps |-> 0], credit |-> FALSE,
                texts |-> NoText, scenes |-> 0, result |-> "none"]

Working == text.result = "none"

Count(t) == [t EXCEPT !.asked[t.op][t.provider] = @ + 1]

-----------------------------------------------------------------------------
(* The answers of the models.                                               *)

Answers(provider) == {"transient", "malformed"}
                     \cup (IF provider = "anthropic" THEN {"credit", "rate"} ELSE {"quota"})

\* Mutant: the quota is retried too.
RetriedAll(op, provider, answer) ==
  IF provider = "anthropic" THEN op \notin {"topics", "reply"} /\ answer \in {"transient", "credit", "rate"}
                            ELSE answer \in {"transient", "quota"}

\* The decorators retry every error of Anthropic's API, and Google's API errors but the quota.  The
\* topics and the reply of Anthropic have no decorator.
Retried(op, provider, answer) ==
  IF provider = "anthropic" THEN op \notin {"topics", "reply"} /\ answer \in {"transient", "credit", "rate"}
                            ELSE answer = "transient"

NextTry(t, a) ==
  LET c == [Count(t) EXCEPT !.try = @ + 1]
  IN  IF a = "quota" THEN [c EXCEPT !.quota[c.op] = c.asked[c.op]["gemini"]] ELSE c

AskAgain ==
  /\ Working /\ ~(text.op = "reply" /\ text.provider = "gemini")
  /\ text.try < Tries
  /\ \E a \in Answers(text.provider) :
        /\ Retried(text.op, text.provider, a)
        /\ text' = NextTry(text, a)

-----------------------------------------------------------------------------
(* What the callers do with a text.                                         *)

Go(t, op, provider) == [t EXCEPT !.op = op, !.provider = provider, !.try = 1]

\* An accepted plan has one scene when one was wanted, else six to eight; fewer are refused as
\* malformed and more are cut off.
PlanSizes(wanted) == IF wanted = 1 THEN {1} ELSE 6..8

Kept(t) == [t EXCEPT !.texts[t.op] = t.provider]

\* A draft's persona may come from another provider: only this call of it falls back.
Answered ==
  /\ Working /\ ~(text.op = "reply" /\ text.provider = "gemini")
  /\ LET t == Kept(Count(text))
     IN  CASE t.op = "persona" -> text' = Go(t, "plan", t.from)
           [] t.op = "plan" ->
                 \E n \in PlanSizes(t.wanted) :
                    text' = IF t.kind = "draft" THEN [Go(t, "caption", t.provider) EXCEPT !.scenes = n]
                                                ELSE [t EXCEPT !.scenes = n, !.result = "ok"]
           [] OTHER -> text' = [t EXCEPT !.result = "ok"]

\* A credit error of Anthropic turns a caller to Gemini: a draft makes plan and caption anew.  The
\* caption of a manual post has no fallback.
FallsBack(t, a) == t.provider = "anthropic" /\ a = "credit" /\ t.gemini /\ t.kind # "caption"

\* Mutant: the plan of Anthropic is kept when its caption falls back.
FallBackHere(t) == Go(t, t.op, "gemini")

FallBack(t) ==
  Go(t, IF t.kind = "draft" /\ t.op = "caption" THEN "plan" ELSE t.op, "gemini")

\* The preview answers a quota error from a template; but Google's own quota error is caught before,
\* unless the call was a fallback.
Synthetic(t, a) ==
  /\ t.kind = "preview" /\ t.synthetic
  /\ a = "rate" \/ (a = "quota" /\ t.from = "anthropic")

GiveUp(t, a) ==
  CASE t.op = "persona" /\ t.from = "gemini" -> Go(t, "plan", "gemini")
    [] t.kind = "topics" -> [t EXCEPT !.result = "static"]
    [] Synthetic(t, a) -> [t EXCEPT !.result = "synthetic", !.scenes = t.wanted]
    [] OTHER -> [t EXCEPT !.result = "failed"]

\* A refusal tells that the balance is exhausted, or the quota.
Refused(c, a) == [c EXCEPT !.credit = @ \/ a = "credit",
                           !.quota[c.op] = IF a = "quota" THEN c.asked[c.op]["gemini"] ELSE @]

Failed ==
  /\ Working /\ ~(text.op = "reply" /\ text.provider = "gemini")
  /\ \E a \in Answers(text.provider) :
        /\ text.try = Tries \/ ~Retried(text.op, text.provider, a)
        /\ LET t == Refused(Count(text), a)
           IN  text' = IF FallsBack(t, a) THEN FallBack(t) ELSE GiveUp(t, a)

-----------------------------------------------------------------------------
(* Gemini's replies: two prompts for each model.                            *)

Replying == Working /\ text.op = "reply" /\ text.provider = "gemini"

\* A reply that looks cut off is asked for once more; the second one is taken as it is.
ReplyTruncated ==
  /\ Replying /\ text.try = 1
  /\ text' = [Count(text) EXCEPT !.try = 2]

\* The model knows no thinking_config: the same prompt without it, whose answer is treated alike.
ReplyPlain ==
  /\ Replying /\ text.try = 1
  /\ LET t == Count(Count(text))
     IN  text' \in {[t EXCEPT !.try = 2], [Kept(t) EXCEPT !.result = "ok"]}

Reply == Replying /\ text' = [Kept(Count(text)) EXCEPT !.result = "ok"]

\* A timeout or an error: the next model, or the last error.
NextModel(t) ==
  IF t.model < NumModels THEN [t EXCEPT !.model = @ + 1, !.try = 1] ELSE [t EXCEPT !.result = "failed"]

ReplyFailed ==
  /\ Replying
  /\ text' \in {NextModel(Count(text))} \cup (IF text.try = 1 THEN {NextModel(Count(Count(text)))} ELSE {})

TextNext == AskAgain \/ Answered \/ Failed \/ ReplyTruncated \/ ReplyPlain \/ Reply \/ ReplyFailed

TextSpec == TextInit /\ [][TextNext]_textVars

-----------------------------------------------------------------------------
(* Properties.                                                              *)

Asks == [op \in TextOps |-> IF op = "reply" THEN 3 * NumModels ELSE Tries]

\* No operation is asked more often of a provider than its decorator or loop allows, and Gemini is
\* not asked again for what it refused for its quota: "retries only burn remaining quota window"
\* (gemini_service.py:19).
RequestsSpared ==
  \A op \in TextOps :
     /\ \A p \in TextProvidersUsed : text.asked[op][p] <= Asks[op]
     /\ text.quota[op] # 0 => text.asked[op]["gemini"] = text.quota[op]

\* Only an exhausted balance turns a request to the provider that was not preferred.
FallbackExplained ==
  \A op \in TextOps : text.from = "anthropic" /\ text.asked[op]["gemini"] > 0 => text.credit

\* The plan and the caption of a draft are written by one model, whichever call falls back
\* (generation_orchestrator.py:412 and 1050), and a plan that a job is created from has one scene
\* or six to eight.
OneVoice ==
  /\ text.kind = "draft" /\ text.result = "ok" => text.texts["plan"] = text.texts["caption"]
  /\ text.texts["plan"] # "none" => text.scenes \in {1} \cup 6..8

TextTyped ==
  /\ text.kind \in TextKinds /\ text.op \in TextOps /\ text.try \in 1..(IF Tries > 2 THEN Tries ELSE 2)
  /\ {text.provider, text.from} \subseteq TextProvidersUsed
  /\ text.model \in 1..NumModels /\ text.scenes \in 0..8
  /\ text.result \in {"none", "ok", "static", "synthetic", "failed"}

\* Which model is asked, how often, and whose texts are put together.
TextInvariant == TextTyped /\ RequestsSpared /\ FallbackExplained /\ OneVoice
=============================================================================
