---------------------------- MODULE LLMProviders ----------------------------
(***************************************************************************)
(* What the six providers of src/llm do differently.  Every query function *)
(* has the same stages - rewrite the question, expand it, send the request,*)
(* receive the answer - and is described by the trackers it opens and by   *)
(* what it does with the last of them at each of its ways out.             *)
(*                                                                         *)
(*   refused      no usable connection or response                         *)
(*   status       the stream is refused by its HTTP status                 *)
(*   parse        the response is not the expected JSON                    *)
(*   read         the stream breaks                                        *)
(*   canceled     the stream reports the cancellation of the request       *)
(*   callback     the caller's callback returns an error                   *)
(*   interrupted  the function itself has taken an interrupt token         *)
(*   done         the answer is returned                                   *)
(*                                                                         *)
(* At a way out the tracker is ended with "complete" or with "error", or   *)
(* the function is "silent".                                               *)
(***************************************************************************)
EXTENDS Naturals, TLC

Providers == {"openai", "ollama", "alibaba", "anthropic", "lmstudio", "coze"}

\* How a provider's queries learn of an Interrupt: the cancel function in the
\* slot, a watcher goroutine per query, a poll before every Recv, or one poll
\* at the start.
Hears == [openai |-> "slot", ollama |-> "watcher", lmstudio |-> "watcher",
          anthropic |-> "watcher", coze |-> "poll", alibaba |-> "once"]

-----------------------------------------------------------------------------
(***************************************************************************)
(* The query functions: trackers opened when the function begins and when  *)
(* the prompt is ready, and the ways out.                                  *)
(***************************************************************************)
Opens(atBegin, whenReady) == [begin |-> atBegin, ready |-> whenReady]

OpenAIAnswerOpens == Opens(1, 1)
OpenAIAnswerWays == [refused |-> "error", done |-> "complete"]

OpenAIStreamOpens == Opens(0, 1)
OpenAIStreamWays ==
  [refused |-> "error", canceled |-> "silent", read |-> "error",
   callback |-> "silent", done |-> "complete"]

\* Fault for TrackersTell: the answer is returned without an end of its tracker.
OllamaForgetsComplete ==
  [opens |-> Opens(1, 0),
   ways |-> [refused |-> "error", parse |-> "error", done |-> "silent"]]

OllamaQueryWithOptions ==
  [opens |-> Opens(1, 0),
   ways |-> [refused |-> "error", parse |-> "error", done |-> "complete"]]
OllamaQueryStream ==
  [opens |-> Opens(1, 0),
   ways |-> [refused |-> "error", status |-> "silent", read |-> "silent",
             callback |-> "silent", done |-> "silent"]]

LMStudioQueryWithOptions ==
  [opens |-> Opens(1, 0),
   ways |-> [refused |-> "error", parse |-> "error", done |-> "complete"]]
LMStudioQueryStream ==
  [opens |-> Opens(1, 0),
   ways |-> [refused |-> "error", status |-> "silent", read |-> "silent",
             callback |-> "silent", done |-> "silent"]]

AnthropicQueryWithOptions ==
  [opens |-> Opens(1, 0),
   ways |-> [refused |-> "error", parse |-> "error", done |-> "complete"]]
AnthropicQueryStream ==
  [opens |-> Opens(0, 0),
   ways |-> [refused |-> "silent", status |-> "silent", read |-> "silent",
             callback |-> "silent", done |-> "silent"]]

CozeQueryWithOptions ==
  [opens |-> Opens(1, 0),
   ways |-> [refused |-> "error", interrupted |-> "silent", read |-> "silent",
             done |-> "complete"]]
CozeQueryStream ==
  [opens |-> Opens(1, 0),
   ways |-> [refused |-> "error", interrupted |-> "silent", read |-> "silent",
             callback |-> "silent", done |-> "silent"]]

AlibabaQueryWithOptions ==
  [opens |-> Opens(1, 0),
   ways |-> [refused |-> "error", interrupted |-> "silent", status |-> "error",
             parse |-> "error", done |-> "complete"]]
\* The stream is the whole answer of QueryWithOptions, which has ended its
\* tracker before the callback is called.
AlibabaQueryStream ==
  LET answer == AlibabaQueryWithOptions.ways IN
  [opens |-> AlibabaQueryWithOptions.opens,
   ways |-> [way \in DOMAIN answer \union {"callback"} |->
               IF way = "callback" THEN "complete" ELSE answer[way]]]

QueryFunction(provider, call) ==
  LET stream == call = "stream" IN
  CASE provider = "openai" ->
         IF stream THEN [opens |-> OpenAIStreamOpens, ways |-> OpenAIStreamWays]
                   ELSE [opens |-> OpenAIAnswerOpens, ways |-> OpenAIAnswerWays]
    [] provider = "ollama" -> IF stream THEN OllamaQueryStream ELSE OllamaQueryWithOptions
    [] provider = "lmstudio" -> IF stream THEN LMStudioQueryStream ELSE LMStudioQueryWithOptions
    [] provider = "anthropic" -> IF stream THEN AnthropicQueryStream ELSE AnthropicQueryWithOptions
    [] provider = "coze" -> IF stream THEN CozeQueryStream ELSE CozeQueryWithOptions
    [] provider = "alibaba" -> IF stream THEN AlibabaQueryStream ELSE AlibabaQueryWithOptions

AfterSending == {"parse", "read", "canceled", "callback", "done"}

-----------------------------------------------------------------------------
(***************************************************************************)
(* Rewriting and expanding the question.  The remote model's reply is a    *)
(* text, empty, not parsable or missing; the outcome is "changed" (the     *)
(* question was replaced and the step is noted in the response), "same"    *)
(* (noted, but the question is as before) or "ignored" (neither).          *)
(***************************************************************************)
ChatPreparation ==
  [text |-> "changed", empty |-> "same", unparsable |-> "ignored", missing |-> "ignored"]
StreamPreparation == [text |-> "changed", empty |-> "same", missing |-> "ignored"]

\* Under which context the preparing requests run: that of the query, which an
\* interrupt cancels, or that of the handler, which it does not.
Preparation(outcomes, context) == [outcomes |-> outcomes, context |-> context]

OpenAIRewrite    == Preparation(StreamPreparation, "handler")
OpenAIExpand     == Preparation(StreamPreparation, "handler")
OllamaRewrite    == Preparation(ChatPreparation, "query")
OllamaExpand     == Preparation(ChatPreparation, "query")
LMStudioRewrite  == Preparation(ChatPreparation, "query")
LMStudioExpand   == Preparation(ChatPreparation, "query")
AnthropicRewrite == Preparation(ChatPreparation, "query")
AnthropicExpand  == Preparation(ChatPreparation, "query")
CozeRewrite      == Preparation(StreamPreparation, "handler")
CozeExpand       == Preparation(StreamPreparation, "handler")
AlibabaRewrite   == Preparation(ChatPreparation, "handler")
AlibabaExpand    == Preparation(ChatPreparation, "handler")

PreparationOf(provider, stage) ==
  LET rewrite == stage = "rewrite" IN
  CASE provider = "openai" -> IF rewrite THEN OpenAIRewrite ELSE OpenAIExpand
    [] provider = "ollama" -> IF rewrite THEN OllamaRewrite ELSE OllamaExpand
    [] provider = "lmstudio" -> IF rewrite THEN LMStudioRewrite ELSE LMStudioExpand
    [] provider = "anthropic" -> IF rewrite THEN AnthropicRewrite ELSE AnthropicExpand
    [] provider = "coze" -> IF rewrite THEN CozeRewrite ELSE CozeExpand
    [] provider = "alibaba" -> IF rewrite THEN AlibabaRewrite ELSE AlibabaExpand

-----------------------------------------------------------------------------
(***************************************************************************)
(* The factory.  Names are taken without case and surrounding blanks; a    *)
(* name that is not known means OpenAI, and a provider in the options has  *)
(* the last word.  Coze needs a bot and Alibaba an application, and both   *)
(* look for it in the base URL.                                            *)
(***************************************************************************)
normalizeProvider(name) == IF name \in Providers THEN name ELSE "openai"

Selected(name, option) ==
  IF option = "" THEN normalizeProvider(name) ELSE normalizeProvider(option)

\* baseURL: "none", a "url", an "id", or for Coze "json" with a bot id in it.
NewCozeHandler(baseURL) == baseURL \in {"id", "json", "url"}

\* A base URL that is an application id is the endpoint too, and a request to
\* that endpoint has no scheme.
NewAlibabaHandler(baseURL, appIdInEnv) ==
  [made |-> baseURL = "id" \/ appIdInEnv, reachable |-> baseURL # "id"]

\* A handler that can be called, with an endpoint that can be reached.
Usable(provider, baseURL, appIdInEnv) ==
  CASE provider = "coze" -> NewCozeHandler(baseURL)
    [] provider = "alibaba" -> NewAlibabaHandler(baseURL, appIdInEnv).made
    [] OTHER -> TRUE

Reachable(provider, baseURL) ==
  provider = "alibaba" => NewAlibabaHandler(baseURL, TRUE).reachable
=============================================================================
