---------------------------- MODULE PromptMessages ----------------------------
(***************************************************************************)
(* The messages of a prompt (src/llm/messages.go, coze.go): what a caller  *)
(* passes as short-term memory is put before the user's text, and every    *)
(* provider gives it its own form.  Contents are trimmed; "" is blank.     *)
(***************************************************************************)
EXTENDS Selection

ChatMessage(role, content) == [role |-> role, content |-> content]

Roles == {"system", "user", "assistant"}

\* Fault for AlgorithmsAgree: the text is added to the same question.
AskAnyway(msgs, text) == Append(msgs, ChatMessage("user", text))

Ask(msgs, text) ==
  IF text = "" \/ (msgs # <<>> /\ Last(msgs) = ChatMessage("user", text)) THEN msgs
  ELSE Append(msgs, ChatMessage("user", text))

\* Roles in another spelling are these; other roles are dropped.
buildShortTermMessages(text, messages) ==
  Ask(Filtered(messages, LAMBDA m : m.content # "" /\ m.role \in Roles), text)

\* OpenAI, Ollama, LM Studio and Alibaba are given the built messages as they
\* are; Anthropic's take no system role.
chatMessagesToAnthropic(messages) == Filtered(messages, LAMBDA m : m.role # "system")

OfRole(messages, role) == Filtered(messages, LAMBDA m : m.role = role)

\* The parts that are joined by newlines: the handler's prompt, and what the
\* caller passed as system messages.
mergedSystemPrompt(base, messages) ==
  LET system == OfRole(messages, "system")
  IN (IF base = "" THEN <<>> ELSE <<base>>) \o [i \in DOMAIN system |-> system[i].content]

\* Coze has no system role: the prompt goes first, in the user's name.
cozeMessagesForChat(base, messages) ==
  LET prompt == mergedSystemPrompt(base, messages)
  IN (IF prompt = <<>> THEN <<>> ELSE <<ChatMessage("user", <<"System: ", prompt>>)>>)
       \o chatMessagesToAnthropic(messages)

(***************************************************************************)
(* NothingIsLost: every provider is given each passed message of a known   *)
(* role and the user's text, which comes last and is not there twice in a  *)
(* row; providers without a system role find the system messages, in       *)
(* order, in their system prompt, after the handler's own.                 *)
(***************************************************************************)
Contents(messages) == [i \in DOMAIN messages |-> messages[i].content]

NothingIsLost(text, messages, base) ==
  LET passed == Filtered(messages, LAMBDA m : m.role \in Roles /\ m.content # "")
      built  == buildShortTermMessages(text, messages)
      \* The text asked before is not repeated by its being passed as well.
      doubled == passed # <<>> /\ Last(passed) = ChatMessage("user", text)
      Of(ms, role) == Contents(OfRole(ms, role))
      coze   == cozeMessagesForChat(base, built)
  IN /\ IsPrefix(passed, built)
     /\ text # "" => Last(built) = ChatMessage("user", text)
     /\ text # "" => (Len(built) = Len(passed) <=> doubled)
     /\ Len(built) <= Len(passed) + 1
     /\ \A role \in {"user", "assistant"} :
          Of(chatMessagesToAnthropic(built), role) = Of(built, role)
     /\ mergedSystemPrompt(base, built)
          = (IF base = "" THEN <<>> ELSE <<base>>) \o Of(passed, "system")
     /\ Len(coze) = Len(chatMessagesToAnthropic(built))
                      + (IF base = "" /\ Of(passed, "system") = <<>> THEN 0 ELSE 1)
=============================================================================
