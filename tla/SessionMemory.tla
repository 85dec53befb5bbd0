--------------------------- MODULE SessionMemory ---------------------------
(***************************************************************************)
(* The memory of one chat session in the example server                    *)
(* (examples/internal/handlers/llm_handlers.go).  A chat reads the         *)
(* session's messages from the database; when there are too many, a model  *)
(* condenses them and one transaction replaces all the session has by the  *)
(* summary.  Chats of one session overlap: between the reading and the     *)
(* transaction others may have added messages, or replaced them too.       *)
(***************************************************************************)
EXTENDS Naturals, FiniteSets

CONSTANTS Chats, AgentChats, MaxSessionMessages

ASSUME SessionAssumption == MaxSessionMessages \in Nat \ {0}

VARIABLES
  messages,    \* the rows of the session: each by what it tells of
  chat,        \* what each request is doing
  memory,      \* what a chat has read, or what it has made of it
  created,     \* history: messages recorded so far
  overtaken    \* history: messages recorded while a summary was being made
               \* that has replaced them

sessionVars == <<messages, chat, memory, created, overtaken>>

\* A row tells of one message, or, a summary, of those it was made from.
Verbatim(m) == [tells |-> {m}, summary |-> FALSE]
SummaryOf(rows) == [tells |-> UNION {r.tells : r \in rows}, summary |-> TRUE]
Told(rows) == UNION {r.tells : r \in rows}

SessionInit ==
  /\ messages = {}
  /\ chat = [c \in Chats \union AgentChats |-> "idle"]
  /\ memory = [c \in Chats |-> {}]
  /\ created = {} /\ overtaken = {}

Moves(c, to) == chat' = [chat EXCEPT ![c] = to]

\* Recording a message goes through a signal and its handler.
CreateMessage(m) ==
  /\ messages' = messages \union {Verbatim(m)}
  /\ created' = created \union {m}

-----------------------------------------------------------------------------
buildSessionMemory(c) ==
  /\ chat[c] = "idle"
  /\ memory' = [memory EXCEPT ![c] = messages]
  /\ Moves(c, IF Cardinality(messages) > MaxSessionMessages THEN "summarise" ELSE "record")
  /\ UNCHANGED <<messages, created, overtaken>>

\* Fault for RecordsAreTrue: what was read is not removed.
AddSummary(summary) == messages' = messages \union {summary}

ReplaceRows(summary) == messages' = {summary}

\* The model may fail or return nothing, and the transaction may fail: then
\* the chat fails and the session is as it was.
compactSessionMessages(c) ==
  /\ chat[c] = "summarise"
  /\ LET summary == SummaryOf(memory[c]) IN
     \/ /\ ReplaceRows(summary)
        /\ overtaken' = overtaken \union (Told(messages) \ summary.tells)
        /\ memory' = [memory EXCEPT ![c] = {summary}]
        /\ Moves(c, "record")
     \/ Moves(c, "failed") /\ UNCHANGED <<messages, overtaken, memory>>
  /\ UNCHANGED created

\* LLMChat records the question before it asks the model, and the answer
\* only if there is one.
RecordQuestion(c) ==
  /\ chat[c] = "record"
  /\ CreateMessage(<<c, "user">>)
  /\ Moves(c, "query")
  /\ UNCHANGED <<memory, overtaken>>

RecordAnswer(c) ==
  /\ chat[c] = "query"
  /\ \/ CreateMessage(<<c, "assistant">>) /\ Moves(c, "answered")
     \/ Moves(c, "failed") /\ UNCHANGED <<messages, created>>
  /\ UNCHANGED <<memory, overtaken>>

\* AgentChatStream reads nothing and records both when the run has ended.
RecordRun(c) ==
  /\ chat[c] = "idle"
  /\ CreateMessage(<<c, "user">>)
  /\ Moves(c, "query")
  /\ UNCHANGED <<memory, overtaken>>

RecordOutput(c) ==
  /\ chat[c] = "query"
  /\ CreateMessage(<<c, "assistant">>)
  /\ Moves(c, "answered")
  /\ UNCHANGED <<memory, overtaken>>

SessionNext ==
  \/ \E c \in Chats : \/ buildSessionMemory(c) \/ compactSessionMessages(c)
                      \/ RecordQuestion(c) \/ RecordAnswer(c)
  \/ \E c \in AgentChats : RecordRun(c) \/ RecordOutput(c)

SessionSpec == SessionInit /\ [][SessionNext]_sessionVars

-----------------------------------------------------------------------------
SessionTypeOK ==
  /\ chat \in [Chats \union AgentChats ->
               {"idle", "summarise", "record", "query", "answered", "failed"}]
  /\ created \subseteq (Chats \union AgentChats) \X {"user", "assistant"}
  /\ Told(messages) \subseteq created

(***************************************************************************)
(* SessionRemembers (compactSessionMessages): however chats overlap, every *)
(* message is still told by some row, once, unless it was recorded while a *)
(* chat made the summary that replaced it; a session has one summary, and  *)
(* a model is given no more rows than the limit, none of them its question *)
(* - which LLMChat passes on its own.                                      *)
(***************************************************************************)
SessionRemembers ==
  /\ created \ Told(messages) \subseteq overtaken
  /\ \A r, s \in messages : r # s => r.tells \intersect s.tells = {}
  /\ Cardinality({r \in messages : r.summary}) <= 1
  /\ \A c \in Chats : chat[c] \in {"record", "query"} =>
       /\ Cardinality(memory[c]) <= MaxSessionMessages
       /\ <<c, "user">> \notin Told(memory[c])
=============================================================================
