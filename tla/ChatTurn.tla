------------------------------- MODULE ChatTurn -------------------------------
(***************************************************************************)
(* One conversation and the turns that run on it: ChatService.streamTurn   *)
(* (the agent loop), the stored messages (chat_messages), the contact kept *)
(* on the conversation, and ChatController.sendMessage, which ends the     *)
(* event stream of each turn.                                              *)
(*                                                                         *)
(* A turn is a process: every await (a query, the model's reply, a tool)   *)
(* is a point where other turns of the same conversation, a crash or a     *)
(* failure may come in between.  The client going away is not one of       *)
(* them: nothing tells the generator, it runs on.                          *)
(*                                                                         *)
(* A message is its role, the tool calls it makes and the tool calls it    *)
(* answers; text, prices, cards and token counts are left out.  A tool     *)
(* call is identified by its turn, its round and its place in the reply.   *)
(***************************************************************************)
EXTENDS Naturals, Sequences

CONSTANTS
  Turn,            \* the messages the customer posts, each served by a turn
  Name,            \* contact details the model may extract
  Nobody,          \* no contact details yet
  MaxRounds,       \* MAX_TOOL_ITERATIONS (8 in the code)
  ToolsBound,      \* bound: tool calls in one reply, where turns overlap or not
  MaxFaults        \* bound: crashes of the API process and failing queries

ASSUME RoundsAssumption == MaxRounds \in Nat \ {0}
ASSUME BoundsAssumption == ToolsBound \in [BOOLEAN -> Nat] /\ MaxFaults \in Nat
ASSUME NobodyAssumption == Nobody \notin Name

VARIABLES
  rows,       \* the stored messages, by created_at
  contact,    \* conversations.customer_name
  turn,       \* the turns: see TurnState
  out,        \* how the event stream of each turn ended
  faults,     \* how often the API process has crashed or a query has failed
  overlap     \* whether a turn may start while another one runs, once and for all

vars == <<rows, contact, turn, out, faults, overlap>>

MaxTools == ToolsBound[overlap]

Steps == {"new", "entering", "loading", "greeting", "calling", "storing",
          "tools", "remembering", "over"}
Replies == {"none", "text", "tools", "pause", "refusal"}
Outcomes == {"open", "done", "error", "cut"}

ToolUse == Turn \X (0 .. MaxRounds - 1) \X (1 .. MaxTools)
Message == [role: {"user", "assistant"}, uses: SUBSET ToolUse, answers: SUBSET ToolUse]

(* The local variables of streamTurn: the messages sent to the model, the  *)
(* iteration, refusalRetried, the last reply, how many of its tool calls   *)
(* have run, and the conversation entity's customer_name.                  *)
TurnState == [step: Steps, messages: Seq(Message), round: 0 .. MaxRounds,
              retried: BOOLEAN, reply: Replies, uses: 0 .. MaxTools,
              ran: 0 .. MaxTools, contact: Name \cup {Nobody}]

TypeOK ==
  /\ rows \in Seq(Message)
  /\ contact \in Name \cup {Nobody}
  /\ turn \in [Turn -> TurnState]
  /\ out \in [Turn -> Outcomes]
  /\ faults \in 0 .. MaxFaults
  /\ overlap \in BOOLEAN

NewTurn == [step |-> "new", messages |-> <<>>, round |-> 0, retried |-> FALSE,
            reply |-> "none", uses |-> 0, ran |-> 0, contact |-> Nobody]

Init ==
  /\ rows = <<>>
  /\ contact = Nobody
  /\ turn = [t \in Turn |-> NewTurn]
  /\ out = [t \in Turn |-> "open"]
  /\ faults = 0
  /\ overlap \in BOOLEAN

-----------------------------------------------------------------------------
UserText == [role |-> "user", uses |-> {}, answers |-> {}]

Uses(t) == {<<t, turn[t].round, k>> : k \in 1 .. turn[t].uses}
Reply(t) == [role |-> "assistant", uses |-> Uses(t), answers |-> {}]
Results(t) == [role |-> "user", uses |-> {}, answers |-> Uses(t)]

(* What the model takes: a message that calls tools is followed by the one *)
(* that answers exactly those calls, and nothing else answers any.         *)
WellFormed(messages) ==
  \A i \in 1 .. Len(messages) :
    /\ messages[i].uses # {} =>
         i < Len(messages) /\ messages[i + 1].answers = messages[i].uses
    /\ messages[i].answers # {} =>
         i > 1 /\ messages[i - 1].uses = messages[i].answers

Running(t) == turn[t].step \notin {"new", "over"}

(* The generator returns or throws, its variables are gone (the model      *)
(* keeps the last reply), and the controller ends the response.            *)
Over(state) == [NewTurn EXCEPT !.step = "over", !.reply = state.reply]

End(t, state, outcome) ==
  /\ turn' = [turn EXCEPT ![t] = Over(state)]
  /\ out' = [out EXCEPT ![t] = outcome]

(* Mutant: one iteration more than MAX_TOOL_ITERATIONS.                    *)
NextRoundOnceMore(t, state) ==
  IF state.round < MaxRounds
  THEN /\ turn' = [turn EXCEPT ![t] = [state EXCEPT !.round = @ + 1, !.step = "calling"]]
       /\ UNCHANGED out
  ELSE End(t, state, "done")

(* The end of an iteration: the next one, or out of the loop.              *)
NextRound(t, state) ==
  IF state.round + 1 < MaxRounds
  THEN /\ turn' = [turn EXCEPT ![t] = [state EXCEPT !.round = @ + 1, !.step = "calling"]]
       /\ UNCHANGED out
  ELSE End(t, state, "done")

-----------------------------------------------------------------------------
(* POST /chat/message: the tenant is looked up, then the conversation.     *)
Post(t) ==
  /\ turn[t].step = "new"
  /\ overlap \/ \A u \in Turn : ~Running(u)
  /\ turn' = [turn EXCEPT ![t].step = "entering"]
  /\ UNCHANGED <<rows, contact, out, faults, overlap>>

GetConversation(t) ==
  /\ turn[t].step = "entering"
  /\ turn' = [turn EXCEPT ![t].step = "loading", ![t].contact = contact]
  /\ UNCHANGED <<rows, contact, out, faults, overlap>>

LoadHistory(t) ==
  /\ turn[t].step = "loading"
  /\ turn' = [turn EXCEPT ![t].step = "greeting", ![t].messages = Append(rows, UserText)]
  /\ UNCHANGED <<rows, contact, out, faults, overlap>>

PersistText(t) ==
  /\ turn[t].step = "greeting"
  /\ rows' = Append(rows, UserText)
  /\ turn' = [turn EXCEPT ![t].step = "calling"]
  /\ UNCHANGED <<contact, out, faults, overlap>>

(* The model's final message: text, tool calls or a pause...               *)
ModelReplies(t) ==
  /\ turn[t].step = "calling"
  /\ WellFormed(turn[t].messages)
  /\ \E reply \in {"text", "tools", "pause"} :
       \E n \in IF reply = "tools" THEN 1 .. MaxTools ELSE {0} :
         turn' = [turn EXCEPT ![t].step = "storing", ![t].reply = reply,
                              ![t].uses = n, ![t].ran = 0]
  /\ UNCHANGED <<rows, contact, out, faults, overlap>>

(* Mutant: a refusal switches between the two models and counts as no      *)
(* iteration.                                                              *)
ModelRefusesUncounted(t) ==
  /\ turn[t].step = "calling"
  /\ WellFormed(turn[t].messages)
  /\ turn' = [turn EXCEPT ![t].reply = "refusal", ![t].retried = ~@, ![t].uses = 0]
  /\ UNCHANGED <<rows, contact, out, faults, overlap>>

(* ... or a refusal: once on the fallback model, then an error event.      *)
ModelRefuses(t) ==
  LET refused == [turn[t] EXCEPT !.reply = "refusal", !.retried = TRUE, !.uses = 0]
  IN  /\ turn[t].step = "calling"
      /\ WellFormed(turn[t].messages)
      /\ IF turn[t].retried THEN End(t, refused, "error") ELSE NextRound(t, refused)
      /\ UNCHANGED <<rows, contact, faults, overlap>>

(* Mutant: the tool calls are dropped from the stored reply.               *)
PersistReplyWithoutCalls(t) ==
  /\ turn[t].step = "storing"
  /\ turn[t].reply = "tools"
  /\ rows' = Append(rows, [Reply(t) EXCEPT !.uses = {}])
  /\ turn' = [turn EXCEPT ![t].step = "tools", ![t].messages = Append(@, Reply(t))]
  /\ UNCHANGED <<contact, out, faults, overlap>>

PersistReply(t) ==
  LET state == [turn[t] EXCEPT !.messages = Append(@, Reply(t))]
  IN  /\ turn[t].step = "storing"
      /\ rows' = Append(rows, Reply(t))
      /\ \/ turn[t].reply = "pause" /\ NextRound(t, state)
         \/ turn[t].reply = "text" /\ End(t, state, "done")
         \/ /\ turn[t].reply = "tools"
            /\ turn' = [turn EXCEPT ![t] = [state EXCEPT !.step = "tools"]]
            /\ UNCHANGED out
      /\ UNCHANGED <<contact, faults, overlap>>

(* Mutant: details from a later tool replace the stored ones.              *)
RunToolAndReplace(t) ==
  /\ turn[t].step = "tools"
  /\ turn[t].ran < turn[t].uses
  /\ \/ turn' = [turn EXCEPT ![t].ran = @ + 1]
     \/ \E n \in Name :
          turn' = [turn EXCEPT ![t].ran = @ + 1, ![t].contact = n,
                               ![t].step = "remembering"]
  /\ UNCHANGED <<rows, contact, out, faults, overlap>>

(* ToolExecutor.execute returns, never throws.  A tool that worked may     *)
(* carry contact details; they are new when this turn's entity has none.   *)
RunTool(t) ==
  /\ turn[t].step = "tools"
  /\ turn[t].ran < turn[t].uses
  /\ \/ turn' = [turn EXCEPT ![t].ran = @ + 1]
     \/ /\ turn[t].contact = Nobody
        /\ \E n \in Name :
             turn' = [turn EXCEPT ![t].ran = @ + 1, ![t].contact = n,
                                  ![t].step = "remembering"]
  /\ UNCHANGED <<rows, contact, out, faults, overlap>>

RememberCustomer(t) ==
  /\ turn[t].step = "remembering"
  /\ contact' = turn[t].contact
  /\ turn' = [turn EXCEPT ![t].step = "tools"]
  /\ UNCHANGED <<rows, out, faults, overlap>>

(* Mutant: results are stored only when another iteration follows.         *)
PersistResultsUnlessLast(t) ==
  LET state == [turn[t] EXCEPT !.messages = Append(@, Results(t))]
  IN  /\ turn[t].step = "tools"
      /\ turn[t].ran = turn[t].uses
      /\ rows' = IF turn[t].round + 1 < MaxRounds THEN Append(rows, Results(t)) ELSE rows
      /\ NextRound(t, state)
      /\ UNCHANGED <<contact, faults, overlap>>

PersistResults(t) ==
  LET state == [turn[t] EXCEPT !.messages = Append(@, Results(t))]
  IN  /\ turn[t].step = "tools"
      /\ turn[t].ran = turn[t].uses
      /\ rows' = Append(rows, Results(t))
      /\ NextRound(t, state)
      /\ UNCHANGED <<contact, faults, overlap>>

(* The model's API fails: it must when the messages are not well-formed.   *)
ModelFails(t) ==
  /\ turn[t].step = "calling"
  /\ End(t, turn[t], "error")
  /\ UNCHANGED <<rows, contact, faults, overlap>>

(* A query fails: in streamTurn the exception becomes an error event.      *)
QueryFails(t) ==
  /\ \/ turn[t].step \in {"loading", "greeting", "storing", "remembering"}
     \/ turn[t].step = "tools" /\ turn[t].ran = turn[t].uses
  /\ faults < MaxFaults
  /\ faults' = faults + 1
  /\ End(t, turn[t], "error")
  /\ UNCHANGED <<rows, contact, overlap>>

Crash ==
  /\ faults < MaxFaults
  /\ faults' = faults + 1
  /\ turn' = [t \in Turn |-> IF Running(t) THEN Over(turn[t]) ELSE turn[t]]
  /\ out' = [t \in Turn |-> IF Running(t) THEN "cut" ELSE out[t]]
  /\ UNCHANGED <<rows, contact, overlap>>

Advance(t) ==
  \/ GetConversation(t)
  \/ LoadHistory(t)
  \/ PersistText(t)
  \/ ModelReplies(t)
  \/ ModelRefuses(t)
  \/ PersistReply(t)
  \/ RunTool(t)
  \/ RememberCustomer(t)
  \/ PersistResults(t)
  \/ ModelFails(t)
  \/ QueryFails(t)

Next ==
  \/ \E t \in Turn : Post(t) \/ Advance(t)
  \/ Crash

Spec == Init /\ [][Next]_vars

(* Queries, tools and model calls return or fail.                          *)
FairSpec == Spec /\ \A t \in Turn : WF_vars(Advance(t))

-----------------------------------------------------------------------------
(* What a turn sends to the model is what is stored, and the model takes   *)
(* it (message.entity.ts: "stored in the Claude wire format so a           *)
(* conversation can be replayed to the model verbatim on the next          *)
(* message"), whatever the model, the tools and the model's API did in the *)
(* turns before: only overlapping turns make the two drift apart, and only *)
(* these and a crash or a failing query break a history.                   *)
HistoryIsReplayable ==
  ~overlap => \A t \in Turn : turn[t].step = "calling" =>
    /\ turn[t].messages = rows
    /\ faults = 0 => WellFormed(turn[t].messages)

(* Contact details, once stored, stay as they were first given, unless     *)
(* turns overlap.                                                          *)
ContactIsKept == [][~overlap /\ contact # Nobody => contact' = contact]_vars

(* A stored result follows the reply that called its tools, in every       *)
(* interleaving and after every failure: no result is stored twice and     *)
(* none is an orphan.                                                      *)
AnswersFollowTheirCalls ==
  \A i \in 1 .. Len(rows) : rows[i].answers # {} =>
    /\ \E j \in 1 .. i - 1 : rows[j].uses = rows[i].answers
    /\ \A j \in 1 .. Len(rows) : j # i => rows[j].answers \cap rows[i].answers = {}

(* A turn that ended with a done event has stored the result of every tool *)
(* call it stored; only an error or a crash leaves a call unanswered.      *)
DoneTurnsAreClosed ==
  \A t \in Turn : out[t] = "done" =>
    \A i \in 1 .. Len(rows) :
      (\E u \in rows[i].uses : u[1] = t) =>
        \E j \in i + 1 .. Len(rows) : rows[j].answers = rows[i].uses

(* Every turn ends its event stream: the loop is bounded ("Safety net      *)
(* against a tool loop that never settles").                               *)
TurnsEnd == \A t \in Turn : Running(t) ~> ~Running(t)
=============================================================================
