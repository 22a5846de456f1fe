----------------------------- MODULE ChatSession -----------------------------
(***************************************************************************)
(* One widget and the server's side of its requests: useChat and the       *)
(* composer of ChatWidget, the event stream over POST, and                 *)
(* ChatController.sendMessage, whose turns (ChatTurn) are represented by   *)
(* the events they emit.                                                   *)
(*                                                                         *)
(* An event is its turn, its number and its type; tool, cards and          *)
(* comparison events are handled as receipts are.  The stream is bytes: an *)
(* event is a frame of two parts, a read of the body returns any number of *)
(* parts that are there, so frames arrive cut and several at once.  A      *)
(* conversation is named after the message that started it.                *)
(*                                                                         *)
(* When the stream breaks the widget gives up and the server does not      *)
(* notice: the turn runs on and its events go nowhere.                     *)
(***************************************************************************)
EXTENDS Naturals, Sequences, FiniteSets

CONSTANTS
  Message,       \* what the customer sends
  Nothing,       \* no message, no conversation
  MaxEvents,     \* bound: events of a turn between its first and its last
  MaxCrashes     \* bound: crashes of the API process

ASSUME NothingAssumption == Nothing \notin Message
ASSUME BoundsAssumption == MaxEvents \in Nat /\ MaxCrashes \in Nat

VARIABLES
  posted,      \* the messages, as they were sent
  reading,     \* the message whose answer the widget reads: busy
  known,       \* conversationId.current
  buffer,      \* the parts read of a frame that is not complete
  shown,       \* the events applied to the bubble of each answer
  apology,     \* the answers in whose bubble the catch block has written
  wire,        \* the parts on their way
  closed,      \* whether the server has ended the response
  serve,       \* the server's turns: see TurnState
  emitted,     \* the events of each turn
  failed,      \* the messages whose request or stream failed (an observer)
  crashes

widget == <<posted, reading, known, buffer, shown, apology, failed>>
server == <<serve, emitted, crashes>>
vars == <<widget, wire, closed, server>>

Types == {"conversation", "text", "receipt", "done", "error"}
Event == [turn: Message, nr: 1 .. MaxEvents + 2, type: Types]
Part == [event: Event, part: {1, 2}]
TurnState == [step: {"none", "posted", "streaming", "over"},
              conversation: Message \cup {Nothing}]

TypeOK ==
  /\ posted \in Seq(Message)
  /\ reading \in Message \cup {Nothing}
  /\ known \in Message \cup {Nothing}
  /\ buffer \in Seq(Part) /\ Len(buffer) <= 1
  /\ shown \in [Message -> Seq(Event)]
  /\ apology \in SUBSET Message /\ failed \in SUBSET Message
  /\ wire \in Seq(Part)
  /\ closed \in BOOLEAN
  /\ serve \in [Message -> TurnState]
  /\ emitted \in [Message -> Seq(Event)]
  /\ crashes \in 0 .. MaxCrashes

NoTurn == [step |-> "none", conversation |-> Nothing]

Init ==
  /\ posted = <<>>
  /\ reading = Nothing /\ known = Nothing /\ buffer = <<>>
  /\ shown = [m \in Message |-> <<>>]
  /\ apology = {} /\ failed = {}
  /\ wire = <<>> /\ closed = FALSE
  /\ serve = [m \in Message |-> NoTurn]
  /\ emitted = [m \in Message |-> <<>>]
  /\ crashes = 0

-----------------------------------------------------------------------------
(***************************************************************************)
(* The widget.                                                             *)
(***************************************************************************)

(* Mutant: nothing is disabled while an answer is being read.              *)
MaySendAnyTime(m) == \A i \in DOMAIN posted : posted[i] # m

(* The button is disabled, and send() returns, while an answer is being    *)
(* read.  (Messages are told apart, so each is sent once.)                 *)
MaySend(m) ==
  /\ reading = Nothing
  /\ \A i \in DOMAIN posted : posted[i] # m

(* send(): the two bubbles, then the request, with the conversation if it  *)
(* is known.                                                               *)
Send(m) ==
  /\ MaySend(m)
  /\ posted' = Append(posted, m)
  /\ reading' = m /\ buffer' = <<>> /\ wire' = <<>> /\ closed' = FALSE
  /\ serve' = [serve EXCEPT ![m] = [step |-> "posted", conversation |-> known]]
  /\ UNCHANGED <<known, shown, apology, failed, emitted, crashes>>

(* What split('\n\n') makes of the bytes: a frame for each second part, in *)
(* order; a frame whose beginning is missing is no event.                  *)
Frames(bytes) ==
  LET Whole(i) == /\ bytes[i].part = 2 /\ i > 1
                  /\ bytes[i - 1] = [event |-> bytes[i].event, part |-> 1]
      Ends == {i \in DOMAIN bytes : Whole(i)}
      End(k) == CHOOSE i \in Ends : Cardinality({j \in Ends : j <= i}) = k
  IN  [k \in 1 .. Cardinality(Ends) |-> bytes[End(k)].event]

(* Mutant: what is left after the last frame is thrown away.               *)
NoRest(bytes) == <<>>

(* Mutant: the frames that were complete are kept with it.                 *)
AllOf(bytes) == bytes

(* ... the last element of the split, what is left after the last frame.   *)
Rest(bytes) ==
  IF bytes[Len(bytes)].part = 1 THEN <<bytes[Len(bytes)]>> ELSE <<>>

(* Mutant: the conversation is taken only from a read that has one event.  *)
ConversationAlone(events) ==
  IF Len(events) = 1 /\ events[1].type = "conversation"
  THEN serve[events[1].turn].conversation ELSE known

(* apply() of a conversation event.                                        *)
Conversation(events) ==
  IF \E i \in DOMAIN events : events[i].type = "conversation"
  THEN serve[reading].conversation ELSE known

(* reader.read() returns some of the bytes that are there.                 *)
Read ==
  /\ reading # Nothing
  /\ \E n \in 1 .. Len(wire) :
       LET bytes == buffer \o SubSeq(wire, 1, n)
           events == Frames(bytes)
       IN  /\ shown' = [shown EXCEPT ![reading] = @ \o events]
           /\ known' = Conversation(events)
           /\ buffer' = Rest(bytes)
           /\ wire' = SubSeq(wire, n + 1, Len(wire))
  /\ UNCHANGED <<posted, reading, apology, failed, closed, server>>

(* The end of the body: read() is done, finally.                           *)
EndOfBody ==
  /\ reading # Nothing /\ wire = <<>> /\ closed
  /\ reading' = Nothing
  /\ UNCHANGED <<posted, known, buffer, shown, apology, failed, wire, closed, server>>

HasText(events) == \E i \in DOMAIN events : events[i].type \in {"text", "error"}

(* Mutant: busy is reset only at the end of a stream.                      *)
GiveUpWithoutFinally ==
  /\ apology' = IF HasText(shown[reading]) THEN apology ELSE apology \cup {reading}
  /\ failed' = failed \cup {reading}
  /\ wire' = <<>> /\ buffer' = <<>>
  /\ UNCHANGED <<posted, reading, known, shown, closed>>

(* catch: the bubble gets an apology if it has no text; finally.           *)
GiveUp ==
  /\ apology' = IF HasText(shown[reading]) THEN apology ELSE apology \cup {reading}
  /\ failed' = failed \cup {reading}
  /\ reading' = Nothing
  /\ wire' = <<>> /\ buffer' = <<>>
  /\ UNCHANGED <<posted, known, shown, closed>>

(* fetch() or read() throws: a request that has not arrived is lost or     *)
(* arrives all the same.                                                   *)
Break ==
  /\ reading # Nothing
  /\ GiveUp
  /\ \/ UNCHANGED server
     \/ /\ serve[reading].step = "posted"
        /\ serve' = [serve EXCEPT ![reading].step = "over"]
        /\ UNCHANGED <<emitted, crashes>>

(* ... which it does when the server has gone: its sockets are closed.     *)
Reset ==
  /\ reading # Nothing /\ serve[reading].step = "over" /\ ~closed
  /\ GiveUp
  /\ UNCHANGED server

-----------------------------------------------------------------------------
(***************************************************************************)
(* The server.                                                             *)
(***************************************************************************)

(* res.write().                                                            *)
Write(m, type) ==
  LET e == [turn |-> m, nr |-> Len(emitted[m]) + 1, type |-> type]
  IN  /\ emitted' = [emitted EXCEPT ![m] = Append(@, e)]
      /\ wire' = IF reading = m
                 THEN wire \o <<[event |-> e, part |-> 1], [event |-> e, part |-> 2]>>
                 ELSE wire

(* sendMessage() finds the conversation or starts one.                     *)
Accept(m) ==
  /\ serve[m].step = "posted"
  /\ serve' = [serve EXCEPT ![m] =
       [step |-> "streaming", conversation |-> IF @.conversation = Nothing THEN m
                                               ELSE @.conversation]]
  /\ Write(m, "conversation")
  /\ UNCHANGED <<widget, closed, crashes>>

(* Mutant: the body of an error response is read like a stream.            *)
RefuseUnnoticed(m) ==
  /\ serve[m].step = "posted"
  /\ serve' = [serve EXCEPT ![m].step = "over"]
  /\ closed' = (reading = m \/ closed)
  /\ UNCHANGED <<widget, wire, emitted, crashes>>

(* A query fails before the response has begun: an error response, which   *)
(* send() turns into an exception.                                         *)
Refuse(m) ==
  /\ serve[m].step = "posted"
  /\ serve' = [serve EXCEPT ![m].step = "over"]
  /\ IF reading = m THEN GiveUp ELSE UNCHANGED <<widget, wire, closed>>
  /\ UNCHANGED <<emitted, crashes>>

Emit(m) ==
  /\ serve[m].step = "streaming"
  /\ Len(emitted[m]) <= MaxEvents
  /\ \E type \in {"text", "receipt"} : Write(m, type)
  /\ UNCHANGED <<widget, closed, serve, crashes>>

(* The last event of the turn, and res.end().                              *)
Finish(m) ==
  /\ serve[m].step = "streaming"
  /\ \E type \in {"done", "error"} : Write(m, type)
  /\ serve' = [serve EXCEPT ![m].step = "over"]
  /\ closed' = (reading = m \/ closed)
  /\ UNCHANGED <<widget, crashes>>

Crash ==
  /\ crashes < MaxCrashes
  /\ crashes' = crashes + 1
  /\ serve' = [m \in Message |->
       IF serve[m].step \in {"posted", "streaming"} THEN [serve[m] EXCEPT !.step = "over"]
       ELSE serve[m]]
  /\ UNCHANGED <<widget, wire, closed, emitted>>

Next ==
  \/ Read \/ EndOfBody \/ Break \/ Reset \/ Crash
  \/ \E m \in Message : Send(m) \/ Accept(m) \/ Refuse(m) \/ Emit(m) \/ Finish(m)

Spec == Init /\ [][Next]_vars

(* Bytes that have arrived are read, the end of the body and the end of a  *)
(* dead server's sockets are noticed, and the server answers every request *)
(* and ends every turn (TurnsEnd of ChatTurn).                             *)
FairSpec ==
  /\ Spec
  /\ WF_vars(Read) /\ WF_vars(EndOfBody) /\ WF_vars(Reset)
  /\ \A m \in Message : WF_vars(Accept(m) \/ Refuse(m)) /\ WF_vars(Finish(m))

-----------------------------------------------------------------------------
Running(m) == serve[m].step \in {"posted", "streaming"}

(* Two turns of a conversation run at a time only when the stream of one   *)
(* of them has failed under way (the case of overlap in ChatTurn).         *)
TurnsOverlapOnlyAfterAFailure ==
  \A m, n \in Message : m # n /\ Running(m) /\ Running(n) => {m, n} \cap failed # {}

(* A message whose stream did not fail and every later one are in the same *)
(* conversation.                                                           *)
ConversationsGoOn ==
  \A i, j \in DOMAIN posted :
    i < j /\ posted[i] \notin failed =>
      serve[posted[j]].conversation = serve[posted[i]].conversation

(* An answer that has nothing to read, when the widget is done with it, is *)
(* one the server ended without saying anything: requests that were        *)
(* refused and streams that broke have left an apology.                    *)
SilenceIsTheServers ==
  \A i \in DOMAIN posted :
    LET m == posted[i] IN
    m # reading /\ ~HasText(shown[m]) /\ m \notin apology =>
      \E k \in DOMAIN shown[m] : shown[m][k].type = "done"

(* However the stream is cut into reads, the customer sees the events of   *)
(* that answer, in order and once, and all of them unless it failed.       *)
StreamState(m) ==
  IF \A i \in DOMAIN posted : posted[i] # m THEN "new"
  ELSE IF m = reading THEN "open"
  ELSE IF m \in failed THEN "failed"
  ELSE "whole"

Stream == INSTANCE EventStream
            WITH seen <- shown, state <- [m \in Message |-> StreamState(m)]

ImplementsStream == Stream!Spec

(* The widget does not stay busy.                                          *)
AnswersComplete == \A m \in Message : reading = m ~> reading = Nothing
=============================================================================
