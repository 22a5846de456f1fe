---------------------------- MODULE ChatTurnProofs ----------------------------
(***************************************************************************)
(* Theorems of ChatTurn, for any number of turns, whether they overlap or  *)
(* not, any bound on iterations and tool calls, any number of crashes and  *)
(* failing queries:                                                        *)
(*                                                                         *)
(*   TurnSafety, AloneSafety       the inductive invariants                *)
(*   TurnTyping                    TypeOK                                  *)
(*   AnswersFollow                 AnswersFollowTheirCalls                 *)
(*   DoneIsClosed                  DoneTurnsAreClosed                      *)
(*   HistoriesReplay               HistoryIsReplayable                     *)
(*   ContactStays                  ContactIsKept                           *)
(*   TurnsAreBounded               a turn has finitely many steps to take, *)
(*   EveryStepCounts               and each step it takes is one less      *)
(*                                                                         *)
(* The argument has two parts.  The tool calls of a turn carry its name    *)
(* and its round, and the round grows with every stored reply, so that     *)
(* what a turn stores is about calls nobody else stores anything about:    *)
(* TurnInv, with and without overlap.  Without overlap at most one turn    *)
(* runs, and what it has read of the conversation is what is stored:       *)
(* AloneInv.                                                               *)
(*                                                                         *)
(* The last two are the part of TurnsEnd that needs no fairness: a measure *)
(* of the turn, StepsLeft, that every step decreases.                      *)
(***************************************************************************)
EXTENDS ChatTurn, TLAPS

-----------------------------------------------------------------------------
UsesOf(t, s) == {<<t, s.round, k>> : k \in 1 .. s.uses}

(* The calls in row i are answered further on.                             *)
Answered(rs, i) == \E j \in i + 1 .. Len(rs) : rs[j].answers = rs[i].uses

(* All that the rows say of turn t is of rounds before r, and its calls    *)
(* are answered.                                                           *)
RowsAreClosed(t, r, rs) ==
  \A i \in 1 .. Len(rs) :
    /\ \A u \in rs[i].answers : u[1] = t => u[2] < r
    /\ \A u \in rs[i].uses : u[1] = t => u[2] < r /\ Answered(rs, i)

(* ... but for the calls us of round r, which are stored and unanswered.   *)
RowsAreOpen(t, r, us, rs) ==
  /\ \E i \in 1 .. Len(rs) : rs[i].uses = us
  /\ \A i \in 1 .. Len(rs) :
       /\ \A u \in rs[i].answers : u[1] = t => u[2] < r
       /\ \A u \in rs[i].uses : u[1] = t =>
            rs[i].uses = us \/ (u[2] < r /\ Answered(rs, i))

TurnIsTrue(t, s, rs) ==
  /\ s.round < MaxRounds
  /\ s.step \in {"tools", "remembering"} => RowsAreOpen(t, s.round, UsesOf(t, s), rs)
  /\ s.step \notin {"tools", "remembering", "over"} => RowsAreClosed(t, s.round, rs)
  /\ s.step = "storing" /\ s.reply # "tools" => s.uses = 0

TurnIsClosed(t, rs) ==
  \A i \in 1 .. Len(rs) : (\E u \in rs[i].uses : u[1] = t) => Answered(rs, i)

OutcomeIsTrue(t, s, o, rs) == o = "done" => s.step = "over" /\ TurnIsClosed(t, rs)

TurnInv ==
  /\ TypeOK
  /\ AnswersFollowTheirCalls
  /\ \A t \in Turn : TurnIsTrue(t, turn[t], rows) /\ OutcomeIsTrue(t, turn[t], out[t], rows)

(* What the turn that runs has read is what is stored.                     *)
ReadIsTrue(s) ==
  /\ s.step = "greeting" => s.messages = Append(rows, UserText)
  /\ s.step \in {"calling", "storing", "tools", "remembering"} => s.messages = rows
  /\ s.step \in {"loading", "greeting", "calling", "storing", "tools"} => s.contact = contact
  /\ s.step = "remembering" => contact = Nobody

(* A history that ends with a reply whose calls us are not yet answered.   *)
EndsWith(rs, us) ==
  /\ Len(rs) > 0 /\ rs[Len(rs)].uses = us /\ rs[Len(rs)].answers = {}
  /\ \A i \in 1 .. Len(rs) - 1 :
       /\ rs[i].uses # {} => rs[i + 1].answers = rs[i].uses
       /\ rs[i].answers # {} => i > 1 /\ rs[i - 1].uses = rs[i].answers

InTools(t) == turn[t].step \in {"tools", "remembering"}

RowsAreFormed ==
  /\ \A t \in Turn : InTools(t) => EndsWith(rows, UsesOf(t, turn[t]))
  /\ (\A t \in Turn : ~InTools(t)) => WellFormed(rows)

AloneInv ==
  ~overlap =>
    /\ \A t, u \in Turn : Running(t) /\ Running(u) => t = u
    /\ \A t \in Turn : ReadIsTrue(turn[t])
    /\ faults = 0 => RowsAreFormed

-----------------------------------------------------------------------------
(* Facts about rows.                                                       *)

(* What a sequence is with one more element.                               *)
LEMMA AppendIs ==
  ASSUME NEW S, NEW s \in Seq(S), NEW e \in S
  PROVE  /\ Append(s, e) \in Seq(S) /\ Len(s) \in Nat
         /\ Len(Append(s, e)) = Len(s) + 1
         /\ \A i \in 1 .. Len(s) : Append(s, e)[i] = s[i]
         /\ Append(s, e)[Len(s) + 1] = e
OBVIOUS

(* The types depend on overlap alone.                                      *)
LEMMA OverlapIsFixed ==
  ASSUME UNCHANGED overlap
  PROVE  /\ MaxTools' = MaxTools /\ ToolUse' = ToolUse /\ Message' = Message
         /\ TurnState' = TurnState
<1>1. MaxTools' = MaxTools
  BY DEF MaxTools
<1>2. ToolUse' = ToolUse
  BY <1>1 DEF ToolUse
<1>3. Message' = Message
  BY <1>2 DEF Message
<1>4. TurnState' = TurnState
  BY <1>1, <1>3 DEF TurnState
<1> QED
  BY <1>1, <1>2, <1>3, <1>4

(* The bounds are numbers.                                                 *)
LEMMA BoundsAreNumbers == TypeOK => MaxTools \in Nat /\ MaxRounds \in Nat /\ MaxRounds > 0
  BY RoundsAssumption, BoundsAssumption DEF TypeOK, MaxTools

(* rt begins with rs.                                                      *)
Extends(rt, rs) ==
  /\ Len(rs) \in Nat /\ Len(rt) \in Nat /\ Len(rs) <= Len(rt)
  /\ \A i \in 1 .. Len(rs) : rt[i] = rs[i]

(* What is added to rows is of turn t.                                     *)
AddsOf(t, rt, rs) ==
  \A i \in 1 .. Len(rt) :
    i <= Len(rs) \/ \A u \in rt[i].uses \cup rt[i].answers : u[1] = t

(* Answered calls stay answered.                                           *)
LEMMA AnsweredStays ==
  ASSUME NEW rs, NEW rt, Extends(rt, rs), NEW i \in 1 .. Len(rs), Answered(rs, i)
  PROVE  Answered(rt, i)
<1>1. PICK j \in i + 1 .. Len(rs) : rs[j].answers = rs[i].uses
  BY DEF Answered
<1>2. j \in 1 .. Len(rs) /\ j \in i + 1 .. Len(rt) /\ rt[j] = rs[j] /\ rt[i] = rs[i]
  BY <1>1 DEF Extends
<1> QED
  BY <1>1, <1>2 DEF Answered

(* What another turn stores changes nothing for turn b.                    *)
LEMMA OthersStayClosed ==
  ASSUME NEW rs, NEW rt, NEW b, NEW t, b # t, Extends(rt, rs), AddsOf(t, rt, rs), NEW r,
         RowsAreClosed(b, r, rs)
  PROVE  RowsAreClosed(b, r, rt)
<1> SUFFICES ASSUME NEW i \in 1 .. Len(rt)
             PROVE  /\ \A u \in rt[i].answers : u[1] = b => u[2] < r
                    /\ \A u \in rt[i].uses : u[1] = b => u[2] < r /\ Answered(rt, i)
  BY DEF RowsAreClosed
<1>1. CASE i <= Len(rs)
  <2>1. i \in 1 .. Len(rs) /\ rt[i] = rs[i]
    BY <1>1 DEF Extends
  <2> QED
    BY <2>1, AnsweredStays DEF RowsAreClosed
<1>2. CASE ~(i <= Len(rs))
  BY <1>2 DEF AddsOf
<1> QED
  BY <1>1, <1>2

(* ... nor for its open calls,                                             *)
LEMMA OthersStayOpen ==
  ASSUME NEW rs, NEW rt, NEW b, NEW t, b # t, Extends(rt, rs), AddsOf(t, rt, rs), NEW r, NEW us,
         RowsAreOpen(b, r, us, rs)
  PROVE  RowsAreOpen(b, r, us, rt)
<1>1. \E i \in 1 .. Len(rt) : rt[i].uses = us
  BY DEF RowsAreOpen, Extends
<1>2. ASSUME NEW i \in 1 .. Len(rt)
      PROVE  /\ \A u \in rt[i].answers : u[1] = b => u[2] < r
             /\ \A u \in rt[i].uses : u[1] = b =>
                  rt[i].uses = us \/ (u[2] < r /\ Answered(rt, i))
  <2>1. CASE i <= Len(rs)
    <3>1. i \in 1 .. Len(rs) /\ rt[i] = rs[i]
      BY <2>1 DEF Extends
    <3> QED
      BY <3>1, AnsweredStays DEF RowsAreOpen
  <2>2. CASE ~(i <= Len(rs))
    BY <2>2 DEF AddsOf
  <2> QED
    BY <2>1, <2>2
<1> QED
  BY <1>1, <1>2 DEF RowsAreOpen

(* ... nor when it is over.                                                *)
LEMMA OthersAreAnswered ==
  ASSUME NEW rs, NEW rt, NEW b, NEW t, b # t, Extends(rt, rs), AddsOf(t, rt, rs),
         TurnIsClosed(b, rs)
  PROVE  TurnIsClosed(b, rt)
<1> SUFFICES ASSUME NEW i \in 1 .. Len(rt), \E u \in rt[i].uses : u[1] = b
             PROVE  Answered(rt, i)
  BY DEF TurnIsClosed
<1>1. i <= Len(rs)
  BY DEF AddsOf
<1>2. i \in 1 .. Len(rs) /\ rt[i] = rs[i]
  BY <1>1 DEF Extends
<1> QED
  BY <1>2, AnsweredStays DEF TurnIsClosed

(* A turn behind which all is closed has its calls answered.               *)
LEMMA ClosedIsAnswered ==
  ASSUME NEW t, NEW r, NEW rs, RowsAreClosed(t, r, rs)
  PROVE  TurnIsClosed(t, rs)
BY DEF RowsAreClosed, TurnIsClosed

(* A later round has no less behind it.                                    *)
LEMMA ClosedForLater ==
  ASSUME NEW t, NEW r \in Nat, NEW rs \in Seq(Message), RowsAreClosed(t, r, rs),
         ToolUse \subseteq Turn \X Nat \X Nat
  PROVE  RowsAreClosed(t, r + 1, rs)
<1> SUFFICES ASSUME NEW i \in 1 .. Len(rs)
             PROVE  /\ \A u \in rs[i].answers : u[1] = t => u[2] < r + 1
                    /\ \A u \in rs[i].uses : u[1] = t => u[2] < r + 1 /\ Answered(rs, i)
  BY DEF RowsAreClosed
<1>1. rs[i].answers \subseteq ToolUse /\ rs[i].uses \subseteq ToolUse
  <2>1. rs[i] \in Message
    OBVIOUS
  <2> QED
    BY <2>1 DEF Message
<1>2. \A u \in rs[i].answers \cup rs[i].uses : u[2] \in Nat
  BY <1>1
<1> QED
  BY <1>2 DEF RowsAreClosed

(* A tool call is its turn, its round and its place.                       *)
LEMMA ToolUseIsTriple == TypeOK => ToolUse \subseteq Turn \X Nat \X Nat
  BY BoundsAreNumbers DEF ToolUse

-----------------------------------------------------------------------------
(* A step of turn t, which makes it s with outcome o.                      *)
LEMMA StepOfTurn ==
  ASSUME TurnInv, NEW t \in Turn, NEW s \in TurnState, NEW o \in Outcomes,
         turn' = [turn EXCEPT ![t] = s], out' = [out EXCEPT ![t] = o],
         UNCHANGED overlap, faults' \in 0 .. MaxFaults, contact' \in Name \cup {Nobody},
         rows' \in Seq(Message), Extends(rows', rows), AddsOf(t, rows', rows),
         AnswersFollowTheirCalls', TurnIsTrue(t, s, rows'), OutcomeIsTrue(t, s, o, rows')
  PROVE  TurnInv'
<1>1. TypeOK'
  BY OverlapIsFixed DEF TurnInv, TypeOK
<1>2. ASSUME NEW b \in Turn
      PROVE  TurnIsTrue(b, turn'[b], rows') /\ OutcomeIsTrue(b, turn'[b], out'[b], rows')
  <2>1. CASE b = t
    BY <2>1 DEF TurnInv, TypeOK
  <2>2. CASE b # t
    <3>1. turn'[b] = turn[b] /\ out'[b] = out[b]
      BY <2>2 DEF TurnInv, TypeOK
    <3>2. PICK x : x = turn[b]
      OBVIOUS
    <3>3. TurnIsTrue(b, x, rows) /\ OutcomeIsTrue(b, x, out[b], rows)
      BY <3>2 DEF TurnInv
    <3>4. TurnIsTrue(b, x, rows')
      BY <2>2, <3>3, OthersStayClosed, OthersStayOpen DEF TurnIsTrue
    <3>5. OutcomeIsTrue(b, x, out[b], rows')
      BY <2>2, <3>3, OthersAreAnswered DEF OutcomeIsTrue
    <3> QED
      BY <3>1, <3>2, <3>4, <3>5
  <2> QED
    BY <2>1, <2>2
<1> QED
  BY <1>1, <1>2 DEF TurnInv, TurnIsTrue, OutcomeIsTrue, UsesOf, RowsAreOpen, RowsAreClosed,
     TurnIsClosed, Answered

(* ... that stores nothing.                                                *)
LEMMA QuietStep ==
  ASSUME TurnInv, NEW t \in Turn, NEW s \in TurnState, NEW o \in Outcomes,
         turn' = [turn EXCEPT ![t] = s], out' = [out EXCEPT ![t] = o],
         UNCHANGED <<rows, overlap>>, faults' \in 0 .. MaxFaults,
         contact' \in Name \cup {Nobody},
         TurnIsTrue(t, s, rows), OutcomeIsTrue(t, s, o, rows)
  PROVE  TurnInv'
<1>1. Len(rows) \in Nat /\ rows' \in Seq(Message)
  BY DEF TurnInv, TypeOK
<1>2. Extends(rows', rows) /\ AddsOf(t, rows', rows)
  BY <1>1 DEF Extends, AddsOf
<1>3. AnswersFollowTheirCalls'
  BY DEF TurnInv, AnswersFollowTheirCalls
<1>4. TurnIsTrue(t, s, rows') /\ OutcomeIsTrue(t, s, o, rows')
  OBVIOUS
<1> QED
  BY <1>1, <1>2, <1>3, <1>4, StepOfTurn

(* What is known of one turn.                                              *)
LEMMA TurnIsTyped ==
  ASSUME TurnInv, NEW t \in Turn
  PROVE  /\ turn[t] \in TurnState /\ out[t] \in Outcomes
         /\ TurnIsTrue(t, turn[t], rows) /\ OutcomeIsTrue(t, turn[t], out[t], rows)
         /\ out' = out => out' = [out EXCEPT ![t] = out[t]]
         /\ turn[t].round \in Nat /\ turn[t].uses \in Nat
         /\ faults \in 0 .. MaxFaults /\ contact \in Name \cup {Nobody}
BY BoundsAreNumbers DEF TurnInv, TypeOK, TurnState

(* A turn that is over is true of any rows.                                *)
LEMMA OverIsTrue ==
  ASSUME TypeOK, NEW t \in Turn, NEW s \in TurnState, NEW rs
  PROVE  Over(s) \in TurnState /\ Over(s).step = "over" /\ TurnIsTrue(t, Over(s), rs)
<1>1. NewTurn \in TurnState
  <2>1. <<>> \in Seq(Message)
    OBVIOUS
  <2> QED
    BY <2>1, BoundsAreNumbers DEF NewTurn, TurnState, Steps, Replies
<1>2. /\ Over(s) \in TurnState /\ Over(s).step = "over" /\ Over(s).round = 0
  BY <1>1 DEF Over, TurnState, NewTurn, Steps
<1> QED
  BY <1>2, BoundsAreNumbers DEF TurnIsTrue

(* It is true of the empty conversation.                                   *)
LEMMA InitIsTrue == Init => TurnInv
<1> SUFFICES ASSUME Init PROVE TurnInv
  OBVIOUS
<1>1. MaxTools \in Nat /\ MaxRounds \in Nat /\ MaxRounds > 0
  BY RoundsAssumption, BoundsAssumption DEF Init, MaxTools
<1>2. NewTurn \in TurnState /\ <<>> \in Seq(Message) /\ Len(<<>>) = 0
  <2>1. <<>> \in Seq(Message) /\ Len(<<>>) = 0
    OBVIOUS
  <2> QED
    BY <1>1, <2>1 DEF NewTurn, TurnState, Steps, Replies
<1>3. TypeOK
  BY <1>2, BoundsAssumption DEF Init, TypeOK, Outcomes
<1>4. AnswersFollowTheirCalls
  BY <1>2 DEF Init, AnswersFollowTheirCalls
<1>5. ASSUME NEW t \in Turn
      PROVE  TurnIsTrue(t, turn[t], rows) /\ OutcomeIsTrue(t, turn[t], out[t], rows)
  <2>1. turn[t] = NewTurn /\ out[t] = "open" /\ rows = <<>>
    BY DEF Init
  <2>2. RowsAreClosed(t, 0, rows)
    BY <1>2, <2>1 DEF RowsAreClosed
  <2> QED
    BY <1>1, <2>1, <2>2 DEF TurnIsTrue, OutcomeIsTrue, NewTurn
<1> QED
  BY <1>3, <1>4, <1>5 DEF TurnInv

-----------------------------------------------------------------------------
(* The end of an iteration.                                                *)
LEMMA NextRoundKeeps ==
  ASSUME TurnInv, NEW t \in Turn, NEW s \in TurnState, NextRound(t, s),
         UNCHANGED overlap, faults' \in 0 .. MaxFaults, contact' \in Name \cup {Nobody},
         rows' \in Seq(Message), Extends(rows', rows), AddsOf(t, rows', rows),
         AnswersFollowTheirCalls', RowsAreClosed(t, s.round + 1, rows'),
         turn[t].step # "over", s.round < MaxRounds
  PROVE  TurnInv'
<1>1. /\ s.round \in Nat /\ MaxRounds \in Nat
      /\ out[t] \in Outcomes /\ out[t] # "done" /\ TypeOK
  BY BoundsAreNumbers, TurnIsTyped DEF TurnInv, TurnState, OutcomeIsTrue
<1>2. CASE s.round + 1 < MaxRounds
  <2>1. PICK z : z = [s EXCEPT !.round = @ + 1, !.step = "calling"]
    OBVIOUS
  <2>2. turn' = [turn EXCEPT ![t] = z] /\ out' = [out EXCEPT ![t] = out[t]]
    BY <1>2, <2>1, TurnIsTyped DEF NextRound
  <2>3. z.round = s.round + 1 /\ z.step = "calling"
    BY <2>1 DEF TurnState
  <2>4. z \in TurnState
    <3>1. s.round + 1 \in 0 .. MaxRounds
      BY <1>1, <1>2
    <3> QED
      BY <2>1, <3>1 DEF TurnState, Steps
  <2>5. TurnIsTrue(t, z, rows')
    BY <1>2, <2>3 DEF TurnIsTrue
  <2>6. PICK o : o = out[t]
    OBVIOUS
  <2>7. o \in Outcomes /\ OutcomeIsTrue(t, z, o, rows') /\ out' = [out EXCEPT ![t] = o]
    BY <1>1, <2>2, <2>6 DEF OutcomeIsTrue
  <2> QED
    BY <2>2, <2>4, <2>5, <2>7, StepOfTurn
<1>3. CASE ~(s.round + 1 < MaxRounds)
  <2>1. PICK z : z = Over(s)
    OBVIOUS
  <2>2. turn' = [turn EXCEPT ![t] = z] /\ out' = [out EXCEPT ![t] = "done"]
    BY <1>3, <2>1 DEF NextRound, End
  <2>3. z \in TurnState /\ z.step = "over" /\ TurnIsTrue(t, z, rows')
    BY <1>1, <2>1, OverIsTrue
  <2>4. "done" \in Outcomes /\ OutcomeIsTrue(t, z, "done", rows')
    BY <2>3, ClosedIsAnswered DEF OutcomeIsTrue, Outcomes
  <2> QED
    BY <2>2, <2>3, <2>4, StepOfTurn
<1> QED
  BY <1>2, <1>3

(* The end of a turn by an error.                                          *)
LEMMA ErrorKeeps ==
  ASSUME TurnInv, NEW t \in Turn, NEW s \in TurnState, End(t, s, "error"),
         UNCHANGED <<rows, contact, overlap>>, faults' \in 0 .. MaxFaults
  PROVE  TurnInv'
<1>1. TypeOK /\ contact' \in Name \cup {Nobody}
  BY DEF TurnInv, TypeOK
<1>2. PICK z : z = Over(s)
  OBVIOUS
<1>3. turn' = [turn EXCEPT ![t] = z] /\ out' = [out EXCEPT ![t] = "error"]
  BY <1>2 DEF End
<1>4. z \in TurnState /\ z.step = "over" /\ TurnIsTrue(t, z, rows)
  BY <1>1, <1>2, OverIsTrue
<1>5. "error" \in Outcomes /\ OutcomeIsTrue(t, z, "error", rows)
  BY DEF OutcomeIsTrue, Outcomes
<1> QED
  BY <1>1, <1>3, <1>4, <1>5, QuietStep

(* A step outside the tools that stays in its round and stores nothing.    *)
LEMMA GoOnKeeps ==
  ASSUME TurnInv, NEW t \in Turn, NEW s \in TurnState, turn' = [turn EXCEPT ![t] = s],
         UNCHANGED <<rows, contact, out, faults, overlap>>,
         turn[t].step \notin {"tools", "remembering", "over"},
         s.step \notin {"tools", "remembering", "over"},
         s.round = turn[t].round, s.step = "storing" /\ s.reply # "tools" => s.uses = 0
  PROVE  TurnInv'
<1>1. TurnIsTrue(t, s, rows)
  BY TurnIsTyped DEF TurnIsTrue
<1>2. PICK o : o = out[t]
  OBVIOUS
<1>3. o \in Outcomes /\ OutcomeIsTrue(t, s, o, rows) /\ out' = [out EXCEPT ![t] = o]
  BY <1>2, TurnIsTyped DEF OutcomeIsTrue
<1>4. faults' \in 0 .. MaxFaults /\ contact' \in Name \cup {Nobody}
  BY TurnIsTyped
<1> QED
  BY <1>1, <1>3, <1>4, QuietStep

(* From the request to the loaded history.                                 *)
LEMMA EnterKeeps ==
  ASSUME TurnInv, NEW t \in Turn, Post(t) \/ GetConversation(t) \/ LoadHistory(t)
  PROVE  TurnInv'
<1>1. turn[t] \in TurnState /\ contact \in Name \cup {Nobody}
  BY TurnIsTyped
<1>2. UNCHANGED <<rows, contact, out, faults, overlap>>
  BY DEF Post, GetConversation, LoadHistory
<1>3. UserText \in Message /\ rows \in Seq(Message)
  BY DEF UserText, Message, TurnInv, TypeOK
<1>4. Append(rows, UserText) \in Seq(Message)
  BY <1>3, AppendIs
<1>5. CASE Post(t)
  <2>1. PICK s : s = [turn[t] EXCEPT !.step = "entering"]
    OBVIOUS
  <2>2. turn' = [turn EXCEPT ![t] = s] /\ turn[t].step = "new"
    BY <1>5, <2>1 DEF Post
  <2>3. s \in TurnState /\ s.step = "entering" /\ s.round = turn[t].round
    BY <1>1, <2>1 DEF TurnState, Steps
  <2> QED
    BY <1>2, <2>2, <2>3, GoOnKeeps
<1>6. CASE GetConversation(t)
  <2>1. PICK s : s = [turn[t] EXCEPT !.step = "loading", !.contact = contact]
    OBVIOUS
  <2>2. turn' = [turn EXCEPT ![t] = s] /\ turn[t].step = "entering"
    BY <1>6, <2>1 DEF GetConversation
  <2>3. s \in TurnState /\ s.step = "loading" /\ s.round = turn[t].round
    BY <1>1, <2>1 DEF TurnState, Steps
  <2> QED
    BY <1>2, <2>2, <2>3, GoOnKeeps
<1>7. CASE LoadHistory(t)
  <2>1. PICK s : s = [turn[t] EXCEPT !.step = "greeting", !.messages = Append(rows, UserText)]
    OBVIOUS
  <2>2. turn' = [turn EXCEPT ![t] = s] /\ turn[t].step = "loading"
    BY <1>7, <2>1 DEF LoadHistory
  <2>3. s \in TurnState /\ s.step = "greeting" /\ s.round = turn[t].round
    BY <1>1, <1>4, <2>1 DEF TurnState, Steps
  <2> QED
    BY <1>2, <2>2, <2>3, GoOnKeeps
<1> QED
  BY <1>5, <1>6, <1>7

(* A message that makes no calls and answers none leaves all as it was.    *)
LEMMA PlainRow ==
  ASSUME TurnInv, NEW t \in Turn, NEW m \in Message, m.answers = {},
         \A u \in m.uses : u[1] = t, rows' = Append(rows, m)
  PROVE  /\ rows' \in Seq(Message) /\ Extends(rows', rows) /\ AddsOf(t, rows', rows)
         /\ AnswersFollowTheirCalls'
         /\ Len(rows') = Len(rows) + 1 /\ rows'[Len(rows) + 1] = m
<1>1. /\ rows' \in Seq(Message) /\ Len(rows) \in Nat /\ Len(rows') = Len(rows) + 1
      /\ \A i \in 1 .. Len(rows) : rows'[i] = rows[i]
      /\ rows'[Len(rows) + 1] = m
  BY AppendIs DEF TurnInv, TypeOK
<1>2. Extends(rows', rows)
  BY <1>1 DEF Extends
<1>3. AddsOf(t, rows', rows)
  BY <1>1 DEF AddsOf
<1>4. ASSUME NEW i \in 1 .. Len(rows'), rows'[i].answers # {}
      PROVE  /\ \E j \in 1 .. i - 1 : rows'[j].uses = rows'[i].answers
             /\ \A j \in 1 .. Len(rows') : j # i => rows'[j].answers \cap rows'[i].answers = {}
  <2>1. i \in 1 .. Len(rows) /\ rows'[i] = rows[i]
    BY <1>1, <1>4
  <2>2. PICK j \in 1 .. i - 1 : rows[j].uses = rows[i].answers
    BY <1>4, <2>1 DEF TurnInv, AnswersFollowTheirCalls
  <2>3. j \in 1 .. Len(rows) /\ rows'[j] = rows[j]
    BY <1>1, <2>1, <2>2
  <2>4. ASSUME NEW k \in 1 .. Len(rows'), k # i PROVE rows'[k].answers \cap rows'[i].answers = {}
    <3>1. CASE k \in 1 .. Len(rows)
      BY <1>1, <1>4, <2>1, <2>4, <3>1 DEF TurnInv, AnswersFollowTheirCalls
    <3>2. CASE k = Len(rows) + 1
      BY <1>1, <3>2
    <3> QED
      BY <1>1, <2>4, <3>1, <3>2
  <2> QED
    BY <2>1, <2>2, <2>3, <2>4
<1>5. AnswersFollowTheirCalls'
  BY <1>4 DEF AnswersFollowTheirCalls
<1> QED
  BY <1>1, <1>2, <1>3, <1>5

(* ... if it makes no calls, the rows of its turn stay closed.             *)
LEMMA PlainRowIsClosed ==
  ASSUME NEW t, NEW r, NEW rs, NEW rt, NEW m, m.uses = {}, m.answers = {},
         Extends(rt, rs), Len(rt) = Len(rs) + 1, rt[Len(rs) + 1] = m,
         RowsAreClosed(t, r, rs)
  PROVE  RowsAreClosed(t, r, rt)
<1> SUFFICES ASSUME NEW i \in 1 .. Len(rt)
             PROVE  /\ \A u \in rt[i].answers : u[1] = t => u[2] < r
                    /\ \A u \in rt[i].uses : u[1] = t => u[2] < r /\ Answered(rt, i)
  BY DEF RowsAreClosed
<1>1. CASE i \in 1 .. Len(rs)
  <2>1. rt[i] = rs[i]
    BY <1>1 DEF Extends
  <2> QED
    BY <1>1, <2>1, AnsweredStays DEF RowsAreClosed
<1>2. CASE i = Len(rs) + 1
  BY <1>2
<1> QED
  BY <1>1, <1>2 DEF Extends

(* Storing the customer's message.                                         *)
LEMMA PersistTextKeeps ==
  ASSUME TurnInv, NEW t \in Turn, PersistText(t)
  PROVE  TurnInv'
<1>1. /\ turn[t] \in TurnState /\ TurnIsTrue(t, turn[t], rows)
      /\ OutcomeIsTrue(t, turn[t], out[t], rows) /\ out[t] \in Outcomes
      /\ faults \in 0 .. MaxFaults /\ contact \in Name \cup {Nobody}
  BY TurnIsTyped
<1>2. PICK s, o : s = [turn[t] EXCEPT !.step = "calling"] /\ o = out[t]
  OBVIOUS
<1>3. /\ turn' = [turn EXCEPT ![t] = s] /\ turn[t].step = "greeting"
      /\ rows' = Append(rows, UserText) /\ UNCHANGED <<contact, out, faults, overlap>>
      /\ out' = [out EXCEPT ![t] = o]
  BY <1>2, TurnIsTyped DEF PersistText
<1>4. s \in TurnState /\ s.step = "calling" /\ s.round = turn[t].round
  BY <1>1, <1>2 DEF TurnState, Steps
<1>5. UserText \in Message /\ UserText.uses = {} /\ UserText.answers = {}
  BY DEF UserText, Message
<1>6. /\ rows' \in Seq(Message) /\ Extends(rows', rows) /\ AddsOf(t, rows', rows)
      /\ AnswersFollowTheirCalls'
      /\ Len(rows') = Len(rows) + 1 /\ rows'[Len(rows) + 1] = UserText
  BY <1>3, <1>5, PlainRow
<1>7. RowsAreClosed(t, s.round, rows) /\ s.round < MaxRounds
  BY <1>1, <1>3, <1>4 DEF TurnIsTrue
<1>8. RowsAreClosed(t, s.round, rows')
  BY <1>5, <1>6, <1>7, PlainRowIsClosed
<1>9. TurnIsTrue(t, s, rows') /\ OutcomeIsTrue(t, s, o, rows')
  BY <1>1, <1>2, <1>3, <1>4, <1>7, <1>8 DEF TurnIsTrue, OutcomeIsTrue
<1> QED
  BY <1>1, <1>2, <1>3, <1>4, <1>6, <1>9, StepOfTurn

(* The model replies, refuses or fails.                                    *)
LEMMA ModelKeeps ==
  ASSUME TurnInv, NEW t \in Turn, ModelReplies(t) \/ ModelRefuses(t) \/ ModelFails(t)
  PROVE  TurnInv'
<1>1. /\ turn[t] \in TurnState /\ TurnIsTrue(t, turn[t], rows) /\ MaxTools \in Nat /\ TypeOK
      /\ faults \in 0 .. MaxFaults /\ contact \in Name \cup {Nobody}
  BY TurnIsTyped, BoundsAreNumbers DEF TurnInv
<1>2. turn[t].step = "calling" /\ UNCHANGED <<rows, contact, faults, overlap>>
  BY DEF ModelReplies, ModelRefuses, ModelFails
<1>3. CASE ModelReplies(t)
  <2>1. PICK reply \in {"text", "tools", "pause"} :
          \E n \in IF reply = "tools" THEN 1 .. MaxTools ELSE {0} :
            turn' = [turn EXCEPT ![t].step = "storing", ![t].reply = reply,
                                 ![t].uses = n, ![t].ran = 0]
    BY <1>3 DEF ModelReplies
  <2>2. PICK n \in IF reply = "tools" THEN 1 .. MaxTools ELSE {0} :
          turn' = [turn EXCEPT ![t].step = "storing", ![t].reply = reply,
                               ![t].uses = n, ![t].ran = 0]
    BY <2>1
  <2>3. PICK s : s = [turn[t] EXCEPT !.step = "storing", !.reply = reply, !.uses = n, !.ran = 0]
    OBVIOUS
  <2>4. turn' = [turn EXCEPT ![t] = s]
    BY <2>2, <2>3
  <2>5. n \in 0 .. MaxTools /\ 0 \in 0 .. MaxTools
    BY <1>1, <2>2
  <2>6. /\ s \in TurnState /\ s.step = "storing" /\ s.reply = reply /\ s.uses = n
        /\ s.round = turn[t].round
    BY <1>1, <2>3, <2>5 DEF TurnState, Steps, Replies
  <2>7. s.reply # "tools" => s.uses = 0
    BY <2>2, <2>6
  <2> QED
    BY <1>2, <1>3, <2>4, <2>6, <2>7, GoOnKeeps DEF ModelReplies
<1>4. CASE ModelRefuses(t)
  <2>1. PICK s : s = [turn[t] EXCEPT !.reply = "refusal", !.retried = TRUE, !.uses = 0]
    OBVIOUS
  <2>2. IF turn[t].retried THEN End(t, s, "error") ELSE NextRound(t, s)
    BY <1>4, <2>1 DEF ModelRefuses
  <2>3. 0 \in 0 .. MaxTools
    BY <1>1
  <2>4. s \in TurnState /\ s.round = turn[t].round
    BY <1>1, <2>1, <2>3 DEF TurnState, Replies
  <2>5. CASE End(t, s, "error")
    BY <1>1, <1>2, <2>4, <2>5, ErrorKeeps
  <2>6. CASE NextRound(t, s)
    <3>1. s.round < MaxRounds /\ RowsAreClosed(t, s.round, rows) /\ s.round \in Nat
      BY <1>1, <1>2, <2>4, TurnIsTyped DEF TurnIsTrue
    <3>2. RowsAreClosed(t, s.round + 1, rows)
      BY <1>1, <3>1, ClosedForLater, ToolUseIsTriple DEF TypeOK
    <3>3. Extends(rows', rows) /\ AddsOf(t, rows', rows) /\ rows' \in Seq(Message)
      BY <1>1, <1>2 DEF Extends, AddsOf, TypeOK
    <3>4. AnswersFollowTheirCalls'
      BY <1>2 DEF TurnInv, AnswersFollowTheirCalls
    <3>5. RowsAreClosed(t, s.round + 1, rows')
      BY <1>2, <3>2
    <3> QED
      BY <1>1, <1>2, <2>4, <2>6, <3>1, <3>3, <3>4, <3>5, NextRoundKeeps
  <2> QED
    BY <2>2, <2>5, <2>6
<1>5. CASE ModelFails(t)
  BY <1>1, <1>2, <1>5, ErrorKeeps DEF ModelFails
<1> QED
  BY <1>3, <1>4, <1>5

(* Tools run and details are remembered.                                   *)
LEMMA ToolKeeps ==
  ASSUME TurnInv, NEW t \in Turn, RunTool(t) \/ RememberCustomer(t)
  PROVE  TurnInv'
<1>1. /\ turn[t] \in TurnState /\ TurnIsTrue(t, turn[t], rows) /\ MaxTools \in Nat
      /\ OutcomeIsTrue(t, turn[t], out[t], rows) /\ out[t] \in Outcomes
      /\ faults \in 0 .. MaxFaults /\ contact \in Name \cup {Nobody}
  BY TurnIsTyped, BoundsAreNumbers DEF TurnInv
<1>2. /\ turn[t].step \in {"tools", "remembering"} /\ UNCHANGED <<rows, out, faults, overlap>>
      /\ contact' \in Name \cup {Nobody}
  BY <1>1 DEF RunTool, RememberCustomer, TurnState
<1>3. \E s \in TurnState : /\ turn' = [turn EXCEPT ![t] = s]
                           /\ s.step \in {"tools", "remembering"}
                           /\ s.round = turn[t].round /\ s.uses = turn[t].uses
  <2>1. CASE RememberCustomer(t)
    <3>1. PICK s : s = [turn[t] EXCEPT !.step = "tools"]
      OBVIOUS
    <3>2. turn' = [turn EXCEPT ![t] = s]
      BY <2>1, <3>1 DEF RememberCustomer
    <3>3. s \in TurnState /\ s.step = "tools" /\ s.round = turn[t].round /\ s.uses = turn[t].uses
      BY <1>1, <3>1 DEF TurnState, Steps
    <3> QED
      BY <3>2, <3>3
  <2>2. CASE RunTool(t)
    <3>1. turn[t].ran + 1 \in 0 .. MaxTools
      <4>1. turn[t].ran \in 0 .. MaxTools /\ turn[t].uses \in 0 .. MaxTools
        BY <1>1 DEF TurnState
      <4>2. turn[t].ran < turn[t].uses
        BY <2>2 DEF RunTool
      <4> QED
        BY <1>1, <4>1, <4>2
    <3>2. CASE turn' = [turn EXCEPT ![t].ran = @ + 1]
      <4>1. PICK s : s = [turn[t] EXCEPT !.ran = @ + 1]
        OBVIOUS
      <4>2. turn' = [turn EXCEPT ![t] = s]
        BY <3>2, <4>1
      <4>3. s \in TurnState /\ s.step = turn[t].step /\ s.round = turn[t].round
            /\ s.uses = turn[t].uses
        BY <1>1, <3>1, <4>1 DEF TurnState
      <4> QED
        BY <1>2, <4>2, <4>3
    <3>3. CASE \E n \in Name : turn' = [turn EXCEPT ![t].ran = @ + 1, ![t].contact = n,
                                                    ![t].step = "remembering"]
      <4>0. PICK n \in Name : turn' = [turn EXCEPT ![t].ran = @ + 1, ![t].contact = n,
                                                   ![t].step = "remembering"]
        BY <3>3
      <4>1. PICK s : s = [turn[t] EXCEPT !.ran = @ + 1, !.contact = n, !.step = "remembering"]
        OBVIOUS
      <4>2. turn' = [turn EXCEPT ![t] = s]
        BY <4>0, <4>1
      <4>3. s \in TurnState /\ s.step = "remembering" /\ s.round = turn[t].round
            /\ s.uses = turn[t].uses
        BY <1>1, <3>1, <4>1 DEF TurnState, Steps
      <4> QED
        BY <4>2, <4>3
    <3> QED
      BY <2>2, <3>2, <3>3 DEF RunTool
  <2> QED
    BY <1>2, <2>1, <2>2
<1>4. PICK s \in TurnState : /\ turn' = [turn EXCEPT ![t] = s]
                             /\ s.step \in {"tools", "remembering"}
                             /\ s.round = turn[t].round /\ s.uses = turn[t].uses
  BY <1>3
<1>5. UsesOf(t, s) = UsesOf(t, turn[t])
  BY <1>4 DEF UsesOf
<1>6. TurnIsTrue(t, s, rows)
  BY <1>1, <1>2, <1>4, <1>5 DEF TurnIsTrue
<1>7. PICK o : o = out[t]
  OBVIOUS
<1>8. o \in Outcomes /\ OutcomeIsTrue(t, s, o, rows) /\ out' = [out EXCEPT ![t] = o]
  BY <1>1, <1>2, <1>7, TurnIsTyped DEF OutcomeIsTrue
<1> QED
  BY <1>1, <1>2, <1>4, <1>6, <1>8, QuietStep

(* A stored reply leaves its own calls open, and no others.                *)
LEMMA ReplyOpens ==
  ASSUME NEW t, NEW r, NEW us, NEW rs, NEW rt, NEW m, m.uses = us, m.answers = {},
         Extends(rt, rs), Len(rt) = Len(rs) + 1, rt[Len(rs) + 1] = m,
         RowsAreClosed(t, r, rs)
  PROVE  RowsAreOpen(t, r, us, rt)
<1>1. Len(rs) + 1 \in 1 .. Len(rt)
  BY DEF Extends
<1>2. ASSUME NEW i \in 1 .. Len(rt)
      PROVE  /\ \A u \in rt[i].answers : u[1] = t => u[2] < r
             /\ \A u \in rt[i].uses : u[1] = t =>
                  rt[i].uses = us \/ (u[2] < r /\ Answered(rt, i))
  <2>1. CASE i \in 1 .. Len(rs)
    <3>1. rt[i] = rs[i]
      BY <2>1 DEF Extends
    <3> QED
      BY <2>1, <3>1, AnsweredStays DEF RowsAreClosed
  <2>2. CASE i = Len(rs) + 1
    BY <2>2
  <2> QED
    BY <2>1, <2>2 DEF Extends
<1> QED
  BY <1>1, <1>2 DEF RowsAreOpen

(* ... and its results close them.                                         *)
LEMMA ResultsClose ==
  ASSUME NEW t, NEW r \in Nat, NEW us, NEW rs \in Seq(Message), NEW rt, NEW m,
         m.uses = {}, m.answers = us, \A u \in us : u[2] = r,
         Extends(rt, rs), Len(rt) = Len(rs) + 1, rt[Len(rs) + 1] = m,
         RowsAreOpen(t, r, us, rs), ToolUse \subseteq Turn \X Nat \X Nat
  PROVE  RowsAreClosed(t, r + 1, rt)
<1> SUFFICES ASSUME NEW i \in 1 .. Len(rt)
             PROVE  /\ \A u \in rt[i].answers : u[1] = t => u[2] < r + 1
                    /\ \A u \in rt[i].uses : u[1] = t => u[2] < r + 1 /\ Answered(rt, i)
  BY DEF RowsAreClosed
<1>1. CASE i \in 1 .. Len(rs)
  <2>1. rt[i] = rs[i] /\ rs[i] \in Message
    BY <1>1 DEF Extends
  <2>2. \A u \in rs[i].answers \cup rs[i].uses : u[2] \in Nat
    BY <2>1 DEF Message
  <2>3. \A u \in rs[i].answers : u[1] = t => u[2] < r + 1
    BY <1>1, <2>2 DEF RowsAreOpen
  <2>4. ASSUME NEW u \in rs[i].uses, u[1] = t
        PROVE  u[2] < r + 1 /\ Answered(rt, i)
    <3>1. rs[i].uses = us \/ (u[2] < r /\ Answered(rs, i))
      BY <1>1, <2>4 DEF RowsAreOpen
    <3>2. CASE rs[i].uses = us
      <4>1. Len(rs) + 1 \in i + 1 .. Len(rt) /\ rt[Len(rs) + 1].answers = rt[i].uses
        BY <1>1, <2>1, <3>2 DEF Extends
      <4>2. Answered(rt, i)
        BY <4>1 DEF Answered
      <4> QED
        BY <2>4, <3>2, <4>2
    <3>3. CASE u[2] < r /\ Answered(rs, i)
      BY <1>1, <2>2, <3>3, AnsweredStays
    <3> QED
      BY <3>1, <3>2, <3>3
  <2> QED
    BY <2>1, <2>3, <2>4
<1>2. CASE i = Len(rs) + 1
  BY <1>2
<1> QED
  BY <1>1, <1>2 DEF Extends

(* The calls of a turn carry its name and its round.                       *)
LEMMA UsesAreTyped ==
  ASSUME TurnInv, NEW t \in Turn
  PROVE  /\ Uses(t) = UsesOf(t, turn[t]) /\ Uses(t) \subseteq ToolUse
         /\ \A u \in Uses(t) : u[1] = t /\ u[2] = turn[t].round
         /\ turn[t].uses = 0 => Uses(t) = {}
<1>1. /\ turn[t].round \in Nat /\ turn[t].round < MaxRounds
      /\ turn[t].uses \in 0 .. MaxTools /\ MaxTools \in Nat /\ MaxRounds \in Nat
  BY TurnIsTyped, BoundsAreNumbers DEF TurnInv, TurnIsTrue, TurnState
<1>2. Uses(t) \subseteq ToolUse
  <2>1. turn[t].round \in 0 .. MaxRounds - 1
    BY <1>1
  <2>2. ASSUME NEW k \in 1 .. turn[t].uses PROVE k \in 1 .. MaxTools
    BY <1>1
  <2> QED
    BY <2>1, <2>2 DEF Uses, ToolUse
<1>3. turn[t].uses = 0 => Uses(t) = {}
  BY DEF Uses
<1> QED
  BY <1>2, <1>3 DEF Uses, UsesOf

(* Storing a reply.                                                        *)
LEMMA PersistReplyKeeps ==
  ASSUME TurnInv, NEW t \in Turn, PersistReply(t)
  PROVE  TurnInv'
<1>1. /\ turn[t] \in TurnState /\ TurnIsTrue(t, turn[t], rows) /\ turn[t].round \in Nat
      /\ OutcomeIsTrue(t, turn[t], out[t], rows) /\ out[t] \in Outcomes /\ TypeOK
      /\ faults \in 0 .. MaxFaults /\ contact \in Name \cup {Nobody}
  BY TurnIsTyped DEF TurnInv
<1>2. PICK m, z : m = Reply(t) /\ z = [turn[t] EXCEPT !.messages = Append(@, Reply(t))]
  OBVIOUS
<1>3. /\ turn[t].step = "storing" /\ rows' = Append(rows, m)
      /\ UNCHANGED <<contact, faults, overlap>>
  BY <1>2 DEF PersistReply
<1>4. /\ m \in Message /\ m.answers = {} /\ m.uses = Uses(t)
  BY <1>2, UsesAreTyped DEF Reply, Message
<1>5. /\ rows' \in Seq(Message) /\ Extends(rows', rows) /\ AddsOf(t, rows', rows)
      /\ AnswersFollowTheirCalls'
      /\ Len(rows') = Len(rows) + 1 /\ rows'[Len(rows) + 1] = m
  BY <1>3, <1>4, UsesAreTyped, PlainRow
<1>6. /\ z \in TurnState /\ z.round = turn[t].round /\ z.uses = turn[t].uses
      /\ z.reply = turn[t].reply
  <2>1. Append(turn[t].messages, m) \in Seq(Message)
    BY <1>1, <1>4, AppendIs DEF TurnState
  <2> QED
    BY <1>1, <1>2, <2>1 DEF TurnState
<1>7. RowsAreClosed(t, z.round, rows) /\ z.round < MaxRounds
  BY <1>1, <1>3, <1>6 DEF TurnIsTrue
<1>8. turn[t].reply # "tools" => RowsAreClosed(t, z.round, rows')
  <2>1. turn[t].reply # "tools" => m.uses = {}
    BY <1>1, <1>3, <1>4, UsesAreTyped DEF TurnIsTrue
  <2> QED
    BY <1>4, <1>5, <1>7, <2>1, PlainRowIsClosed
<1>9. CASE turn[t].reply = "pause" /\ NextRound(t, z)
  <2>1. RowsAreClosed(t, z.round, rows') /\ Message' = Message
    BY <1>3, <1>8, <1>9, OverlapIsFixed
  <2>2. RowsAreClosed(t, z.round + 1, rows')
    BY <1>1, <1>5, <1>6, <2>1, ClosedForLater, ToolUseIsTriple
  <2> QED
    BY <1>1, <1>3, <1>5, <1>6, <1>7, <1>9, <2>2, NextRoundKeeps
<1>10. CASE turn[t].reply = "text" /\ End(t, z, "done")
  <2>1. PICK s : s = Over(z)
    OBVIOUS
  <2>2. turn' = [turn EXCEPT ![t] = s] /\ out' = [out EXCEPT ![t] = "done"]
    BY <1>10, <2>1 DEF End
  <2>3. s \in TurnState /\ s.step = "over" /\ TurnIsTrue(t, s, rows')
    BY <1>1, <1>6, <2>1, OverIsTrue
  <2>4. "done" \in Outcomes /\ OutcomeIsTrue(t, s, "done", rows')
    BY <1>8, <1>10, <2>3, ClosedIsAnswered DEF OutcomeIsTrue, Outcomes
  <2> QED
    BY <1>1, <1>3, <1>5, <2>2, <2>3, <2>4, StepOfTurn
<1>11. CASE /\ turn[t].reply = "tools" /\ turn' = [turn EXCEPT ![t] = [z EXCEPT !.step = "tools"]]
            /\ UNCHANGED out
  <2>1. PICK s, o : s = [z EXCEPT !.step = "tools"] /\ o = out[t]
    OBVIOUS
  <2>2. /\ s \in TurnState /\ s.step = "tools" /\ s.round = turn[t].round
        /\ s.uses = turn[t].uses
    BY <1>6, <2>1 DEF TurnState, Steps
  <2>3. UsesOf(t, s) = m.uses
    BY <1>4, <2>2, UsesAreTyped DEF UsesOf
  <2>4. RowsAreOpen(t, s.round, UsesOf(t, s), rows')
    BY <1>4, <1>5, <1>6, <1>7, <2>2, <2>3, ReplyOpens
  <2>5. TurnIsTrue(t, s, rows')
    BY <1>6, <1>7, <2>2, <2>4 DEF TurnIsTrue
  <2>6. turn' = [turn EXCEPT ![t] = s] /\ out' = [out EXCEPT ![t] = o] /\ o \in Outcomes
    BY <1>1, <1>11, <2>1, TurnIsTyped
  <2>7. OutcomeIsTrue(t, s, o, rows')
    BY <1>1, <1>3, <2>1 DEF OutcomeIsTrue
  <2> QED
    BY <1>1, <1>3, <1>5, <2>2, <2>5, <2>6, <2>7, StepOfTurn
<1> QED
  BY <1>2, <1>9, <1>10, <1>11 DEF PersistReply

(* The results follow their calls, which nobody else has answered.         *)
LEMMA ResultsFollow ==
  ASSUME TurnInv, NEW t \in Turn, turn[t].step = "tools", rows' = Append(rows, Results(t))
  PROVE  AnswersFollowTheirCalls'
<1>1. /\ rows \in Seq(Message) /\ turn[t].round \in Nat
      /\ RowsAreOpen(t, turn[t].round, Uses(t), rows)
  BY TurnIsTyped, UsesAreTyped DEF TurnInv, TypeOK, TurnIsTrue
<1>2. PICK n, m : n = Len(rows) /\ m = Results(t)
  OBVIOUS
<1>3. m \in Message /\ m.uses = {} /\ m.answers = Uses(t)
  BY <1>2, UsesAreTyped DEF Results, Message
<1>4. /\ n \in Nat /\ Len(rows') = n + 1 /\ rows'[n + 1] = m
      /\ \A i \in 1 .. n : rows'[i] = rows[i]
  BY <1>1, <1>2, <1>3, AppendIs
<1>5. \A i \in 1 .. n : rows[i].answers \cap Uses(t) = {}
  <2>1. ASSUME NEW i \in 1 .. n, NEW u \in rows[i].answers, u \in Uses(t) PROVE FALSE
    <3>1. u[1] = t /\ u[2] = turn[t].round
      BY <2>1, UsesAreTyped
    <3>2. u[2] < turn[t].round
      BY <1>1, <1>2, <3>1 DEF RowsAreOpen
    <3> QED
      BY <1>1, <3>1, <3>2
  <2> QED
    BY <2>1
<1>6. ASSUME NEW i \in 1 .. Len(rows'), rows'[i].answers # {}
      PROVE  /\ \E j \in 1 .. i - 1 : rows'[j].uses = rows'[i].answers
             /\ \A j \in 1 .. Len(rows') : j # i => rows'[j].answers \cap rows'[i].answers = {}
  <2>1. CASE i \in 1 .. n
    <3>1. rows'[i] = rows[i]
      BY <1>4, <2>1
    <3>2. PICK j \in 1 .. i - 1 : rows[j].uses = rows[i].answers
      BY <1>2, <1>6, <2>1, <3>1 DEF TurnInv, AnswersFollowTheirCalls
    <3>3. rows'[j] = rows[j]
      BY <1>4, <2>1, <3>2
    <3>4. ASSUME NEW k \in 1 .. Len(rows'), k # i
          PROVE  rows'[k].answers \cap rows'[i].answers = {}
      <4>1. CASE k \in 1 .. n
        BY <1>2, <1>4, <1>6, <2>1, <3>1, <3>4, <4>1 DEF TurnInv, AnswersFollowTheirCalls
      <4>2. CASE k = n + 1
        BY <1>3, <1>4, <1>5, <2>1, <3>1, <4>2
      <4> QED
        BY <1>4, <4>1, <4>2
    <3> QED
      BY <3>1, <3>2, <3>3, <3>4
  <2>2. CASE i = n + 1
    <3>1. PICK j \in 1 .. n : rows[j].uses = Uses(t)
      BY <1>1, <1>2 DEF RowsAreOpen
    <3>2. j \in 1 .. i - 1 /\ rows'[j].uses = rows'[i].answers
      BY <1>3, <1>4, <2>2, <3>1
    <3>3. ASSUME NEW k \in 1 .. Len(rows'), k # i
          PROVE  rows'[k].answers \cap rows'[i].answers = {}
      <4>1. k \in 1 .. n
        BY <1>4, <2>2, <3>3
      <4> QED
        BY <1>3, <1>4, <1>5, <2>2, <4>1
    <3> QED
      BY <3>2, <3>3
  <2> QED
    BY <1>4, <2>1, <2>2
<1> QED
  BY <1>6 DEF AnswersFollowTheirCalls

(* Storing results.                                                        *)
LEMMA PersistResultsKeeps ==
  ASSUME TurnInv, NEW t \in Turn, PersistResults(t)
  PROVE  TurnInv'
<1>1. /\ turn[t] \in TurnState /\ TurnIsTrue(t, turn[t], rows) /\ turn[t].round \in Nat
      /\ faults \in 0 .. MaxFaults /\ contact \in Name \cup {Nobody} /\ rows \in Seq(Message)
      /\ TypeOK
  BY TurnIsTyped DEF TurnInv, TypeOK
<1>2. PICK m, z : m = Results(t) /\ z = [turn[t] EXCEPT !.messages = Append(@, Results(t))]
  OBVIOUS
<1>3. /\ turn[t].step = "tools" /\ rows' = Append(rows, Results(t)) /\ NextRound(t, z)
      /\ UNCHANGED <<contact, faults, overlap>>
  BY <1>2 DEF PersistResults
<1>4. /\ m \in Message /\ m.uses = {} /\ m.answers = Uses(t)
  BY <1>2, UsesAreTyped DEF Results, Message
<1>5. /\ rows' \in Seq(Message) /\ Len(rows) \in Nat /\ Len(rows') = Len(rows) + 1
      /\ rows'[Len(rows) + 1] = m /\ \A i \in 1 .. Len(rows) : rows'[i] = rows[i]
  BY <1>1, <1>2, <1>3, <1>4, AppendIs
<1>6. Extends(rows', rows)
  BY <1>5 DEF Extends
<1>7. AddsOf(t, rows', rows)
  BY <1>4, <1>5, UsesAreTyped DEF AddsOf
<1>8. AnswersFollowTheirCalls'
  BY <1>3, ResultsFollow
<1>9. z \in TurnState /\ z.round = turn[t].round
  <2>1. Append(turn[t].messages, m) \in Seq(Message)
    BY <1>1, <1>4, AppendIs DEF TurnState
  <2> QED
    BY <1>1, <1>2, <2>1 DEF TurnState
<1>10. RowsAreOpen(t, z.round, Uses(t), rows) /\ z.round < MaxRounds
  BY <1>1, <1>3, <1>9, UsesAreTyped DEF TurnIsTrue
<1>11. RowsAreClosed(t, z.round + 1, rows')
  BY <1>1, <1>4, <1>5, <1>6, <1>9, <1>10, UsesAreTyped, ResultsClose, ToolUseIsTriple
<1> QED
  BY <1>1, <1>3, <1>5, <1>6, <1>7, <1>8, <1>9, <1>10, <1>11, NextRoundKeeps

(* A failing query.                                                        *)
LEMMA QueryFailsKeeps ==
  ASSUME TurnInv, NEW t \in Turn, QueryFails(t)
  PROVE  TurnInv'
<1>1. faults' \in 0 .. MaxFaults /\ turn[t] \in TurnState
  BY BoundsAssumption, TurnIsTyped DEF QueryFails, TurnInv, TypeOK
<1> QED
  BY <1>1, ErrorKeeps DEF QueryFails

(* A crash.                                                                *)
LEMMA CrashKeeps ==
  ASSUME TurnInv, Crash
  PROVE  TurnInv'
<1>1. faults' \in 0 .. MaxFaults /\ UNCHANGED <<rows, contact, overlap>>
  BY BoundsAssumption DEF Crash, TurnInv, TypeOK
<1>2. ASSUME NEW b \in Turn
      PROVE  /\ turn'[b] \in TurnState /\ out'[b] \in Outcomes
             /\ TurnIsTrue(b, turn'[b], rows) /\ OutcomeIsTrue(b, turn'[b], out'[b], rows)
  <2>1. CASE Running(b)
    <3>1. turn'[b] = Over(turn[b]) /\ out'[b] = "cut" /\ TypeOK
      BY <2>1 DEF Crash, TurnInv
    <3> QED
      BY <3>1, TurnIsTyped, OverIsTrue DEF Outcomes, OutcomeIsTrue
  <2>2. CASE ~Running(b)
    <3>1. turn'[b] = turn[b] /\ out'[b] = out[b]
      BY <2>2 DEF Crash
    <3> QED
      BY <3>1, TurnIsTyped
  <2> QED
    BY <2>1, <2>2
<1>3. TypeOK'
  <2>1. turn' \in [Turn -> TurnState] /\ out' \in [Turn -> Outcomes]
    BY <1>2 DEF Crash
  <2> QED
    BY <1>1, <2>1, OverlapIsFixed DEF TurnInv, TypeOK
<1>4. AnswersFollowTheirCalls'
  BY <1>1 DEF TurnInv, AnswersFollowTheirCalls
<1>5. ASSUME NEW b \in Turn
      PROVE  (TurnIsTrue(b, turn[b], rows) /\ OutcomeIsTrue(b, turn[b], out[b], rows))'
  BY <1>1, <1>2 DEF TurnIsTrue, OutcomeIsTrue, UsesOf, RowsAreOpen, RowsAreClosed,
     TurnIsClosed, Answered
<1> QED
  BY <1>3, <1>4, <1>5 DEF TurnInv

(* TurnInv is inductive.                                                   *)
LEMMA TurnStep ==
  ASSUME TurnInv, [Next]_vars
  PROVE  TurnInv'
<1>1. CASE UNCHANGED vars
  <2>1. TypeOK' /\ AnswersFollowTheirCalls'
    BY <1>1, OverlapIsFixed DEF vars, TurnInv, TypeOK, AnswersFollowTheirCalls
  <2>2. ASSUME NEW b \in Turn
        PROVE  (TurnIsTrue(b, turn[b], rows) /\ OutcomeIsTrue(b, turn[b], out[b], rows))'
    <3>1. TurnIsTrue(b, turn[b], rows) /\ OutcomeIsTrue(b, turn[b], out[b], rows)
      BY TurnIsTyped
    <3> QED
      BY <1>1, <3>1 DEF vars, TurnIsTrue, OutcomeIsTrue, UsesOf, RowsAreOpen, RowsAreClosed,
         TurnIsClosed, Answered
  <2> QED
    BY <2>1, <2>2 DEF TurnInv
<1>2. CASE Crash
  BY <1>2, CrashKeeps
<1>3. ASSUME NEW t \in Turn, Post(t) \/ Advance(t)
      PROVE  TurnInv'
  BY <1>3, EnterKeeps, PersistTextKeeps, ModelKeeps, PersistReplyKeeps, ToolKeeps,
     PersistResultsKeeps, QueryFailsKeeps DEF Advance
<1> QED
  BY <1>1, <1>2, <1>3 DEF Next

-----------------------------------------------------------------------------
(* The rows and the turns fit together: the calls of a turn that runs its  *)
(* tools are stored and open, those of any other turn are answered or lost *)
(* with it.                                                                *)
THEOREM TurnSafety == Spec => []TurnInv
<1>1. Init => TurnInv
  BY InitIsTrue
<1>2. TurnInv /\ [Next]_vars => TurnInv'
  BY TurnStep
<1> QED
  BY <1>1, <1>2, PTL DEF Spec

(* Rows, turns and their outcomes keep their types.                        *)
THEOREM TurnTyping == Spec => []TypeOK
<1>1. TurnInv => TypeOK
  BY DEF TurnInv
<1> QED
  BY <1>1, TurnSafety, PTL

(* Results follow the reply that called their tools, once, in every        *)
(* interleaving and after every failure.                                   *)
THEOREM AnswersFollow == Spec => []AnswersFollowTheirCalls
<1>1. TurnInv => AnswersFollowTheirCalls
  BY DEF TurnInv
<1> QED
  BY <1>1, TurnSafety, PTL

(* A turn that ends with a done event leaves none of its calls unanswered. *)
THEOREM DoneIsClosed == Spec => []DoneTurnsAreClosed
<1>1. TurnInv => DoneTurnsAreClosed
  BY DEF TurnInv, DoneTurnsAreClosed, OutcomeIsTrue, TurnIsClosed, Answered
<1> QED
  BY <1>1, TurnSafety, PTL

-----------------------------------------------------------------------------
(* Turns that do not overlap.                                              *)

(* What turn t is at and what is stored agree.                             *)
RowsFit(t, s, rs) ==
  IF s.step \in {"tools", "remembering"} THEN EndsWith(rs, UsesOf(t, s)) ELSE WellFormed(rs)

(* Of the turn that runs, it says all there is to say.                     *)
LEMMA WhoRunsFits ==
  ASSUME AloneInv, ~overlap, NEW t \in Turn, Running(t)
  PROVE  /\ ReadIsTrue(turn[t]) /\ (faults = 0 => RowsFit(t, turn[t], rows))
         /\ \A u \in Turn : u # t => ~Running(u)
<1>1. ReadIsTrue(turn[t]) /\ \A u \in Turn : u # t => ~Running(u)
  BY DEF AloneInv
<1>2. \A u \in Turn : InTools(u) => Running(u)
  BY DEF InTools, Running
<1> QED
  BY <1>1, <1>2 DEF AloneInv, RowsAreFormed, RowsFit, InTools

(* A step of turn t, which makes it s.                                     *)
LEMMA StepAlone ==
  ASSUME TurnInv, AloneInv, ~overlap, UNCHANGED overlap, NEW t \in Turn, NEW s,
         turn' = [turn EXCEPT ![t] = s], \A u \in Turn : u # t => ~Running(u),
         s.step \in {"loading", "greeting", "calling", "storing", "tools", "remembering"} =>
           ReadIsTrue(s)',
         faults' = 0 => RowsFit(t, s, rows')
  PROVE  AloneInv'
<1>1. turn'[t] = s /\ \A u \in Turn : u # t => turn'[u] = turn[u] /\ ~Running(u)
  BY DEF TurnInv, TypeOK
<1>2. \A u \in Turn : Running(u)' => u = t
  BY <1>1 DEF Running
<1>3. ASSUME NEW u \in Turn PROVE ReadIsTrue(turn[u])'
  <2>1. CASE u = t
    BY <1>1, <2>1 DEF ReadIsTrue
  <2>2. CASE u # t
    <3>1. turn'[u].step \in {"new", "over"}
      BY <1>1, <2>2 DEF Running
    <3> QED
      BY <3>1 DEF ReadIsTrue
  <2> QED
    BY <2>1, <2>2
<1>4. faults' = 0 => RowsAreFormed'
  <2>1. \A u \in Turn : InTools(u)' => u = t /\ s.step \in {"tools", "remembering"}
    BY <1>1, <1>2 DEF InTools, Running
  <2>2. InTools(t)' <=> s.step \in {"tools", "remembering"}
    BY <1>1 DEF InTools
  <2>3. WellFormed(rows)' <=> WellFormed(rows')
    BY DEF WellFormed
  <2>4. EndsWith(rows, UsesOf(t, turn[t]))' <=> EndsWith(rows', UsesOf(t, s))
    BY <1>1 DEF EndsWith, UsesOf
  <2>5. CASE s.step \in {"tools", "remembering"}
    BY <2>1, <2>2, <2>4, <2>5 DEF RowsAreFormed, RowsFit
  <2>6. CASE s.step \notin {"tools", "remembering"}
    BY <2>1, <2>2, <2>3, <2>6 DEF RowsAreFormed, RowsFit
  <2> QED
    BY <2>5, <2>6
<1> QED
  BY <1>2, <1>3, <1>4 DEF AloneInv

(* The end of an iteration.                                                *)
LEMMA NextRoundAlone ==
  ASSUME TurnInv, AloneInv, ~overlap, UNCHANGED overlap, NEW t \in Turn, Running(t),
         NEW z \in TurnState, NextRound(t, z) \/ End(t, z, "done") \/ End(t, z, "error"),
         z.messages = rows', z.contact = contact', faults' = 0 => WellFormed(rows')
  PROVE  AloneInv'
<1>1. \A u \in Turn : u # t => ~Running(u)
  BY WhoRunsFits
<1>2. CASE turn' = [turn EXCEPT ![t] = [z EXCEPT !.round = @ + 1, !.step = "calling"]]
  <2>1. PICK s : s = [z EXCEPT !.round = @ + 1, !.step = "calling"]
    OBVIOUS
  <2>2. s.step = "calling" /\ s.messages = rows' /\ s.contact = contact'
    BY <2>1 DEF TurnState
  <2>3. ReadIsTrue(s)' /\ (faults' = 0 => RowsFit(t, s, rows'))
    BY <2>2 DEF ReadIsTrue, RowsFit
  <2> QED
    BY <1>1, <1>2, <2>1, <2>3, StepAlone
<1>3. CASE turn' = [turn EXCEPT ![t] = Over(z)]
  <2>1. PICK s : s = Over(z)
    OBVIOUS
  <2>2. s.step = "over"
    BY <2>1 DEF Over, NewTurn
  <2> QED
    BY <1>1, <1>3, <2>1, <2>2, StepAlone DEF RowsFit
<1> QED
  BY <1>2, <1>3 DEF NextRound, End

(* What is stored stays what the model takes.                              *)
LEMMA PlainIsFormed ==
  ASSUME NEW S, NEW rs \in Seq(S), NEW m \in S, WellFormed(rs), m.uses = {}, m.answers = {}
  PROVE  WellFormed(Append(rs, m))
<1>1. PICK rt : rt = Append(rs, m)
  OBVIOUS
<1>2. /\ Len(rs) \in Nat /\ Len(rt) = Len(rs) + 1 /\ rt[Len(rs) + 1] = m
      /\ \A i \in 1 .. Len(rs) : rt[i] = rs[i]
  BY <1>1, AppendIs
<1>3. ASSUME NEW i \in 1 .. Len(rt)
      PROVE  /\ rt[i].uses # {} => i < Len(rt) /\ rt[i + 1].answers = rt[i].uses
             /\ rt[i].answers # {} => i > 1 /\ rt[i - 1].uses = rt[i].answers
  BY <1>2, <1>3 DEF WellFormed
<1> QED
  BY <1>1, <1>3 DEF WellFormed

(* ... a reply may end it with open calls,                                 *)
LEMMA ReplyEnds ==
  ASSUME NEW S, NEW rs \in Seq(S), NEW m \in S, WellFormed(rs), m.answers = {}
  PROVE  EndsWith(Append(rs, m), m.uses)
<1>1. PICK rt : rt = Append(rs, m)
  OBVIOUS
<1>2. /\ Len(rs) \in Nat /\ Len(rt) = Len(rs) + 1 /\ rt[Len(rs) + 1] = m
      /\ \A i \in 1 .. Len(rs) : rt[i] = rs[i]
  BY <1>1, AppendIs
<1>3. ASSUME NEW i \in 1 .. Len(rt) - 1
      PROVE  /\ rt[i].uses # {} => rt[i + 1].answers = rt[i].uses
             /\ rt[i].answers # {} => i > 1 /\ rt[i - 1].uses = rt[i].answers
  BY <1>2, <1>3 DEF WellFormed
<1> QED
  BY <1>1, <1>2, <1>3 DEF EndsWith

(* ... and their results complete it.                                      *)
LEMMA ResultsAreFormed ==
  ASSUME NEW S, NEW rs \in Seq(S), NEW m \in S, NEW us, EndsWith(rs, us),
         m.uses = {}, m.answers = us
  PROVE  WellFormed(Append(rs, m))
<1>1. PICK rt : rt = Append(rs, m)
  OBVIOUS
<1>2. /\ Len(rs) \in Nat /\ Len(rt) = Len(rs) + 1 /\ rt[Len(rs) + 1] = m
      /\ \A i \in 1 .. Len(rs) : rt[i] = rs[i]
  BY <1>1, AppendIs
<1>3. ASSUME NEW i \in 1 .. Len(rt)
      PROVE  /\ rt[i].uses # {} => i < Len(rt) /\ rt[i + 1].answers = rt[i].uses
             /\ rt[i].answers # {} => i > 1 /\ rt[i - 1].uses = rt[i].answers
  <2>1. CASE i \in 1 .. Len(rs) - 1
    BY <1>2, <1>3, <2>1 DEF EndsWith
  <2>2. CASE i = Len(rs)
    BY <1>2, <2>2 DEF EndsWith
  <2>3. CASE i = Len(rs) + 1
    BY <1>2, <2>3 DEF EndsWith
  <2> QED
    BY <1>2, <2>1, <2>2, <2>3
<1> QED
  BY <1>1, <1>3 DEF WellFormed

(* From the request to the loaded history.                                 *)
LEMMA EnterAlone ==
  ASSUME TurnInv, AloneInv, ~overlap, NEW t \in Turn,
         Post(t) \/ GetConversation(t) \/ LoadHistory(t)
  PROVE  AloneInv'
<1>1. /\ UNCHANGED <<rows, contact, faults, overlap>> /\ turn[t] \in TurnState
      /\ turn[t].step \notin {"tools", "remembering"}
      /\ \A u \in Turn : u # t => ~Running(u)
  <2>1. CASE Post(t)
    BY <2>1, TurnIsTyped DEF Post
  <2>2. CASE GetConversation(t) \/ LoadHistory(t)
    <3>1. Running(t) /\ turn[t].step \notin {"tools", "remembering"}
      BY <2>2 DEF GetConversation, LoadHistory, Running
    <3> QED
      BY <2>2, <3>1, TurnIsTyped, WhoRunsFits DEF GetConversation, LoadHistory
  <2> QED
    BY <2>1, <2>2
<1>2. faults = 0 => WellFormed(rows)
  <2>1. \A u \in Turn : ~InTools(u)
    BY <1>1 DEF InTools, Running
  <2> QED
    BY <2>1 DEF AloneInv, RowsAreFormed
<1>3. \E s : /\ turn' = [turn EXCEPT ![t] = s]
             /\ s.step \in {"entering", "loading", "greeting"}
             /\ s.step = "greeting" => s.messages = Append(rows, UserText)
             /\ s.step \in {"loading", "greeting"} => s.contact = contact
  <2>1. CASE Post(t)
    <3>1. PICK s : s = [turn[t] EXCEPT !.step = "entering"]
      OBVIOUS
    <3>2. turn' = [turn EXCEPT ![t] = s] /\ s.step = "entering"
      BY <1>1, <2>1, <3>1 DEF Post, TurnState
    <3> QED
      BY <3>2
  <2>2. CASE GetConversation(t)
    <3>1. PICK s : s = [turn[t] EXCEPT !.step = "loading", !.contact = contact]
      OBVIOUS
    <3>2. turn' = [turn EXCEPT ![t] = s] /\ s.step = "loading" /\ s.contact = contact
      BY <1>1, <2>2, <3>1 DEF GetConversation, TurnState
    <3> QED
      BY <3>2
  <2>3. CASE LoadHistory(t)
    <3>1. PICK s : s = [turn[t] EXCEPT !.step = "greeting", !.messages = Append(rows, UserText)]
      OBVIOUS
    <3>2. /\ turn' = [turn EXCEPT ![t] = s] /\ s.step = "greeting"
          /\ s.messages = Append(rows, UserText) /\ s.contact = turn[t].contact
      BY <1>1, <2>3, <3>1 DEF LoadHistory, TurnState
    <3>3. turn[t].contact = contact
      BY <2>3 DEF LoadHistory, AloneInv, ReadIsTrue
    <3> QED
      BY <3>2, <3>3
  <2> QED
    BY <2>1, <2>2, <2>3
<1>4. PICK s : /\ turn' = [turn EXCEPT ![t] = s]
               /\ s.step \in {"entering", "loading", "greeting"}
               /\ s.step = "greeting" => s.messages = Append(rows, UserText)
               /\ s.step \in {"loading", "greeting"} => s.contact = contact
  BY <1>3
<1>5. ReadIsTrue(s)'
  BY <1>1, <1>4 DEF ReadIsTrue, UserText
<1>6. faults' = 0 => RowsFit(t, s, rows')
  BY <1>1, <1>2, <1>4 DEF RowsFit
<1> QED
  BY <1>1, <1>4, <1>5, <1>6, StepAlone

(* Storing the customer's message.                                         *)
LEMMA PersistTextAlone ==
  ASSUME TurnInv, AloneInv, ~overlap, NEW t \in Turn, PersistText(t)
  PROVE  AloneInv'
<1>1. /\ turn[t] \in TurnState /\ rows \in Seq(Message)
      /\ UserText \in Message /\ UserText.uses = {} /\ UserText.answers = {}
  BY DEF TurnInv, TypeOK, UserText, Message
<1>2. /\ turn[t].step = "greeting" /\ Running(t) /\ rows' = Append(rows, UserText)
      /\ UNCHANGED <<contact, faults, overlap>>
      /\ \A u \in Turn : u # t => ~Running(u)
  BY WhoRunsFits DEF PersistText, Running
<1>3. PICK s : s = [turn[t] EXCEPT !.step = "calling"]
  OBVIOUS
<1>4. /\ turn' = [turn EXCEPT ![t] = s] /\ s.step = "calling"
      /\ s.messages = turn[t].messages /\ s.contact = turn[t].contact
  BY <1>1, <1>3 DEF PersistText, TurnState
<1>5. turn[t].messages = rows' /\ turn[t].contact = contact
  BY <1>2, WhoRunsFits DEF ReadIsTrue
<1>6. faults = 0 => WellFormed(rows')
  BY <1>1, <1>2, WhoRunsFits, PlainIsFormed DEF RowsFit
<1>7. ReadIsTrue(s)' /\ (faults' = 0 => RowsFit(t, s, rows'))
  BY <1>2, <1>4, <1>5, <1>6 DEF ReadIsTrue, RowsFit
<1> QED
  BY <1>2, <1>4, <1>7, StepAlone

(* The model replies, refuses or fails.                                    *)
LEMMA ModelAlone ==
  ASSUME TurnInv, AloneInv, ~overlap, NEW t \in Turn,
         ModelReplies(t) \/ ModelRefuses(t) \/ ModelFails(t)
  PROVE  AloneInv'
<1>1. turn[t].step = "calling" /\ UNCHANGED <<rows, contact, faults, overlap>>
  BY DEF ModelReplies, ModelRefuses, ModelFails
<1>2. /\ turn[t] \in TurnState /\ Running(t) /\ turn[t].messages = rows
      /\ turn[t].contact = contact /\ (faults = 0 => WellFormed(rows))
      /\ \A u \in Turn : u # t => ~Running(u)
  <2>1. Running(t)
    BY <1>1 DEF Running
  <2> QED
    BY <1>1, <2>1, TurnIsTyped, WhoRunsFits DEF ReadIsTrue, RowsFit
<1>3. CASE ModelReplies(t)
  <2>1. PICK reply \in {"text", "tools", "pause"} :
          \E n \in IF reply = "tools" THEN 1 .. MaxTools ELSE {0} :
            turn' = [turn EXCEPT ![t].step = "storing", ![t].reply = reply,
                                 ![t].uses = n, ![t].ran = 0]
    BY <1>3 DEF ModelReplies
  <2>2. PICK n \in IF reply = "tools" THEN 1 .. MaxTools ELSE {0} :
          turn' = [turn EXCEPT ![t].step = "storing", ![t].reply = reply,
                               ![t].uses = n, ![t].ran = 0]
    BY <2>1
  <2>3. PICK s : s = [turn[t] EXCEPT !.step = "storing", !.reply = reply, !.uses = n, !.ran = 0]
    OBVIOUS
  <2>4. turn' = [turn EXCEPT ![t] = s]
    BY <2>2, <2>3
  <2>5. s.step = "storing" /\ s.messages = rows /\ s.contact = contact
    BY <1>2, <2>3 DEF TurnState
  <2>6. ReadIsTrue(s)' /\ (faults' = 0 => RowsFit(t, s, rows'))
    BY <1>1, <1>2, <2>5 DEF ReadIsTrue, RowsFit
  <2> QED
    BY <1>1, <1>2, <2>4, <2>6, StepAlone
<1>4. CASE ModelRefuses(t)
  <2>1. PICK s : s = [turn[t] EXCEPT !.reply = "refusal", !.retried = TRUE, !.uses = 0]
    OBVIOUS
  <2>2. NextRound(t, s) \/ End(t, s, "error")
    BY <1>4, <2>1 DEF ModelRefuses
  <2>3. 0 \in 0 .. MaxTools
    BY BoundsAreNumbers DEF TurnInv
  <2>4. s \in TurnState /\ s.messages = rows' /\ s.contact = contact'
    BY <1>1, <1>2, <2>1, <2>3 DEF TurnState, Replies
  <2>5. faults' = 0 => WellFormed(rows')
    BY <1>1, <1>2
  <2> QED
    BY <1>1, <1>2, <2>2, <2>4, <2>5, NextRoundAlone
<1>5. CASE ModelFails(t)
  <2>1. PICK s : s = turn[t]
    OBVIOUS
  <2>2. End(t, s, "error") /\ s \in TurnState /\ s.messages = rows' /\ s.contact = contact'
    BY <1>1, <1>2, <1>5, <2>1 DEF ModelFails
  <2>3. faults' = 0 => WellFormed(rows')
    BY <1>1, <1>2
  <2> QED
    BY <1>1, <1>2, <2>2, <2>3, NextRoundAlone
<1> QED
  BY <1>3, <1>4, <1>5

(* Storing a reply.                                                        *)
LEMMA PersistReplyAlone ==
  ASSUME TurnInv, AloneInv, ~overlap, NEW t \in Turn, PersistReply(t)
  PROVE  AloneInv'
<1>1. PICK m, z : m = Reply(t) /\ z = [turn[t] EXCEPT !.messages = Append(@, Reply(t))]
  OBVIOUS
<1>2. /\ turn[t].step = "storing" /\ rows' = Append(rows, m)
      /\ UNCHANGED <<contact, faults, overlap>>
  BY <1>1 DEF PersistReply
<1>3. /\ turn[t] \in TurnState /\ Running(t) /\ turn[t].messages = rows
      /\ turn[t].contact = contact /\ (faults = 0 => WellFormed(rows)) /\ rows \in Seq(Message)
      /\ \A u \in Turn : u # t => ~Running(u)
  <2>1. Running(t)
    BY <1>2 DEF Running
  <2> QED
    BY <1>2, <2>1, TurnIsTyped, WhoRunsFits DEF ReadIsTrue, RowsFit, TurnInv, TypeOK
<1>4. /\ m \in Message /\ m.answers = {} /\ m.uses = Uses(t)
      /\ turn[t].reply # "tools" => m.uses = {}
  BY <1>1, <1>2, TurnIsTyped, UsesAreTyped DEF Reply, Message, TurnIsTrue
<1>5. /\ z \in TurnState /\ z.messages = rows' /\ z.contact = contact'
      /\ z.round = turn[t].round /\ z.uses = turn[t].uses
  <2>1. Append(turn[t].messages, m) \in Seq(Message) /\ rows' = Append(turn[t].messages, m)
    BY <1>2, <1>3, <1>4, AppendIs
  <2> QED
    BY <1>1, <1>2, <1>3, <2>1 DEF TurnState
<1>6. CASE turn[t].reply \in {"pause", "text"} /\ (NextRound(t, z) \/ End(t, z, "done"))
  <2>1. faults' = 0 => WellFormed(rows')
    BY <1>2, <1>3, <1>4, <1>6, PlainIsFormed
  <2> QED
    BY <1>2, <1>3, <1>5, <1>6, <2>1, NextRoundAlone
<1>7. CASE turn[t].reply = "tools" /\ turn' = [turn EXCEPT ![t] = [z EXCEPT !.step = "tools"]]
  <2>1. PICK s : s = [z EXCEPT !.step = "tools"]
    OBVIOUS
  <2>2. /\ turn' = [turn EXCEPT ![t] = s] /\ s.step = "tools" /\ s.messages = rows'
        /\ s.contact = contact' /\ s.round = turn[t].round /\ s.uses = turn[t].uses
    BY <1>5, <1>7, <2>1 DEF TurnState
  <2>3. UsesOf(t, s) = m.uses
    BY <1>4, <2>2, UsesAreTyped DEF UsesOf
  <2>4. faults = 0 => EndsWith(rows', m.uses)
    BY <1>2, <1>3, <1>4, ReplyEnds
  <2>5. ReadIsTrue(s)' /\ (faults' = 0 => RowsFit(t, s, rows'))
    BY <1>2, <2>2, <2>3, <2>4 DEF ReadIsTrue, RowsFit
  <2> QED
    BY <1>2, <1>3, <2>2, <2>5, StepAlone
<1> QED
  BY <1>1, <1>6, <1>7 DEF PersistReply

(* Tools run and details are remembered.                                   *)
LEMMA ToolAlone ==
  ASSUME TurnInv, AloneInv, ~overlap, NEW t \in Turn, RunTool(t) \/ RememberCustomer(t)
  PROVE  AloneInv'
<1>1. turn[t].step \in {"tools", "remembering"} /\ UNCHANGED <<rows, out, faults, overlap>>
  BY DEF RunTool, RememberCustomer
<1>2. /\ turn[t] \in TurnState /\ Running(t) /\ turn[t].messages = rows
      /\ (turn[t].step = "tools" => turn[t].contact = contact)
      /\ (turn[t].step = "remembering" => contact = Nobody)
      /\ (faults = 0 => EndsWith(rows, UsesOf(t, turn[t])))
      /\ \A u \in Turn : u # t => ~Running(u)
  <2>1. Running(t)
    BY <1>1 DEF Running
  <2> QED
    BY <1>1, <2>1, TurnIsTyped, WhoRunsFits DEF ReadIsTrue, RowsFit
<1>3. \E s : /\ turn' = [turn EXCEPT ![t] = s] /\ s.step \in {"tools", "remembering"}
             /\ s.messages = rows /\ s.round = turn[t].round /\ s.uses = turn[t].uses
             /\ s.step = "tools" => s.contact = contact'
             /\ s.step = "remembering" => contact' = Nobody
  <2>1. CASE RememberCustomer(t)
    <3>1. PICK s : s = [turn[t] EXCEPT !.step = "tools"]
      OBVIOUS
    <3>2. turn' = [turn EXCEPT ![t] = s]
      BY <2>1, <3>1 DEF RememberCustomer
    <3>3. /\ s.step = "tools" /\ s.messages = rows /\ s.round = turn[t].round
          /\ s.uses = turn[t].uses /\ s.contact = contact'
      BY <1>2, <2>1, <3>1 DEF TurnState, RememberCustomer
    <3> QED
      BY <3>2, <3>3
  <2>2. CASE RunTool(t) /\ turn' = [turn EXCEPT ![t].ran = @ + 1]
    <3>1. PICK s : s = [turn[t] EXCEPT !.ran = @ + 1]
      OBVIOUS
    <3>2. turn' = [turn EXCEPT ![t] = s]
      BY <2>2, <3>1
    <3>3. /\ s.step = "tools" /\ s.messages = rows /\ s.round = turn[t].round
          /\ s.uses = turn[t].uses /\ s.contact = contact'
      BY <1>2, <2>2, <3>1 DEF TurnState, RunTool
    <3> QED
      BY <3>2, <3>3
  <2>3. CASE /\ RunTool(t) /\ turn[t].contact = Nobody
             /\ \E n \in Name : turn' = [turn EXCEPT ![t].ran = @ + 1, ![t].contact = n,
                                                     ![t].step = "remembering"]
    <3>0. PICK n \in Name : turn' = [turn EXCEPT ![t].ran = @ + 1, ![t].contact = n,
                                                 ![t].step = "remembering"]
      BY <2>3
    <3>1. PICK s : s = [turn[t] EXCEPT !.ran = @ + 1, !.contact = n, !.step = "remembering"]
      OBVIOUS
    <3>2. turn' = [turn EXCEPT ![t] = s]
      BY <3>0, <3>1
    <3>3. /\ s.step = "remembering" /\ s.messages = rows /\ s.round = turn[t].round
          /\ s.uses = turn[t].uses /\ contact' = Nobody
      BY <1>2, <2>3, <3>1 DEF TurnState, RunTool
    <3> QED
      BY <3>2, <3>3
  <2> QED
    BY <2>1, <2>2, <2>3 DEF RunTool
<1>4. PICK s : /\ turn' = [turn EXCEPT ![t] = s] /\ s.step \in {"tools", "remembering"}
               /\ s.messages = rows /\ s.round = turn[t].round /\ s.uses = turn[t].uses
               /\ s.step = "tools" => s.contact = contact'
               /\ s.step = "remembering" => contact' = Nobody
  BY <1>3
<1>5. UsesOf(t, s) = UsesOf(t, turn[t])
  BY <1>4 DEF UsesOf
<1>6. ReadIsTrue(s)' /\ (faults' = 0 => RowsFit(t, s, rows'))
  BY <1>1, <1>2, <1>4, <1>5 DEF ReadIsTrue, RowsFit
<1> QED
  BY <1>1, <1>2, <1>4, <1>6, StepAlone

(* Storing results.                                                        *)
LEMMA PersistResultsAlone ==
  ASSUME TurnInv, AloneInv, ~overlap, NEW t \in Turn, PersistResults(t)
  PROVE  AloneInv'
<1>1. PICK m, z : m = Results(t) /\ z = [turn[t] EXCEPT !.messages = Append(@, Results(t))]
  OBVIOUS
<1>2. /\ turn[t].step = "tools" /\ rows' = Append(rows, m) /\ NextRound(t, z)
      /\ UNCHANGED <<contact, faults, overlap>>
  BY <1>1 DEF PersistResults
<1>3. /\ turn[t] \in TurnState /\ Running(t) /\ turn[t].messages = rows
      /\ turn[t].contact = contact /\ rows \in Seq(Message)
      /\ (faults = 0 => EndsWith(rows, UsesOf(t, turn[t])))
  <2>1. Running(t)
    BY <1>2 DEF Running
  <2> QED
    BY <1>2, <2>1, TurnIsTyped, WhoRunsFits DEF ReadIsTrue, RowsFit, TurnInv, TypeOK
<1>4. m \in Message /\ m.uses = {} /\ m.answers = UsesOf(t, turn[t])
  BY <1>1, UsesAreTyped DEF Results, Message
<1>5. z \in TurnState /\ z.messages = rows' /\ z.contact = contact'
  <2>1. Append(turn[t].messages, m) \in Seq(Message) /\ rows' = Append(turn[t].messages, m)
    BY <1>2, <1>3, <1>4, AppendIs
  <2> QED
    BY <1>1, <1>2, <1>3, <2>1 DEF TurnState
<1>6. faults' = 0 => WellFormed(rows')
  BY <1>2, <1>3, <1>4, ResultsAreFormed
<1> QED
  BY <1>2, <1>3, <1>5, <1>6, NextRoundAlone

(* A fault leaves no turn running.                                         *)
LEMMA FaultAlone ==
  ASSUME TurnInv, AloneInv, ~overlap, Crash \/ \E t \in Turn : QueryFails(t)
  PROVE  AloneInv'
<1>1. faults' # 0 /\ UNCHANGED overlap
  BY DEF TurnInv, TypeOK, Crash, QueryFails
<1>2. \A u \in Turn : turn'[u].step \in {"new", "over"}
  <2>1. CASE Crash
    BY <2>1 DEF Crash, Running, Over, NewTurn
  <2>2. ASSUME NEW t \in Turn, QueryFails(t) PROVE \A u \in Turn : turn'[u].step \in {"new", "over"}
    <3>1. Running(t) /\ turn' = [turn EXCEPT ![t] = Over(turn[t])]
      BY <2>2 DEF QueryFails, End, Running
    <3>2. \A u \in Turn : u # t => ~Running(u)
      BY <3>1, WhoRunsFits
    <3> QED
      BY <3>1, <3>2 DEF Running, Over, NewTurn, TurnInv, TypeOK
  <2> QED
    BY <2>1, <2>2
<1>3. \A u \in Turn : ~Running(u)' /\ ReadIsTrue(turn[u])'
  BY <1>2 DEF Running, ReadIsTrue
<1> QED
  BY <1>1, <1>3 DEF AloneInv

(* AloneInv is inductive, given TurnInv.                                   *)
LEMMA AloneStep ==
  ASSUME TurnInv, AloneInv, [Next]_vars
  PROVE  AloneInv'
<1>1. overlap' = overlap
  BY DEF Next, vars, Post, Advance, GetConversation, LoadHistory, PersistText, ModelReplies,
     ModelRefuses, PersistReply, RunTool, RememberCustomer, PersistResults, ModelFails,
     QueryFails, Crash
<1>2. CASE overlap
  BY <1>1, <1>2 DEF AloneInv
<1>3. CASE ~overlap /\ UNCHANGED vars
  BY <1>3 DEF vars, AloneInv, Running, ReadIsTrue, RowsAreFormed, InTools, EndsWith, UsesOf,
     WellFormed, UserText
<1>4. CASE ~overlap /\ (Crash \/ \E t \in Turn : QueryFails(t))
  BY <1>4, FaultAlone
<1>5. ASSUME NEW t \in Turn, ~overlap, Post(t) \/ Advance(t), ~QueryFails(t)
      PROVE  AloneInv'
  BY <1>5, EnterAlone, PersistTextAlone, ModelAlone, PersistReplyAlone, ToolAlone,
     PersistResultsAlone DEF Advance
<1> QED
  BY <1>2, <1>3, <1>4, <1>5 DEF Next

(* It is true of the empty conversation.                                   *)
LEMMA InitIsAlone == Init => AloneInv
<1> SUFFICES ASSUME Init PROVE AloneInv
  OBVIOUS
<1>1. \A t \in Turn : turn[t].step = "new"
  BY DEF Init, NewTurn
<1>2. WellFormed(rows)
  <2>1. Len(<<>>) = 0 /\ rows = <<>>
    BY DEF Init
  <2> QED
    BY <2>1 DEF WellFormed
<1> QED
  BY <1>1, <1>2 DEF AloneInv, Running, ReadIsTrue, RowsAreFormed, InTools

(* Where turns do not overlap, the one that runs has read what is stored,  *)
(* and without faults what is stored is a history the model takes, but for *)
(* the calls it is just running.                                           *)
THEOREM AloneSafety == Spec => [](TurnInv /\ AloneInv)
<1>1. Init => TurnInv /\ AloneInv
  BY InitIsTrue, InitIsAlone
<1>2. TurnInv /\ AloneInv /\ [Next]_vars => (TurnInv /\ AloneInv)'
  BY TurnStep, AloneStep
<1> QED
  BY <1>1, <1>2, PTL DEF Spec

(* What a turn sends to the model is what is stored, and the model takes   *)
(* it.                                                                     *)
THEOREM HistoriesReplay == Spec => []HistoryIsReplayable
<1>1. TurnInv /\ AloneInv => HistoryIsReplayable
  <2> SUFFICES ASSUME TurnInv, AloneInv, ~overlap, NEW t \in Turn, turn[t].step = "calling"
               PROVE  turn[t].messages = rows /\ (faults = 0 => WellFormed(turn[t].messages))
    BY DEF HistoryIsReplayable
  <2>1. Running(t)
    BY DEF Running
  <2> QED
    BY <2>1, WhoRunsFits DEF ReadIsTrue, RowsFit
<1> QED
  BY <1>1, AloneSafety, PTL

(* Contact details, once stored, stay as they were first given.            *)
THEOREM ContactStays == Spec => ContactIsKept
<1>1. TurnInv /\ AloneInv /\ [Next]_vars
        => [~overlap /\ contact # Nobody => contact' = contact]_vars
  <2> SUFFICES ASSUME TurnInv, AloneInv, Next, ~overlap, contact # Nobody
               PROVE  contact' = contact
    BY DEF vars
  <2>1. ASSUME NEW t \in Turn PROVE ~RememberCustomer(t)
    BY DEF AloneInv, ReadIsTrue, RememberCustomer
  <2> QED
    BY <2>1 DEF Next, Post, Advance, GetConversation, LoadHistory, PersistText, ModelReplies,
       ModelRefuses, PersistReply, RunTool, PersistResults, ModelFails, QueryFails, Crash
<1> QED
  BY <1>1, AloneSafety, PTL DEF Spec, ContactIsKept

-----------------------------------------------------------------------------
(* How many steps turn state s may still take: one to store each reply,    *)
(* one for the model, one for the results, two for each tool, and so many  *)
(* in each iteration that may follow.                                      *)
RoundsAfter(s) == (MaxRounds - 1 - s.round) * (2 * MaxTools + 3)

StepsLeft(s) ==
  CASE s.step = "new"         -> RoundsAfter(s) + 2 * MaxTools + 7
    [] s.step = "entering"    -> RoundsAfter(s) + 2 * MaxTools + 6
    [] s.step = "loading"     -> RoundsAfter(s) + 2 * MaxTools + 5
    [] s.step = "greeting"    -> RoundsAfter(s) + 2 * MaxTools + 4
    [] s.step = "calling"     -> RoundsAfter(s) + 2 * MaxTools + 3
    [] s.step = "storing"     -> RoundsAfter(s) + 2 * MaxTools + 2
    [] s.step = "tools"       -> RoundsAfter(s) + 2 * (s.uses - s.ran) + 1
    [] s.step = "remembering" -> RoundsAfter(s) + 2 * (s.uses - s.ran) + 2
    [] OTHER                  -> 0

(* No more tools have run than the reply calls.                            *)
ToolsAreCounted(s) ==
  s.step \in {"storing", "tools", "remembering"} => s.ran <= s.uses

StepsAreLeft ==
  \A t \in Turn :
    /\ ToolsAreCounted(turn[t])
    /\ StepsLeft(turn[t]) \in 0 .. MaxRounds * (2 * MaxTools + 3) + 4
    /\ StepsLeft(turn[t]) = 0 <=> turn[t].step = "over"

TurnsRunDown ==
  [][\A t \in Turn : turn'[t] # turn[t] => StepsLeft(turn[t])' < StepsLeft(turn[t])]_vars

(* An iteration less to come is 2 * MaxTools + 3 steps less.               *)
LEMMA RoundsAreCounted ==
  ASSUME TurnInv, NEW s \in TurnState, s.round < MaxRounds
  PROVE  /\ RoundsAfter(s) \in Nat /\ MaxTools \in Nat
         /\ RoundsAfter(s) + 2 * MaxTools + 3 <= MaxRounds * (2 * MaxTools + 3)
         /\ \A z \in TurnState : z.round = s.round => RoundsAfter(z) = RoundsAfter(s)
         /\ \A z \in TurnState : z.round = s.round + 1 /\ z.round < MaxRounds =>
              RoundsAfter(z) + 2 * MaxTools + 3 = RoundsAfter(s)
<1>1. /\ MaxTools \in Nat /\ MaxRounds \in Nat
      /\ \A z \in TurnState : z.round \in Nat /\ z.round <= MaxRounds
  BY BoundsAreNumbers DEF TurnInv, TurnState
<1>2. \A a, b \in Nat : a * b \in Nat /\ (a + 1) * b = a * b + b
  OBVIOUS
<1>3. \A a, b, c \in Nat : a <= c => a * b <= c * b
  <2> SUFFICES ASSUME NEW a \in Nat, NEW b \in Nat, NEW c \in Nat, a <= c
               PROVE  a * b <= c * b
    OBVIOUS
  <2>1. PICK k \in Nat : c = a + k
    BY c - a \in Nat
  <2>2. c * b = a * b + k * b /\ k * b \in Nat /\ a * b \in Nat
    BY <2>1
  <2> QED
    BY <2>2
<1>4. PICK n \in Nat : n = 2 * MaxTools + 3
  BY <1>1
<1>5. /\ MaxRounds - 1 - s.round \in Nat
      /\ MaxRounds - s.round = (MaxRounds - 1 - s.round) + 1
  BY <1>1
<1>6. /\ RoundsAfter(s) = (MaxRounds - 1 - s.round) * n
      /\ \A z \in TurnState : RoundsAfter(z) = (MaxRounds - 1 - z.round) * n
  BY <1>4 DEF RoundsAfter
<1>7. RoundsAfter(s) + n <= MaxRounds * n
  <2>1. (MaxRounds - s.round) * n = RoundsAfter(s) + n
    BY <1>2, <1>4, <1>5, <1>6
  <2>2. (MaxRounds - s.round) \in Nat /\ MaxRounds - s.round <= MaxRounds
    BY <1>1
  <2> QED
    BY <1>1, <1>3, <1>4, <2>1, <2>2
<1>8. ASSUME NEW z \in TurnState, z.round = s.round + 1, z.round < MaxRounds
      PROVE  RoundsAfter(z) + n = RoundsAfter(s)
  <2>1. /\ MaxRounds - 1 - z.round \in Nat
        /\ MaxRounds - 1 - s.round = (MaxRounds - 1 - z.round) + 1
    BY <1>1, <1>8
  <2> QED
    BY <1>2, <1>4, <1>6, <2>1
<1>9. RoundsAfter(s) \in Nat
  BY <1>2, <1>4, <1>5, <1>6
<1> QED
  BY <1>1, <1>4, <1>6, <1>7, <1>8, <1>9

(* Counted and bounded, and none left only at the end.                     *)
Runs(s) ==
  /\ ToolsAreCounted(s)
  /\ StepsLeft(s) \in 0 .. MaxRounds * (2 * MaxTools + 3) + 4
  /\ StepsLeft(s) = 0 <=> s.step = "over"

(* A counted turn is bounded.                                              *)
LEMMA CountedRuns ==
  ASSUME TurnInv, NEW s \in TurnState, s.round < MaxRounds, ToolsAreCounted(s)
  PROVE  Runs(s)
<1>1. PICK all \in Nat : all = MaxRounds * (2 * MaxTools + 3)
  <2>1. MaxRounds \in Nat /\ 2 * MaxTools + 3 \in Nat
    BY BoundsAreNumbers DEF TurnInv
  <2>2. \A a, b \in Nat : a * b \in Nat
    OBVIOUS
  <2> QED
    BY <2>1, <2>2
<1>2. PICK later \in Nat : later = RoundsAfter(s)
  BY RoundsAreCounted
<1>3. later + 2 * MaxTools + 3 <= all /\ MaxTools \in Nat
  BY RoundsAreCounted, <1>1, <1>2
<1>4. /\ s.step \in Steps /\ s.uses \in 0 .. MaxTools /\ s.ran \in 0 .. MaxTools
      /\ s.step \in {"tools", "remembering"} => s.ran <= s.uses
  BY DEF TurnState, ToolsAreCounted
<1>5. StepsLeft(s) \in 0 .. all + 4 /\ (StepsLeft(s) = 0 <=> s.step = "over")
  BY <1>2, <1>3, <1>4 DEF StepsLeft, Steps
<1> QED
  BY <1>1, <1>5 DEF Runs

(* A turn that becomes s, one step nearer to its end.                      *)
Shortens(t, s) ==
  /\ s \in TurnState /\ ToolsAreCounted(s) /\ s.round < MaxRounds
  /\ StepsLeft(s) < StepsLeft(turn[t])

(* Going on in the same iteration.                                         *)
LEMMA SameRound ==
  ASSUME TurnInv, NEW t \in Turn, NEW s \in TurnState, s.round = turn[t].round
  PROVE  /\ RoundsAfter(s) \in Nat /\ RoundsAfter(turn[t]) = RoundsAfter(s)
         /\ MaxTools \in Nat /\ s.round < MaxRounds
         /\ s.uses \in 0 .. MaxTools /\ s.ran \in 0 .. MaxTools /\ s.step \in Steps
BY TurnIsTyped, RoundsAreCounted DEF TurnIsTrue, TurnState

(* The end of the turn is nearer than any other step.                      *)
LEMMA OverShortens ==
  ASSUME TurnInv, NEW t \in Turn, Runs(turn[t]), turn[t].step # "over", NEW s \in TurnState
  PROVE  Shortens(t, Over(s))
<1>1. /\ Over(s) \in TurnState /\ Over(s).step = "over" /\ Over(s).round < MaxRounds
  BY OverIsTrue DEF TurnInv, TurnIsTrue
<1>2. StepsLeft(Over(s)) = 0 /\ ToolsAreCounted(Over(s))
  BY <1>1 DEF StepsLeft, ToolsAreCounted
<1>3. PICK left \in Nat : left = StepsLeft(turn[t])
  BY DEF Runs
<1>4. left # 0
  BY <1>3 DEF Runs
<1> QED
  BY <1>1, <1>2, <1>3, <1>4 DEF Shortens

(* So is the next iteration.                                               *)
LEMMA NextRoundShortens ==
  ASSUME TurnInv, NEW t \in Turn, Runs(turn[t]), NEW s \in TurnState, NextRound(t, s),
         s.round = turn[t].round, turn[t].step \in {"calling", "storing", "tools"}
  PROVE  \E z : turn' = [turn EXCEPT ![t] = z] /\ Shortens(t, z)
<1>1. CASE s.round + 1 < MaxRounds
  <2>1. PICK z : z = [s EXCEPT !.round = @ + 1, !.step = "calling"]
    OBVIOUS
  <2>2. turn' = [turn EXCEPT ![t] = z] /\ z.round = s.round + 1 /\ z.step = "calling"
    BY <1>1, <2>1 DEF NextRound, TurnState
  <2>3. RoundsAfter(z) + 2 * MaxTools + 3 = RoundsAfter(turn[t]) /\ z \in TurnState
    <3>1. s.round + 1 \in 0 .. MaxRounds
      BY <1>1, BoundsAreNumbers DEF TurnInv, TurnState
    <3>2. z \in TurnState
      BY <2>1, <3>1 DEF TurnState, Steps
    <3>3. s.round < MaxRounds /\ RoundsAfter(turn[t]) = RoundsAfter(s)
      BY SameRound
    <3> QED
      BY <1>1, <2>2, <3>2, <3>3, RoundsAreCounted
  <2>4. StepsLeft(z) = RoundsAfter(z) + 2 * MaxTools + 3
    BY <2>2 DEF StepsLeft
  <2>5. RoundsAfter(turn[t]) \in Nat /\ StepsLeft(turn[t]) > RoundsAfter(turn[t])
    <3>1. turn[t] \in TurnState /\ ToolsAreCounted(turn[t])
      BY TurnIsTyped DEF Runs
    <3>2. /\ RoundsAfter(turn[t]) \in Nat /\ MaxTools \in Nat
          /\ turn[t].uses \in Nat /\ turn[t].ran \in Nat
      BY <3>1, SameRound
    <3>3. turn[t].step = "tools" => turn[t].ran <= turn[t].uses
      BY <3>1 DEF ToolsAreCounted
    <3> QED
      BY <3>2, <3>3 DEF StepsLeft
  <2>6. ToolsAreCounted(z) /\ z.round < MaxRounds
    BY <1>1, <2>2 DEF ToolsAreCounted
  <2>7. StepsLeft(z) < StepsLeft(turn[t])
    <3>1. PICK a \in Nat : a = RoundsAfter(turn[t])
      BY <2>5
    <3>2. StepsLeft(z) = a /\ StepsLeft(turn[t]) > a
      BY <2>3, <2>4, <2>5, <3>1
    <3>3. StepsLeft(turn[t]) \in Nat
      BY DEF Runs
    <3> QED
      BY <3>1, <3>2, <3>3
  <2> QED
    BY <2>2, <2>3, <2>6, <2>7 DEF Shortens
<1>2. CASE ~(s.round + 1 < MaxRounds)
  <2>1. turn' = [turn EXCEPT ![t] = Over(s)]
    BY <1>2 DEF NextRound, End
  <2> QED
    BY <2>1, OverShortens
<1> QED
  BY <1>1, <1>2

(* A step within an iteration.                                             *)
LEMMA PlainStepShortens ==
  ASSUME TurnInv, TurnInv', UNCHANGED overlap, NEW t \in Turn, Runs(turn[t]),
         \/ Post(t) \/ GetConversation(t) \/ LoadHistory(t) \/ PersistText(t)
         \/ ModelReplies(t) \/ RunTool(t) \/ RememberCustomer(t)
  PROVE  \E z : turn' = [turn EXCEPT ![t] = z] /\ Shortens(t, z)
<1>1. PICK z : z = turn'[t]
  OBVIOUS
<1>2. turn[t] \in TurnState /\ turn \in [Turn -> TurnState]
  BY DEF TurnInv, TypeOK
<1>3. turn' = [turn EXCEPT ![t] = z] /\ z.round = turn[t].round
  <2>1. CASE Post(t) \/ GetConversation(t) \/ LoadHistory(t) \/ PersistText(t)
             \/ RememberCustomer(t)
    BY <1>1, <1>2, <2>1 DEF TurnState, Post, GetConversation, LoadHistory, PersistText,
       RememberCustomer
  <2>2. CASE ModelReplies(t)
    <3>1. PICK reply, n :
            turn' = [turn EXCEPT ![t].step = "storing", ![t].reply = reply,
                                 ![t].uses = n, ![t].ran = 0]
      BY <2>2 DEF ModelReplies
    <3> QED
      BY <1>1, <1>2, <3>1 DEF TurnState
  <2>3. CASE RunTool(t)
    <3>1. CASE turn' = [turn EXCEPT ![t].ran = @ + 1]
      BY <1>1, <1>2, <3>1 DEF TurnState
    <3>2. CASE \E n \in Name : turn' = [turn EXCEPT ![t].ran = @ + 1, ![t].contact = n,
                                                   ![t].step = "remembering"]
      <4>1. PICK n : turn' = [turn EXCEPT ![t].ran = @ + 1, ![t].contact = n,
                                          ![t].step = "remembering"]
        BY <3>2
      <4> QED
        BY <1>1, <1>2, <4>1 DEF TurnState
    <3> QED
      BY <2>3, <3>1, <3>2 DEF RunTool
  <2> QED
    BY <2>1, <2>2, <2>3
<1>4. z \in TurnState
  <2>1. turn' \in [Turn -> TurnState']
    BY DEF TurnInv, TypeOK
  <2> QED
    BY <1>1, <2>1, OverlapIsFixed
<1>5. /\ RoundsAfter(z) \in Nat /\ RoundsAfter(turn[t]) = RoundsAfter(z)
      /\ MaxTools \in Nat /\ z.round < MaxRounds
      /\ z.uses \in 0 .. MaxTools /\ z.ran \in 0 .. MaxTools
  BY <1>3, <1>4, SameRound
<1>6. ToolsAreCounted(turn[t]) /\ turn[t].uses \in 0 .. MaxTools /\ turn[t].ran \in 0 .. MaxTools
  BY <1>2 DEF Runs, TurnState
<1>7. CASE Post(t) \/ GetConversation(t) \/ LoadHistory(t) \/ PersistText(t)
  <2>1. /\ z.step \notin {"storing", "tools", "remembering"}
        /\ \/ turn[t].step = "new" /\ z.step = "entering"
           \/ turn[t].step = "entering" /\ z.step = "loading"
           \/ turn[t].step = "loading" /\ z.step = "greeting"
           \/ turn[t].step = "greeting" /\ z.step = "calling"
    BY <1>1, <1>2, <1>7 DEF Post, GetConversation, LoadHistory, PersistText, TurnState
  <2>2. StepsLeft(z) < StepsLeft(turn[t])
    BY <1>5, <2>1 DEF StepsLeft
  <2> QED
    BY <1>3, <1>4, <1>5, <2>1, <2>2 DEF Shortens, ToolsAreCounted
<1>8. CASE ModelReplies(t)
  <2>1. turn[t].step = "calling" /\ z.step = "storing" /\ z.ran = 0
    <3>1. PICK reply, n :
            turn' = [turn EXCEPT ![t].step = "storing", ![t].reply = reply,
                                 ![t].uses = n, ![t].ran = 0]
      BY <1>8 DEF ModelReplies
    <3> QED
      BY <1>1, <1>2, <1>8, <3>1 DEF ModelReplies, TurnState
  <2>2. StepsLeft(z) < StepsLeft(turn[t]) /\ ToolsAreCounted(z)
    BY <1>5, <2>1 DEF StepsLeft, ToolsAreCounted
  <2> QED
    BY <1>3, <1>4, <1>5, <2>2 DEF Shortens
<1>9. CASE RunTool(t)
  <2>1. /\ turn[t].step = "tools" /\ turn[t].ran < turn[t].uses
        /\ z.step \in {"tools", "remembering"}
        /\ z.ran = turn[t].ran + 1 /\ z.uses = turn[t].uses
    <3>1. turn[t].step = "tools" /\ turn[t].ran < turn[t].uses
      BY <1>9 DEF RunTool
    <3>2. CASE turn' = [turn EXCEPT ![t].ran = @ + 1]
      BY <1>1, <1>2, <3>1, <3>2 DEF TurnState
    <3>3. CASE \E n \in Name : turn' = [turn EXCEPT ![t].ran = @ + 1, ![t].contact = n,
                                                   ![t].step = "remembering"]
      <4>1. PICK n : turn' = [turn EXCEPT ![t].ran = @ + 1, ![t].contact = n,
                                          ![t].step = "remembering"]
        BY <3>3
      <4> QED
        BY <1>1, <1>2, <3>1, <4>1 DEF TurnState
    <3> QED
      BY <1>9, <3>2, <3>3 DEF RunTool
  <2>2. StepsLeft(z) < StepsLeft(turn[t]) /\ ToolsAreCounted(z)
    BY <1>5, <1>6, <2>1 DEF StepsLeft, ToolsAreCounted
  <2> QED
    BY <1>3, <1>4, <1>5, <2>2 DEF Shortens
<1>10. CASE RememberCustomer(t)
  <2>1. /\ turn[t].step = "remembering" /\ z.step = "tools"
        /\ z.ran = turn[t].ran /\ z.uses = turn[t].uses
    BY <1>1, <1>2, <1>10 DEF RememberCustomer, TurnState
  <2>2. StepsLeft(z) < StepsLeft(turn[t]) /\ ToolsAreCounted(z)
    BY <1>5, <1>6, <2>1 DEF StepsLeft, ToolsAreCounted
  <2> QED
    BY <1>3, <1>4, <1>5, <2>2 DEF Shortens
<1> QED
  BY <1>7, <1>8, <1>9, <1>10

(* Any step of a turn.                                                     *)
LEMMA StepShortens ==
  ASSUME TurnInv, TurnInv', UNCHANGED overlap, NEW t \in Turn, Runs(turn[t]),
         Post(t) \/ Advance(t)
  PROVE  \E z : turn' = [turn EXCEPT ![t] = z] /\ Shortens(t, z)
<1>1. turn[t] \in TurnState /\ Uses(t) \subseteq ToolUse /\ MaxTools \in Nat
  BY TurnIsTyped, UsesAreTyped, BoundsAreNumbers DEF TurnInv
<1>2. CASE ModelRefuses(t)
  <2>1. PICK s : s = [turn[t] EXCEPT !.reply = "refusal", !.retried = TRUE, !.uses = 0]
    OBVIOUS
  <2>2. s \in TurnState /\ s.round = turn[t].round
    <3>1. 0 \in 0 .. MaxTools
      BY <1>1
    <3> QED
      BY <1>1, <2>1, <3>1 DEF TurnState, Replies
  <2>3. turn[t].step = "calling" /\ (End(t, s, "error") \/ NextRound(t, s))
    BY <1>2, <2>1 DEF ModelRefuses
  <2>4. CASE End(t, s, "error")
    BY <2>2, <2>3, <2>4, OverShortens DEF End
  <2> QED
    BY <2>2, <2>3, <2>4, NextRoundShortens
<1>3. ASSUME NEW m \in Message
      PROVE  /\ [turn[t] EXCEPT !.messages = Append(@, m)] \in TurnState
             /\ [turn[t] EXCEPT !.messages = Append(@, m)].round = turn[t].round
             /\ [turn[t] EXCEPT !.messages = Append(@, m)].uses = turn[t].uses
             /\ [turn[t] EXCEPT !.messages = Append(@, m)].ran = turn[t].ran
  <2>1. Append(turn[t].messages, m) \in Seq(Message)
    BY <1>1, AppendIs DEF TurnState
  <2> QED
    BY <1>1, <2>1 DEF TurnState
<1>4. CASE PersistReply(t)
  <2>1. Reply(t) \in Message
    BY <1>1 DEF Reply, Message
  <2>2. PICK s : s = [turn[t] EXCEPT !.messages = Append(@, Reply(t))]
    OBVIOUS
  <2>3. /\ s \in TurnState /\ s.round = turn[t].round /\ s.uses = turn[t].uses
        /\ s.ran = turn[t].ran /\ turn[t].step = "storing"
    BY <1>3, <1>4, <2>1, <2>2 DEF PersistReply
  <2>4. CASE NextRound(t, s)
    BY <2>3, <2>4, NextRoundShortens
  <2>5. CASE End(t, s, "done")
    BY <2>3, <2>5, OverShortens DEF End
  <2>6. CASE turn' = [turn EXCEPT ![t] = [s EXCEPT !.step = "tools"]]
    <3>1. PICK z : z = [s EXCEPT !.step = "tools"]
      OBVIOUS
    <3>2. /\ z \in TurnState /\ z.step = "tools" /\ z.round = turn[t].round
          /\ z.uses = turn[t].uses /\ z.ran = turn[t].ran
      BY <2>3, <3>1 DEF TurnState, Steps
    <3>3. /\ RoundsAfter(z) \in Nat /\ RoundsAfter(turn[t]) = RoundsAfter(z)
          /\ MaxTools \in Nat /\ z.round < MaxRounds
          /\ z.uses \in 0 .. MaxTools /\ z.ran \in 0 .. MaxTools
      BY <3>2, SameRound
    <3>4. ToolsAreCounted(z)
      BY <2>3, <3>2 DEF Runs, ToolsAreCounted
    <3>5. StepsLeft(z) < StepsLeft(turn[t])
      BY <2>3, <3>2, <3>3, <3>4 DEF StepsLeft, ToolsAreCounted
    <3> QED
      BY <2>6, <3>1, <3>2, <3>3, <3>4, <3>5 DEF Shortens
  <2> QED
    BY <1>4, <2>2, <2>4, <2>5, <2>6 DEF PersistReply
<1>5. CASE PersistResults(t)
  <2>1. Results(t) \in Message
    BY <1>1 DEF Results, Message
  <2>2. PICK s : s = [turn[t] EXCEPT !.messages = Append(@, Results(t))]
    OBVIOUS
  <2>3. s \in TurnState /\ s.round = turn[t].round
    BY <1>3, <2>1, <2>2
  <2> QED
    BY <1>5, <2>2, <2>3, NextRoundShortens DEF PersistResults
<1>6. CASE ModelFails(t) \/ QueryFails(t)
  BY <1>1, <1>6, OverShortens DEF ModelFails, QueryFails, End
<1> QED
  BY <1>2, <1>4, <1>5, <1>6, PlainStepShortens DEF Advance

(* A step of one turn leaves the others as they are.                       *)
LEMMA StepsRunDown ==
  ASSUME TurnInv, TurnInv', StepsAreLeft, Next
  PROVE  /\ StepsAreLeft'
         /\ \A t \in Turn : turn'[t] # turn[t] => StepsLeft(turn[t])' < StepsLeft(turn[t])
<1>1. UNCHANGED overlap
  BY DEF Next, Post, Advance, GetConversation, LoadHistory, PersistText, ModelReplies,
     ModelRefuses, PersistReply, RunTool, RememberCustomer, PersistResults, ModelFails,
     QueryFails, Crash
<1>2. MaxTools' = MaxTools
  BY <1>1, OverlapIsFixed
<1>3. turn \in [Turn -> TurnState] /\ \A t \in Turn : Runs(turn[t]) /\ turn[t] \in TurnState
  BY DEF TurnInv, TypeOK, StepsAreLeft, Runs
<1>4. ASSUME NEW b \in Turn, NEW t \in Turn, Post(b) \/ Advance(b)
      PROVE  turn'[t] = turn[t] \/ Shortens(t, turn'[t])
  <2>1. PICK z : turn' = [turn EXCEPT ![b] = z] /\ Shortens(b, z)
    BY <1>1, <1>3, <1>4, StepShortens
  <2> QED
    BY <1>3, <2>1
<1>5. ASSUME NEW t \in Turn, Crash
      PROVE  turn'[t] = turn[t] \/ Shortens(t, turn'[t])
  <2>1. turn'[t] = IF Running(t) THEN Over(turn[t]) ELSE turn[t]
    BY <1>5 DEF Crash
  <2> QED
    BY <1>3, <2>1, OverShortens DEF Running
<1>6. \A t \in Turn : turn'[t] = turn[t] \/ Shortens(t, turn'[t])
  BY <1>4, <1>5 DEF Next
<1>7. ASSUME NEW t \in Turn
      PROVE  /\ StepsLeft(turn[t])' = StepsLeft(turn'[t])
             /\ Runs(turn[t])' <=> Runs(turn'[t])
  BY <1>2 DEF StepsLeft, RoundsAfter, Runs, ToolsAreCounted
<1>8. \A t \in Turn : Runs(turn'[t])
  BY <1>3, <1>6, CountedRuns DEF Shortens
<1>9. StepsAreLeft'
  BY <1>7, <1>8 DEF StepsAreLeft, Runs
<1> QED
  BY <1>6, <1>7, <1>9 DEF Shortens

(* A turn that begins has them all.                                        *)
LEMMA AllAreLeft == Init => StepsAreLeft
<1> SUFFICES ASSUME Init, NEW t \in Turn PROVE Runs(turn[t])
  BY DEF StepsAreLeft, Runs
<1>1. TurnInv /\ turn[t] = NewTurn
  BY InitIsTrue DEF Init
<1>2. turn[t] \in TurnState /\ turn[t].round < MaxRounds
  BY <1>1, TurnIsTyped DEF TurnIsTrue
<1>3. ToolsAreCounted(turn[t])
  BY <1>1 DEF ToolsAreCounted, NewTurn
<1> QED
  BY <1>1, <1>2, <1>3, CountedRuns

(* A turn has at most MaxRounds * (2 * MaxTools + 3) + 4 steps to take,    *)
(* and none only when it is over.                                          *)
THEOREM TurnsAreBounded == Spec => [](TurnInv /\ StepsAreLeft)
<1>1. Init => TurnInv /\ StepsAreLeft
  BY InitIsTrue, AllAreLeft
<1>2. TurnInv /\ StepsAreLeft /\ [Next]_vars => (TurnInv /\ StepsAreLeft)'
  <2> SUFFICES ASSUME TurnInv, StepsAreLeft, [Next]_vars PROVE (TurnInv /\ StepsAreLeft)'
    OBVIOUS
  <2>1. TurnInv'
    BY TurnStep
  <2>2. CASE UNCHANGED vars
    BY <2>1, <2>2 DEF vars, StepsAreLeft, StepsLeft, RoundsAfter, ToolsAreCounted, MaxTools
  <2> QED
    BY <2>1, <2>2, StepsRunDown
<1> QED
  BY <1>1, <1>2, PTL DEF Spec

(* Every step a turn takes, whatever the model, the tools, the storage and *)
(* other turns do, brings it nearer to its end: the bound on iterations is *)
(* a bound on steps (chat.service.ts: "Safety net against a tool loop that *)
(* never settles").                                                        *)
THEOREM EveryStepCounts == Spec => TurnsRunDown
<1>1. TurnInv /\ TurnInv' /\ StepsAreLeft /\ [Next]_vars =>
        [\A t \in Turn : turn'[t] # turn[t] => StepsLeft(turn[t])' < StepsLeft(turn[t])]_vars
  BY StepsRunDown
<1> QED
  BY <1>1, TurnsAreBounded, PTL DEF Spec, TurnsRunDown
=============================================================================
