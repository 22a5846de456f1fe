-------------------------- MODULE ChatSessionProofs --------------------------
(***************************************************************************)
(* Theorems of ChatSession, for any number of messages, events and crashes *)
(* and any cutting of the stream into reads:                               *)
(*                                                                         *)
(*   TurnsOverlapForAReason    TurnsOverlapOnlyAfterAFailure               *)
(*   SessionTypes              TypeOK                                      *)
(*   StreamRefinement          ImplementsStream                            *)
(*   OneConversation           ConversationsGoOn                           *)
(*   NoSilentFailures          SilenceIsTheServers                         *)
(*   AnswersStayBounded        an answer takes so many steps at most, and  *)
(*   EveryStepAnswers          each step it takes is one less              *)
(*                                                                         *)
(* and the inductive invariants they rest on, each of which uses the one   *)
(* before it:                                                              *)
(*                                                                         *)
(*   SessionSafety, SessionInv   which turns run: that a new message finds *)
(*     none but failed ones running needs to know, of the turn that runs,  *)
(*     that the widget still reads it, and of an answer whose body has     *)
(*     ended, that its turn has;                                           *)
(*   StreamSafety, StreamInv     where the events are: what is shown of an *)
(*     answer is a beginning of it, and what is kept in the buffer and     *)
(*     what is on the wire are, together, the parts of the rest;           *)
(*   ToldSafety, ToldInv         what the customer knows: the end of the   *)
(*     body is behind the last event, and the conversation is known from   *)
(*     the first event on.                                                 *)
(*                                                                         *)
(* The first part is about reading alone: the parts of events in order     *)
(* make whole frames and at most one half, so cutting the stream anywhere, *)
(* keeping the half and prefixing it to the next read loses no event and   *)
(* repeats none.                                                           *)
(*                                                                         *)
(* The last two are the part of AnswersComplete that needs no fairness: a  *)
(* measure of the answer, AnswerLeft, that every step decreases.           *)
(***************************************************************************)
EXTENDS ChatSession, FiniteSetTheorems, TLAPS

(* Every place in a sequence is an odd or an even one.                     *)
LEMMA OddOrEven ==
  \A i \in Nat \ {0} : \E k \in Nat \ {0} : i = 2 * k - 1 \/ i = 2 * k
<1> SUFFICES ASSUME NEW i \in Nat \ {0} PROVE \E k \in Nat \ {0} : i = 2 * k - 1 \/ i = 2 * k
  OBVIOUS
<1>1. (i + 1) \div 2 \in Nat \ {0} /\ (i = 2 * ((i + 1) \div 2) - 1 \/ i = 2 * ((i + 1) \div 2))
  OBVIOUS
<1> QED
  BY <1>1

(* ... and every length is twice a number, or one more.                    *)
LEMMA Halves ==
  \A l \in Nat : \E h \in Nat : l = 2 * h \/ l = 2 * h + 1
<1> SUFFICES ASSUME NEW l \in Nat PROVE \E h \in Nat : l = 2 * h \/ l = 2 * h + 1
  OBVIOUS
<1>1. l \div 2 \in Nat /\ (l = 2 * (l \div 2) \/ l = 2 * (l \div 2) + 1)
  OBVIOUS
<1> QED
  BY <1>1

(* The even numbers up to 2 * k.                                           *)
Evens(k) == {2 * j : j \in 1 .. k}

(* There are k even numbers up to 2 * k.                                   *)
LEMMA EvensCount ==
  ASSUME NEW k \in Nat
  PROVE  Cardinality(Evens(k)) = k
<1> DEFINE double == [j \in 1 .. k |-> 2 * j]
<1>1. double \in Bijection(1 .. k, Evens(k))
  <2>1. double \in [1 .. k -> Evens(k)]
    BY DEF Evens
  <2>2. \A i, j \in 1 .. k : double[i] = double[j] => i = j
    OBVIOUS
  <2>3. \A e \in Evens(k) : \E j \in 1 .. k : double[j] = e
    BY DEF Evens
  <2> QED
    BY <2>1, <2>2, <2>3 DEF Bijection, Injection, Surjection, IsInjective
<1>2. IsFiniteSet(1 .. k) /\ Cardinality(1 .. k) = k
  BY FS_Interval
<1> QED
  BY <1>1, <1>2, FS_Bijection DEF ExistsBijection

(* Bytes that are the parts of events, first and second in turn, from the  *)
(* first event on and perhaps not to the end of the last.                  *)
Alternate(bytes, events) ==
  /\ Len(bytes) <= 2 * Len(events)
  /\ \A k \in 1 .. Len(events) :
       /\ 2 * k - 1 <= Len(bytes) => bytes[2 * k - 1] = [event |-> events[k], part |-> 1]
       /\ 2 * k <= Len(bytes) => bytes[2 * k] = [event |-> events[k], part |-> 2]

(* The events whose second part is there are the frames of such bytes.     *)
LEMMA FramesOfAlternate ==
  ASSUME NEW events \in Seq(Event), NEW bytes \in Seq(Part), Alternate(bytes, events),
         NEW h \in Nat, Len(bytes) = 2 * h \/ Len(bytes) = 2 * h + 1
  PROVE  Frames(bytes) = [k \in 1 .. h |-> events[k]]
<1> DEFINE Whole(i) == bytes[i].part = 2 /\ i > 1 /\ bytes[i - 1] = [event |-> bytes[i].event, part |-> 1]
           Ends == {i \in DOMAIN bytes : Whole(i)}
           End(k) == CHOOSE i \in Ends : Cardinality({j \in Ends : j <= i}) = k
<1>1. Len(bytes) \in Nat /\ Len(events) \in Nat
  OBVIOUS
<1>d. DOMAIN bytes = 1 .. Len(bytes)
  OBVIOUS
<1>2. h <= Len(events)
  BY <1>1 DEF Alternate
<1>3. Ends = Evens(h)
  <2>1. ASSUME NEW k \in 1 .. h PROVE 2 * k \in Ends
    <3>1. k \in 1 .. Len(events) /\ 2 * k <= Len(bytes) /\ 2 * k - 1 <= Len(bytes) /\ 2 * k > 1
          /\ 2 * k \in 1 .. Len(bytes)
      BY <1>1, <1>2
    <3>2. bytes[2 * k] = [event |-> events[k], part |-> 2]
          /\ bytes[2 * k - 1] = [event |-> events[k], part |-> 1]
      BY <3>1 DEF Alternate
    <3>3. Whole(2 * k)
      BY <3>1, <3>2
    <3> HIDE DEF Whole
    <3> QED
      BY <1>d, <3>1, <3>3
  <2>2. ASSUME NEW i \in Ends PROVE \E k \in 1 .. h : i = 2 * k
    <3>1. i \in 1 .. Len(bytes)
      BY <1>d
    <3>2. bytes[i].part = 2
      OBVIOUS
    <3>3. PICK k \in Nat \ {0} : i = 2 * k - 1 \/ i = 2 * k
      <4>1. i \in Nat \ {0}
        BY <1>1, <3>1
      <4> QED
        BY <4>1, OddOrEven
    <3>4. ASSUME i = 2 * k - 1 PROVE FALSE
      <4>1. k \in 1 .. Len(events) /\ 2 * k - 1 <= Len(bytes)
        BY <3>1, <3>4, <1>1 DEF Alternate
      <4>2. bytes[2 * k - 1] = [event |-> events[k], part |-> 1]
        BY <4>1 DEF Alternate
      <4> QED
        BY <4>2, <3>2, <3>4
    <3>5. i = 2 * k
      BY <3>3, <3>4
    <3>6. k \in 1 .. h
      BY <3>1, <3>5, <1>1
    <3> QED
      BY <3>5, <3>6
  <2> HIDE DEF Ends
  <2> QED
    BY <2>1, <2>2 DEF Evens
<1>5. \A k \in 0 .. h : Cardinality({j \in Ends : j <= 2 * k}) = k
  <2> HIDE DEF Ends
  <2> TAKE k \in 0 .. h
  <2>1. {j \in Ends : j <= 2 * k} = Evens(k)
    BY <1>3 DEF Evens
  <2>2. k \in Nat
    OBVIOUS
  <2> QED
    BY <2>1, <2>2, EvensCount
<1>6. Cardinality(Ends) = h
  BY <1>3, EvensCount
<1>7. ASSUME NEW k \in 1 .. h PROVE End(k) = 2 * k
  <2>1. 2 * k \in Ends /\ Cardinality({j \in Ends : j <= 2 * k}) = k
    BY <1>3, <1>5 DEF Evens
  <2>2. ASSUME NEW i \in Ends, Cardinality({j \in Ends : j <= i}) = k PROVE i = 2 * k
    <3>1. PICK l \in 1 .. h : i = 2 * l
      BY <1>3 DEF Evens
    <3>2. Cardinality({j \in Ends : j <= 2 * l}) = l
      BY <1>5
    <3> QED
      BY <2>2, <3>1, <3>2
  <2> HIDE DEF Ends
  <2> QED
    BY <2>1, <2>2
<1>8. \A k \in 1 .. h : bytes[End(k)].event = events[k]
  <2> TAKE k \in 1 .. h
  <2>1. k \in 1 .. Len(events) /\ 2 * k <= Len(bytes)
    BY <1>1, <1>2
  <2>2. bytes[2 * k] = [event |-> events[k], part |-> 2]
    BY <2>1 DEF Alternate
  <2> HIDE DEF End
  <2> QED
    BY <1>7, <2>2
<1>9. Frames(bytes) = [k \in 1 .. Cardinality(Ends) |-> bytes[End(k)].event]
  BY DEF Frames
<1> HIDE DEF Ends, End
<1> QED
  BY <1>6, <1>8, <1>9

-----------------------------------------------------------------------------
PartOf(e, p) == [event |-> e, part |-> p]

(* seen is a beginning of sent.                                            *)
ABeginning(seen, sent) ==
  /\ Len(seen) <= Len(sent)
  /\ \A i \in 1 .. Len(seen) : seen[i] = sent[i]

(* bytes are the parts of the events of sent that seen does not have.      *)
TheRest(bytes, sent, seen) ==
  /\ Len(bytes) = 2 * (Len(sent) - Len(seen))
  /\ \A k \in 1 .. Len(sent) - Len(seen) :
       /\ bytes[2 * k - 1] = PartOf(sent[Len(seen) + k], 1)
       /\ bytes[2 * k] = PartOf(sent[Len(seen) + k], 2)

(* An event is written behind the others.                                  *)
LEMMA WriteAtTheEnd ==
  ASSUME NEW sent \in Seq(Event), NEW seen \in Seq(Event), ABeginning(seen, sent),
         NEW before \in Seq(Part), NEW way \in Seq(Part), NEW e \in Event,
         TheRest(before \o way, sent, seen)
  PROVE  /\ ABeginning(seen, Append(sent, e))
         /\ TheRest(before \o (way \o <<PartOf(e, 1), PartOf(e, 2)>>), Append(sent, e), seen)
<1> DEFINE more == <<PartOf(e, 1), PartOf(e, 2)>>
           all == before \o way
           bytes == before \o (way \o more)
           now == Append(sent, e)
           left == Len(sent) - Len(seen)
<1>1. PartOf(e, 1) \in Part /\ PartOf(e, 2) \in Part
  BY DEF PartOf, Part
<1>2. more \in Seq(Part) /\ Len(more) = 2 /\ more[1] = PartOf(e, 1) /\ more[2] = PartOf(e, 2)
  BY <1>1
<1>3. Len(sent) \in Nat /\ Len(seen) \in Nat /\ Len(before) \in Nat /\ Len(way) \in Nat /\ left \in Nat
  BY DEF ABeginning
<1>4. Len(all) = Len(before) + Len(way) /\ Len(bytes) = Len(before) + Len(way) + 2
  BY <1>2
<1>5. Len(now) = Len(sent) + 1 /\ now[Len(sent) + 1] = e
      /\ \A i \in 1 .. Len(sent) : now[i] = sent[i]
  OBVIOUS
<1>6. ABeginning(seen, now)
  BY <1>3, <1>5 DEF ABeginning
<1>7. \A j \in 1 .. Len(all) : bytes[j] = all[j]
  BY <1>2
<1>8. bytes[Len(all) + 1] = PartOf(e, 1) /\ bytes[Len(all) + 2] = PartOf(e, 2)
  BY <1>2
<1>9. Len(all) = 2 * left
  BY DEF TheRest
<1>10. ASSUME NEW k \in 1 .. left + 1
       PROVE  bytes[2 * k - 1] = PartOf(now[Len(seen) + k], 1)
              /\ bytes[2 * k] = PartOf(now[Len(seen) + k], 2)
  <2>1. CASE k \in 1 .. left
    <3>1. 2 * k - 1 \in 1 .. Len(all) /\ 2 * k \in 1 .. Len(all) /\ Len(seen) + k \in 1 .. Len(sent)
      BY <1>3, <1>9, <2>1
    <3>2. all[2 * k - 1] = PartOf(sent[Len(seen) + k], 1) /\ all[2 * k] = PartOf(sent[Len(seen) + k], 2)
      BY <2>1 DEF TheRest
    <3> HIDE DEF all, bytes, now
    <3> QED
      BY <3>1, <3>2, <1>5, <1>7
  <2>2. CASE k = left + 1
    <3>1. 2 * k - 1 = Len(all) + 1 /\ 2 * k = Len(all) + 2 /\ Len(seen) + k = Len(sent) + 1
      BY <1>3, <1>9, <2>2
    <3> HIDE DEF all, bytes, now
    <3> QED
      BY <3>1, <1>5, <1>8
  <2>3. k \in 1 .. left \/ k = left + 1
    BY <1>3
  <2> QED
    BY <2>1, <2>2, <2>3
<1>11. Len(now) - Len(seen) = left + 1 /\ Len(bytes) = 2 * (left + 1)
  <2>1. Len(now) = Len(sent) + 1 /\ Len(bytes) = Len(all) + 2
    BY <1>4, <1>5
  <2> HIDE DEF now, bytes, all
  <2> QED
    BY <2>1, <1>3, <1>9
<1>12. TheRest(bytes, now, seen)
  <2> HIDE DEF bytes, now, left
  <2> QED
    BY <1>10, <1>11 DEF TheRest
<1> QED
  BY <1>6, <1>12

(* What a concatenation has in its places.                                 *)
LEMMA ConcatIs ==
  ASSUME NEW S, NEW s \in Seq(S), NEW t \in Seq(S)
  PROVE  /\ s \o t \in Seq(S) /\ Len(s \o t) = Len(s) + Len(t)
         /\ \A i \in 1 .. Len(s) : (s \o t)[i] = s[i]
         /\ \A i \in 1 .. Len(t) : (s \o t)[Len(s) + i] = t[i]
  OBVIOUS

(* However much is read, the events that become complete are the next ones *)
(* to be seen, and what is kept and what is still on its way are the parts *)
(* of the others.                                                          *)
LEMMA ReadGoesOn ==
  ASSUME NEW sent \in Seq(Event), NEW seen \in Seq(Event), ABeginning(seen, sent),
         NEW before \in Seq(Part), NEW way \in Seq(Part), TheRest(before \o way, sent, seen),
         NEW n \in 1 .. Len(way)
  PROVE  LET bytes == before \o SubSeq(way, 1, n)
             events == Frames(bytes)
         IN  /\ events \in Seq(Event)
             /\ \A i \in 1 .. Len(events) : events[i] = sent[Len(seen) + i]
             /\ seen \o events \in Seq(Event)
             /\ ABeginning(seen \o events, sent)
             /\ Rest(bytes) \in Seq(Part) /\ Len(Rest(bytes)) <= 1
             /\ TheRest(Rest(bytes) \o SubSeq(way, n + 1, Len(way)), sent, seen \o events)
<1> DEFINE all == before \o way
           some == SubSeq(way, 1, n)
           others == SubSeq(way, n + 1, Len(way))
           bytes == before \o some
           events == Frames(bytes)
           left == Len(sent) - Len(seen)
           later == SubSeq(sent, Len(seen) + 1, Len(sent))
           kept == Rest(bytes) \o others
<1>1. Len(sent) \in Nat /\ Len(seen) \in Nat /\ Len(before) \in Nat /\ Len(way) \in Nat
      /\ left \in Nat /\ n \in Nat /\ n >= 1 /\ n <= Len(way)
  BY DEF ABeginning
<1>2. some \in Seq(Part) /\ Len(some) = n /\ \A j \in 1 .. n : some[j] = way[j]
  BY <1>1
<1>3. others \in Seq(Part) /\ Len(others) = Len(way) - n
      /\ \A j \in 1 .. Len(way) - n : others[j] = way[n + j]
  BY <1>1
<1>4. bytes \in Seq(Part) /\ Len(bytes) = Len(before) + n
  BY <1>2
<1>5. \A j \in 1 .. Len(before) + n : bytes[j] = all[j]
  BY <1>1, <1>2
<1>6. Len(all) = 2 * left /\ Len(all) = Len(before) + Len(way)
  BY DEF TheRest
<1>7. later \in Seq(Event) /\ Len(later) = left /\ \A k \in 1 .. left : later[k] = sent[Len(seen) + k]
  BY <1>1
<1>8. Alternate(bytes, later)
  <2>1. Len(bytes) <= 2 * Len(later)
    BY <1>1, <1>4, <1>6, <1>7
  <2>2. ASSUME NEW k \in 1 .. left
        PROVE  /\ 2 * k - 1 <= Len(bytes) => bytes[2 * k - 1] = [event |-> later[k], part |-> 1]
               /\ 2 * k <= Len(bytes) => bytes[2 * k] = [event |-> later[k], part |-> 2]
    <3>1. all[2 * k - 1] = PartOf(sent[Len(seen) + k], 1) /\ all[2 * k] = PartOf(sent[Len(seen) + k], 2)
      BY DEF TheRest
    <3>2. (2 * k - 1 <= Len(bytes) => 2 * k - 1 \in 1 .. Len(before) + n)
          /\ (2 * k <= Len(bytes) => 2 * k \in 1 .. Len(before) + n)
      BY <1>1, <1>4
    <3>3. later[k] = sent[Len(seen) + k]
      BY <1>7
    <3> HIDE DEF all, bytes, later
    <3> QED
      BY <3>1, <3>2, <3>3, <1>5 DEF PartOf
  <2> HIDE DEF bytes, later
  <2> QED
    BY <2>1, <2>2, <1>7 DEF Alternate
<1>a. Len(bytes) = Len(before) + n /\ Len(all) = Len(before) + Len(way) /\ Len(all) = 2 * left
  BY <1>4, <1>6
<1>b. PICK h \in Nat : Len(bytes) = 2 * h \/ Len(bytes) = 2 * h + 1
  <2>1. Len(bytes) \in Nat
    BY <1>4
  <2> HIDE DEF bytes
  <2> QED
    BY <2>1, Halves
<1>9. h \in Nat /\ (Len(bytes) = 2 * h \/ Len(bytes) = 2 * h + 1) /\ h <= left
  <2> HIDE DEF bytes, all
  <2> QED
    BY <1>1, <1>a, <1>b
<1>10. events = [k \in 1 .. h |-> later[k]]
  <2> HIDE DEF bytes, later
  <2> QED
    BY <1>4, <1>7, <1>8, <1>9, FramesOfAlternate
<1>11. events \in Seq(Event) /\ Len(events) = h /\ \A k \in 1 .. h : events[k] = sent[Len(seen) + k]
  <2>1. \A k \in 1 .. h : later[k] \in Event /\ later[k] = sent[Len(seen) + k]
    BY <1>1, <1>7, <1>9
  <2>2. Len([k \in 1 .. h |-> later[k]]) = h /\ [k \in 1 .. h |-> later[k]] \in Seq(Event)
    <3> HIDE DEF later
    <3> QED
      BY <1>9, <2>1
  <2> HIDE DEF later, events
  <2> QED
    BY <1>10, <2>1, <2>2
<1>12. seen \o events \in Seq(Event) /\ Len(seen \o events) = Len(seen) + h
  <2>1. events \in Seq(Event) /\ Len(events) = h
    BY <1>11
  <2> HIDE DEF events
  <2>2. seen \o events \in Seq(Event) /\ Len(seen \o events) = Len(seen) + Len(events)
    BY <2>1, ConcatIs
  <2> QED
    BY <2>1, <2>2
<1>13. ABeginning(seen \o events, sent)
  <2>1. \A i \in 1 .. Len(seen) : (seen \o events)[i] = sent[i]
    BY <1>11 DEF ABeginning
  <2>2. \A i \in Len(seen) + 1 .. Len(seen) + h : (seen \o events)[i] = sent[i]
    <3> TAKE i \in Len(seen) + 1 .. Len(seen) + h
    <3>1. i - Len(seen) \in 1 .. h /\ Len(seen) + (i - Len(seen)) = i
      BY <1>1, <1>9
    <3>2. (seen \o events)[i] = events[i - Len(seen)]
      BY <1>1, <1>9, <1>11
    <3> HIDE DEF events
    <3> QED
      BY <1>11, <3>1, <3>2
  <2>3. \A i \in 1 .. Len(seen) + h : i \in 1 .. Len(seen) \/ i \in Len(seen) + 1 .. Len(seen) + h
    BY <1>1, <1>9
  <2> HIDE DEF events
  <2> QED
    BY <1>1, <1>9, <1>12, <2>1, <2>2, <2>3 DEF ABeginning
<1>14. Rest(bytes) \in Seq(Part) /\ Len(Rest(bytes)) = Len(bytes) - 2 * h
       /\ (Len(bytes) = 2 * h + 1 => Rest(bytes) = <<all[2 * h + 1]>>)
  <2>1. CASE Len(bytes) = 2 * h
    <3>1. h \in 1 .. left /\ 2 * h \in 1 .. Len(before) + n
      <4> HIDE DEF bytes
      <4> QED
        BY <1>1, <1>a, <1>9, <2>1
    <3>2. all[2 * h] = PartOf(sent[Len(seen) + h], 2)
      BY <3>1 DEF TheRest
    <3>3. bytes[Len(bytes)].part = 2
      <4> HIDE DEF all, bytes
      <4> QED
        BY <1>5, <2>1, <3>1, <3>2 DEF PartOf
    <3> HIDE DEF bytes
    <3>4. Rest(bytes) = <<>>
      BY <3>3 DEF Rest
    <3> QED
      BY <1>9, <2>1, <3>4
  <2>2. CASE Len(bytes) = 2 * h + 1
    <3>1. h + 1 \in 1 .. left /\ 2 * h + 1 \in 1 .. Len(before) + n /\ 2 * (h + 1) - 1 = 2 * h + 1
      <4> HIDE DEF bytes, all
      <4> QED
        BY <1>1, <1>a, <1>9, <2>2
    <3>2. all[2 * (h + 1) - 1] = PartOf(sent[Len(seen) + (h + 1)], 1)
      BY <3>1 DEF TheRest
    <3>3. bytes[Len(bytes)] = all[2 * h + 1] /\ all[2 * h + 1].part = 1 /\ all[2 * h + 1] \in Part
      <4>1. bytes[2 * h + 1] \in Part
        <5> HIDE DEF bytes
        <5> QED
          BY <1>4, <3>1
      <4> HIDE DEF all, bytes
      <4> QED
        BY <1>5, <2>2, <3>1, <3>2, <4>1 DEF PartOf
    <3> HIDE DEF bytes, all
    <3>4. Rest(bytes) = <<all[2 * h + 1]>>
      BY <3>3 DEF Rest
    <3> QED
      BY <1>9, <2>2, <3>3, <3>4
  <2> HIDE DEF bytes, all
  <2> QED
    BY <1>9, <2>1, <2>2
<1>c. Len(Rest(bytes)) = Len(before) + n - 2 * h
  <2> HIDE DEF bytes
  <2> QED
    BY <1>14, <1>a
<1>15. Len(kept) = 2 * (left - h) /\ \A j \in 1 .. 2 * (left - h) : kept[j] = all[2 * h + j]
  <2>1. Len(kept) = Len(Rest(bytes)) + (Len(way) - n)
    <3>1. others \in Seq(Part) /\ Len(others) = Len(way) - n /\ Rest(bytes) \in Seq(Part)
      BY <1>3, <1>14
    <3> HIDE DEF bytes, others
    <3>2. Len(kept) = Len(Rest(bytes)) + Len(others)
      BY <3>1, ConcatIs
    <3> HIDE DEF kept
    <3> QED
      BY <3>1, <3>2
  <2>2. Len(kept) = 2 * (left - h)
    <3> HIDE DEF bytes, all, kept
    <3>1. Len(kept) \in Int /\ Len(all) = Len(kept) + 2 * h
      BY <1>1, <1>a, <1>c, <2>1
    <3>2. Len(all) = 2 * left
      BY <1>a
    <3> QED
      BY <1>1, <3>1, <3>2
  <2>3. ASSUME NEW j \in 1 .. 2 * (left - h), j > Len(Rest(bytes))
        PROVE  kept[j] = all[2 * h + j]
    <3> DEFINE i == j - Len(Rest(bytes))
    <3>1. i \in 1 .. Len(way) - n /\ 2 * h + j = Len(before) + (n + i) /\ n + i \in 1 .. Len(way)
      <4> HIDE DEF bytes, all, kept
      <4> QED
        BY <1>1, <1>a, <1>9, <1>c, <2>1, <2>2, <2>3
    <3>2. kept[Len(Rest(bytes)) + i] = others[i]
      <4>1. others \in Seq(Part) /\ i \in 1 .. Len(others) /\ Rest(bytes) \in Seq(Part)
        BY <1>3, <1>14, <3>1
      <4> HIDE DEF bytes, others, i
      <4> QED
        BY <4>1, ConcatIs
    <3>4. Len(Rest(bytes)) + i = j
      <4> HIDE DEF bytes
      <4> QED
        BY <1>1, <1>9, <1>c
    <3>3. all[Len(before) + (n + i)] = way[n + i]
      <4>1. n + i \in 1 .. Len(way)
        BY <3>1
      <4> DEFINE k == n + i
      <4> HIDE DEF i, k
      <4>2. \A l \in 1 .. Len(way) : all[Len(before) + l] = way[l]
        BY ConcatIs
      <4>3. all[Len(before) + k] = way[k]
        BY <4>1, <4>2 DEF k
      <4> QED
        BY <4>3 DEF k
    <3> HIDE DEF all, others, bytes, kept, i
    <3> QED
      BY <3>1, <3>2, <3>3, <3>4, <1>3
  <2>4. ASSUME NEW j \in 1 .. 2 * (left - h), ~(j > Len(Rest(bytes)))
        PROVE  kept[j] = all[2 * h + j]
    <3>1. j = 1 /\ Len(bytes) = 2 * h + 1 /\ Len(Rest(bytes)) = 1
      <4> HIDE DEF bytes, all, kept
      <4> QED
        BY <1>1, <1>9, <1>14, <2>4
    <3>2. kept[1] = Rest(bytes)[1]
      <4> HIDE DEF bytes, others
      <4> QED
        BY <1>3, <1>14, <3>1, ConcatIs
    <3> HIDE DEF bytes, all, kept
    <3> QED
      BY <1>14, <3>1, <3>2
  <2> HIDE DEF bytes, all, kept
  <2> QED
    BY <2>2, <2>3, <2>4
<1>16. TheRest(kept, sent, seen \o events)
  <2> DEFINE now == seen \o events
  <2>1. Len(sent) - Len(now) = left - h
    <3> HIDE DEF events
    <3> QED
      BY <1>1, <1>9, <1>12
  <2>2. ASSUME NEW k \in 1 .. left - h
        PROVE  kept[2 * k - 1] = PartOf(sent[Len(now) + k], 1) /\ kept[2 * k] = PartOf(sent[Len(now) + k], 2)
    <3>1. h + k \in 1 .. left /\ Len(seen) + (h + k) = Len(now) + k
          /\ 2 * k - 1 \in 1 .. 2 * (left - h) /\ 2 * k \in 1 .. 2 * (left - h)
          /\ 2 * (h + k) - 1 = 2 * h + (2 * k - 1) /\ 2 * (h + k) = 2 * h + 2 * k
      <4> HIDE DEF events
      <4> QED
        BY <1>1, <1>9, <1>12
    <3>2. all[2 * (h + k) - 1] = PartOf(sent[Len(seen) + (h + k)], 1)
          /\ all[2 * (h + k)] = PartOf(sent[Len(seen) + (h + k)], 2)
      BY <3>1 DEF TheRest
    <3> HIDE DEF kept, now, all
    <3> QED
      BY <3>1, <3>2, <1>15
  <2> HIDE DEF kept, now
  <2>3. TheRest(kept, sent, now)
    BY <2>1, <2>2, <1>15 DEF TheRest
  <2> QED
    BY <2>3 DEF now
<1>17. Len(Rest(bytes)) <= 1
  <2> HIDE DEF bytes
  <2> QED
    BY <1>9, <1>14
<1>18. /\ events \in Seq(Event)
       /\ \A i \in 1 .. Len(events) : events[i] = sent[Len(seen) + i]
       /\ seen \o events \in Seq(Event)
  <2> HIDE DEF events
  <2> QED
    BY <1>11, <1>12
<1>19. Rest(bytes) \in Seq(Part)
  BY <1>14
<1> QED
  BY <1>13, <1>16, <1>17, <1>18, <1>19, Zenon

(* The types of what the argument is about.                                *)
Typed ==
  /\ reading \in Message \cup {Nothing}
  /\ known \in Message \cup {Nothing}
  /\ serve \in [Message -> TurnState]
  /\ closed \in BOOLEAN

(* A turn that runs is being read, or its stream has failed.               *)
RunsAreKnown == \A m \in Message : Running(m) => m = reading \/ m \in failed

(* The body of an answer ends with its turn.                               *)
EndsWithItsTurn == \A m \in Message : closed /\ m = reading => ~Running(m)

SessionInv == Typed /\ RunsAreKnown /\ EndsWithItsTurn

-----------------------------------------------------------------------------
(* Sending a message.                                                      *)
LEMMA SendKeeps ==
  ASSUME SessionInv, NEW m \in Message, Send(m)
  PROVE  SessionInv'
<1>1. reading = Nothing /\ reading' = m /\ closed' = FALSE /\ UNCHANGED <<known, failed>>
  BY DEF Send, MaySend
<1>2. serve' = [serve EXCEPT ![m] = [step |-> "posted", conversation |-> known]]
  BY DEF Send
<1>3. Typed'
  BY <1>1, <1>2 DEF SessionInv, Typed, TurnState
<1>4. \A n \in Message : n # m => serve'[n] = serve[n] /\ n # reading
  BY <1>1, <1>2, NothingAssumption DEF SessionInv, Typed
<1>5. RunsAreKnown'
  BY <1>1, <1>4 DEF SessionInv, RunsAreKnown, Running
<1>6. EndsWithItsTurn'
  BY <1>1 DEF EndsWithItsTurn
<1> QED
  BY <1>3, <1>5, <1>6 DEF SessionInv

(* Reading, and noticing the end of the body.                              *)
LEMMA ReadKeeps ==
  ASSUME SessionInv, Read \/ EndOfBody
  PROVE  SessionInv'
<1>1. CASE Read
  <2>1. UNCHANGED <<reading, failed, closed, serve>> /\ reading \in Message
    BY <1>1 DEF Read, server, SessionInv, Typed
  <2>2. known' \in {known, serve[reading].conversation}
    BY <1>1 DEF Read, Conversation
  <2>3. Typed'
    BY <2>1, <2>2 DEF SessionInv, Typed, TurnState
  <2> QED
    BY <2>1, <2>3 DEF SessionInv, RunsAreKnown, EndsWithItsTurn, Running
<1>2. CASE EndOfBody
  <2>1. UNCHANGED <<known, failed, closed, serve>> /\ reading' = Nothing /\ closed
    BY <1>2 DEF EndOfBody, server
  <2>2. \A m \in Message : m = reading => ~Running(m)
    BY <2>1 DEF SessionInv, EndsWithItsTurn
  <2> QED
    BY <2>1, <2>2, NothingAssumption
       DEF SessionInv, Typed, RunsAreKnown, EndsWithItsTurn, Running
<1> QED
  BY <1>1, <1>2

(* Giving up on an answer, while its turn runs on or ends.                 *)
LEMMA GiveUpKeeps ==
  ASSUME SessionInv, GiveUp, serve' \in [Message -> TurnState],
         \A m \in Message : Running(m)' => Running(m)
  PROVE  SessionInv'
<1>1. reading' = Nothing /\ failed' = failed \cup {reading} /\ UNCHANGED <<known, closed>>
  BY DEF GiveUp
<1> QED
  BY <1>1, NothingAssumption DEF SessionInv, Typed, RunsAreKnown, EndsWithItsTurn

(* The connection breaks.                                                  *)
LEMMA BreakKeeps ==
  ASSUME SessionInv, Break \/ Reset
  PROVE  SessionInv'
<1>1. serve' = serve \/ serve' = [serve EXCEPT ![reading].step = "over"]
  BY DEF Break, Reset, server
<1>2. serve' \in [Message -> TurnState] /\ \A m \in Message : Running(m)' => Running(m)
  BY <1>1 DEF SessionInv, Typed, TurnState, Running
<1> QED
  BY <1>2, GiveUpKeeps DEF Break, Reset

(* The server's steps: a turn that did not run does not begin, and the     *)
(* response ends with its turn.                                            *)
LEMMA ServeKeeps ==
  ASSUME SessionInv, UNCHANGED <<reading, known, failed>>, serve' \in [Message -> TurnState],
         closed' \in BOOLEAN, \A m \in Message : Running(m)' => Running(m),
         closed' # closed => reading \in Message /\ ~Running(reading)'
  PROVE  SessionInv'
<1>1. RunsAreKnown'
  BY DEF SessionInv, RunsAreKnown
<1>2. EndsWithItsTurn'
  <2>1. CASE closed' = closed
    BY <2>1 DEF SessionInv, EndsWithItsTurn
  <2>2. CASE closed' # closed
    BY <2>2 DEF EndsWithItsTurn, Running
  <2> QED
    BY <2>1, <2>2
<1> QED
  BY <1>1, <1>2 DEF SessionInv, Typed

(* The server's steps.                                                     *)
LEMMA ServerKeeps ==
  ASSUME SessionInv, Crash \/ \E m \in Message : Accept(m) \/ Refuse(m) \/ Emit(m) \/ Finish(m)
  PROVE  SessionInv'
<1>1. CASE Crash
  <2>1. UNCHANGED <<reading, known, failed, closed>>
    BY <1>1 DEF Crash, widget
  <2>2. serve' \in [Message -> TurnState] /\ \A m \in Message : Running(m)' => Running(m)
    BY <1>1 DEF Crash, SessionInv, Typed, TurnState, Running
  <2> QED
    BY <2>1, <2>2, ServeKeeps DEF SessionInv, Typed
<1>2. ASSUME NEW m \in Message, Accept(m) PROVE SessionInv'
  <2>1. UNCHANGED <<reading, known, failed, closed>>
    BY <1>2 DEF Accept, widget
  <2>2. PICK c \in Message \cup {Nothing} :
          serve' = [serve EXCEPT ![m] = [step |-> "streaming", conversation |-> c]]
    BY <1>2 DEF Accept, SessionInv, Typed, TurnState
  <2>3. serve' \in [Message -> TurnState] /\ \A n \in Message : Running(n)' => Running(n)
    BY <1>2, <2>2 DEF Accept, SessionInv, Typed, TurnState, Running
  <2> QED
    BY <2>1, <2>3, ServeKeeps DEF SessionInv, Typed
<1>3. ASSUME NEW m \in Message, Refuse(m) PROVE SessionInv'
  <2>1. serve' \in [Message -> TurnState] /\ \A n \in Message : Running(n)' => Running(n)
    BY <1>3 DEF Refuse, SessionInv, Typed, TurnState, Running
  <2>2. CASE GiveUp
    BY <2>1, <2>2, GiveUpKeeps
  <2>3. CASE UNCHANGED <<widget, wire, closed>>
    BY <2>1, <2>3, ServeKeeps DEF widget, SessionInv, Typed
  <2> QED
    BY <1>3, <2>2, <2>3 DEF Refuse
<1>4. ASSUME NEW m \in Message, Emit(m) PROVE SessionInv'
  BY <1>4, ServeKeeps DEF Emit, widget, SessionInv, Typed, Running
<1>5. ASSUME NEW m \in Message, Finish(m) PROVE SessionInv'
  <2>1. UNCHANGED <<reading, known, failed>> /\ closed' = (reading = m \/ closed)
    BY <1>5 DEF Finish, widget
  <2>2. serve' \in [Message -> TurnState] /\ ~Running(m)'
        /\ \A n \in Message : Running(n)' => Running(n)
    BY <1>5 DEF Finish, SessionInv, Typed, TurnState, Running
  <2>3. closed' \in BOOLEAN /\ (closed' # closed => reading = m)
    BY <2>1 DEF SessionInv, Typed
  <2> QED
    BY <2>1, <2>2, <2>3, ServeKeeps DEF Running
<1> QED
  BY <1>1, <1>2, <1>3, <1>4, <1>5

(* SessionInv is inductive.                                                *)
LEMMA SessionStep == SessionInv /\ [Next]_vars => SessionInv'
<1>1. SessionInv /\ UNCHANGED vars => SessionInv'
  BY DEF vars, widget, server, SessionInv, Typed, RunsAreKnown, EndsWithItsTurn, Running
<1>2. SessionInv /\ Next => SessionInv'
  BY SendKeeps, ReadKeeps, BreakKeeps, ServerKeeps DEF Next
<1> QED
  BY <1>1, <1>2

-----------------------------------------------------------------------------
(* Every turn that runs is the one whose answer the widget reads, or its   *)
(* stream has failed.                                                      *)
THEOREM SessionSafety == Spec => []SessionInv
<1>1. Init => SessionInv
  <2> SUFFICES ASSUME Init PROVE SessionInv
    OBVIOUS
  <2>1. NoTurn \in TurnState /\ \A m \in Message : serve[m].step = "none"
    BY DEF Init, NoTurn, TurnState
  <2>2. Typed
    BY <2>1 DEF Init, Typed
  <2> QED
    BY <2>1, <2>2 DEF SessionInv, RunsAreKnown, EndsWithItsTurn, Running
<1> QED
  BY <1>1, SessionStep, PTL DEF Spec

(* Two turns run at a time only when the stream of one of them has failed. *)
THEOREM TurnsOverlapForAReason == Spec => []TurnsOverlapOnlyAfterAFailure
<1>1. SessionInv => TurnsOverlapOnlyAfterAFailure
  BY DEF SessionInv, RunsAreKnown, TurnsOverlapOnlyAfterAFailure
<1> QED
  BY <1>1, SessionSafety, PTL

-----------------------------------------------------------------------------
Posted(m) == \E i \in DOMAIN posted : posted[i] = m

(* Every message is sent once, the answer that is read is to the last one, *)
(* and what was not sent has no turn.                                      *)
PostedOnce ==
  /\ \A i, j \in DOMAIN posted : posted[i] = posted[j] => i = j
  /\ reading # Nothing => posted # <<>> /\ posted[Len(posted)] = reading
  /\ reading \notin failed
  /\ \A m \in Message : ~Posted(m) => m \notin failed /\ serve[m] = NoTurn

(* A turn's events begin with its conversation and stay within the bound.  *)
EmittedInOrder ==
  \A m \in Message :
    /\ serve[m].step \in {"none", "posted"} => emitted[m] = <<>>
    /\ serve[m].step = "streaming" => emitted[m] # <<>> /\ Len(emitted[m]) <= MaxEvents + 1
    /\ emitted[m] # <<>> =>
         emitted[m][1].type = "conversation" /\ serve[m].conversation # Nothing

(* What is shown of an answer is a beginning of it, and of the answer that *)
(* is read, what is kept and what is on its way are the parts of the rest. *)
ShownInOrder == \A m \in Message : ABeginning(shown[m], emitted[m])
OnTheWay ==
  \A m \in Message : m = reading => TheRest(buffer \o wire, emitted[m], shown[m])

StreamInv == TypeOK /\ PostedOnce /\ EmittedInOrder /\ ShownInOrder /\ OnTheWay

(* Sending a message.                                                      *)
LEMMA SendKeepsStream ==
  ASSUME StreamInv, NEW m \in Message, Send(m)
  PROVE  StreamInv'
<1>1. /\ reading = Nothing /\ reading' = m /\ closed' = FALSE
      /\ buffer' = <<>> /\ wire' = <<>>
      /\ UNCHANGED <<known, shown, apology, failed, emitted, crashes>>
  BY DEF Send, MaySend
<1>2. posted \in Seq(Message) /\ posted' = Append(posted, m) /\ ~Posted(m)
  BY DEF StreamInv, TypeOK, Send, MaySend, Posted
<1>3. serve' = [serve EXCEPT ![m] = [step |-> "posted", conversation |-> known]]
  BY DEF Send
<1>4. TypeOK'
  <2>1. [step |-> "posted", conversation |-> known] \in TurnState
    BY DEF StreamInv, TypeOK, TurnState
  <2>2. serve' \in [Message -> TurnState] /\ posted' \in Seq(Message)
    BY <1>2, <1>3, <2>1 DEF StreamInv, TypeOK
  <2>3. buffer' \in Seq(Part) /\ Len(buffer') <= 1 /\ wire' \in Seq(Part)
    BY <1>1
  <2> QED
    BY <1>1, <2>2, <2>3 DEF StreamInv, TypeOK
<1>5. PostedOnce'
  <2>1. Len(posted) \in Nat /\ DOMAIN posted = 1 .. Len(posted)
    BY <1>2
  <2>2. Len(posted') = Len(posted) + 1 /\ posted'[Len(posted) + 1] = m
        /\ \A i \in 1 .. Len(posted) : posted'[i] = posted[i]
    BY <1>2
  <2>3. DOMAIN posted' = 1 .. Len(posted) + 1 /\ posted' # <<>>
    BY <1>2
  <2>4. \A i \in 1 .. Len(posted) : posted[i] # m
    BY <1>2, <2>1 DEF Posted
  <2>5. \A i, j \in 1 .. Len(posted) : posted[i] = posted[j] => i = j
    BY <2>1 DEF StreamInv, PostedOnce
  <2>6. \A i, j \in 1 .. Len(posted) + 1 : posted'[i] = posted'[j] => i = j
    BY <2>1, <2>2, <2>4, <2>5
  <2>7. m \notin failed
    BY <1>2 DEF StreamInv, PostedOnce
  <2>8. ASSUME NEW n \in Message, ~Posted(n)' PROVE n # m /\ ~Posted(n)
    <3>1. \A i \in 1 .. Len(posted) + 1 : posted'[i] # n
      BY <2>3, <2>8 DEF Posted
    <3> QED
      BY <2>1, <2>2, <3>1 DEF Posted
  <2>9. \A n \in Message : ~Posted(n)' => n \notin failed' /\ serve'[n] = NoTurn
    BY <1>1, <1>3, <2>8 DEF StreamInv, PostedOnce, TypeOK
  <2> QED
    BY <1>1, <2>2, <2>3, <2>6, <2>7, <2>9 DEF PostedOnce
<1>6. emitted[m] = <<>>
  BY <1>2 DEF StreamInv, PostedOnce, EmittedInOrder, NoTurn
<1>7. EmittedInOrder'
  <2>1. ASSUME NEW n \in Message, n # m PROVE serve'[n] = serve[n]
    BY <1>3, <2>1 DEF StreamInv, TypeOK
  <2>2. serve'[m].step = "posted"
    BY <1>3 DEF StreamInv, TypeOK
  <2> QED
    BY <1>1, <1>6, <2>1, <2>2 DEF StreamInv, EmittedInOrder
<1>8. ShownInOrder'
  BY <1>1 DEF StreamInv, ShownInOrder
<1>9. OnTheWay'
  <2>1. Len(emitted[m]) = 0 /\ Len(shown[m]) = 0
    BY <1>6 DEF StreamInv, ShownInOrder, ABeginning, TypeOK
  <2>2. TheRest(<<>>, emitted[m], shown[m])
    BY <2>1 DEF TheRest
  <2>3. buffer' \o wire' = <<>>
    BY <1>1
  <2> QED
    BY <1>1, <2>2, <2>3 DEF OnTheWay
<1> QED
  BY <1>4, <1>5, <1>7, <1>8, <1>9 DEF StreamInv

(* Reading.                                                                *)
LEMMA ReadKeepsStream ==
  ASSUME StreamInv, Read
  PROVE  StreamInv'
<1>1. PICK n \in 1 .. Len(wire) :
        /\ shown' = [shown EXCEPT ![reading] = @ \o Frames(buffer \o SubSeq(wire, 1, n))]
        /\ known' = Conversation(Frames(buffer \o SubSeq(wire, 1, n)))
        /\ buffer' = Rest(buffer \o SubSeq(wire, 1, n))
        /\ wire' = SubSeq(wire, n + 1, Len(wire))
  BY DEF Read
<1>2. /\ reading \in Message
      /\ UNCHANGED <<posted, reading, apology, failed, closed, serve, emitted, crashes>>
  BY DEF Read, server, StreamInv, TypeOK
<1>3. PICK m \in Message : m = reading
  BY <1>2
<1>4. /\ emitted[m] \in Seq(Event) /\ shown[m] \in Seq(Event)
      /\ buffer \in Seq(Part) /\ wire \in Seq(Part)
      /\ ABeginning(shown[m], emitted[m])
      /\ TheRest(buffer \o wire, emitted[m], shown[m])
  BY <1>3 DEF StreamInv, TypeOK, ShownInOrder, OnTheWay
<1>5. PICK events :
        /\ events = Frames(buffer \o SubSeq(wire, 1, n))
        /\ shown[m] \o events \in Seq(Event)
        /\ ABeginning(shown[m] \o events, emitted[m])
        /\ buffer' \in Seq(Part) /\ Len(buffer') <= 1
        /\ TheRest(buffer' \o wire', emitted[m], shown[m] \o events)
  BY <1>1, <1>4, ReadGoesOn
<1>6. shown' = [shown EXCEPT ![m] = shown[m] \o events]
  BY <1>1, <1>3, <1>5
<1>7. shown'[m] = shown[m] \o events /\ \A k \in Message : k # m => shown'[k] = shown[k]
  BY <1>6 DEF StreamInv, TypeOK
<1>8. known' \in Message \cup {Nothing}
  BY <1>1, <1>2 DEF Conversation, StreamInv, TypeOK, TurnState
<1>9. wire' \in Seq(Part)
  <2>1. \A i \in n + 1 .. Len(wire) : wire[i] \in Part
    BY <1>4
  <2> QED
    BY <1>1, <1>4, <2>1
<1>10. shown' \in [Message -> Seq(Event)]
  BY <1>5, <1>6 DEF StreamInv, TypeOK
<1>11. TypeOK'
  BY <1>2, <1>5, <1>8, <1>9, <1>10 DEF StreamInv, TypeOK
<1>12. PostedOnce' /\ EmittedInOrder'
  BY <1>2 DEF StreamInv, PostedOnce, EmittedInOrder, Posted
<1>13. ShownInOrder' /\ OnTheWay'
  BY <1>2, <1>3, <1>5, <1>7 DEF StreamInv, ShownInOrder, OnTheWay
<1> QED
  BY <1>11, <1>12, <1>13 DEF StreamInv

(* Being done with an answer, well or not, while its turn runs on or ends. *)
Done ==
  /\ reading \in Message /\ reading' = Nothing
  /\ UNCHANGED <<posted, known, shown, closed, emitted, crashes>>
  /\ buffer' \in Seq(Part) /\ Len(buffer') <= 1 /\ wire' \in Seq(Part)
  /\ serve' = serve \/ serve' = [serve EXCEPT ![reading].step = "over"]
  /\ \/ EndOfBody
     \/ GiveUp

(* What it does to the turns.                                              *)
LEMMA DoneLeavesTheTurn ==
  ASSUME StreamInv, Done
  PROVE  /\ serve' \in [Message -> TurnState]
         /\ \A n \in Message : /\ n # reading => serve'[n] = serve[n]
                               /\ serve'[n].step = serve[n].step \/ serve'[n].step = "over"
                               /\ serve'[n].conversation = serve[n].conversation
<1>1. PICK s : s = [serve[reading] EXCEPT !.step = "over"]
  OBVIOUS
<1>2. serve[reading] \in TurnState
  BY DEF StreamInv, TypeOK, Done
<1>3. s \in TurnState /\ s.step = "over" /\ s.conversation = serve[reading].conversation
  BY <1>1, <1>2 DEF TurnState
<1>4. serve' = serve \/ serve' = [serve EXCEPT ![reading] = s]
  BY <1>1, <1>2 DEF StreamInv, TypeOK, Done
<1> QED
  BY <1>3, <1>4 DEF StreamInv, TypeOK, Done

(* The answer is done with.                                                *)
LEMMA DoneKeepsStream ==
  ASSUME StreamInv, Done
  PROVE  StreamInv'
<1>a. /\ reading \in Message /\ reading' = Nothing
      /\ UNCHANGED <<posted, known, shown, closed, emitted, crashes>>
      /\ buffer' \in Seq(Part) /\ Len(buffer') <= 1 /\ wire' \in Seq(Part)
  BY DEF Done
<1>b. failed' = failed \/ failed' = failed \cup {reading}
  BY DEF Done, EndOfBody, GiveUp
<1>c. apology' \in SUBSET Message
  BY <1>a DEF Done, EndOfBody, GiveUp, StreamInv, TypeOK
<1>1. /\ serve' \in [Message -> TurnState]
      /\ \A n \in Message : /\ n # reading => serve'[n] = serve[n]
                            /\ serve'[n].step = serve[n].step \/ serve'[n].step = "over"
                            /\ serve'[n].conversation = serve[n].conversation
  BY DoneLeavesTheTurn
<1>2. TypeOK'
  BY <1>a, <1>b, <1>c, <1>1 DEF StreamInv, TypeOK
<1>3. Posted(reading)
  <2>1. posted # <<>> /\ posted[Len(posted)] = reading /\ posted \in Seq(Message)
    BY <1>a, NothingAssumption DEF StreamInv, PostedOnce, TypeOK
  <2>2. Len(posted) \in DOMAIN posted
    BY <2>1
  <2> QED
    BY <2>1, <2>2 DEF Posted
<1>4. PostedOnce'
  <2>1. ASSUME NEW n \in Message, ~Posted(n)' PROVE n # reading /\ ~Posted(n)
    BY <1>a, <1>3, <2>1 DEF Posted
  <2>2. ASSUME NEW n \in Message, n # reading PROVE serve'[n] = serve[n]
    BY <1>1, <2>2
  <2>3. \A n \in Message : ~Posted(n)' => n \notin failed' /\ serve'[n] = NoTurn
    BY <1>b, <2>1, <2>2 DEF StreamInv, PostedOnce
  <2>4. reading' \notin failed'
    BY <1>a, NothingAssumption, <1>2 DEF TypeOK
  <2> QED
    BY <1>a, <2>3, <2>4 DEF StreamInv, PostedOnce
<1>5. EmittedInOrder'
  BY <1>a, <1>1 DEF StreamInv, EmittedInOrder
<1>6. ShownInOrder' /\ OnTheWay'
  BY <1>a, NothingAssumption DEF StreamInv, ShownInOrder, OnTheWay
<1> QED
  BY <1>2, <1>4, <1>5, <1>6 DEF StreamInv

(* What a sequence is with one more element.                               *)
LEMMA AppendIs ==
  ASSUME NEW S, NEW s \in Seq(S), NEW e \in S
  PROVE  /\ Len(Append(s, e)) = Len(s) + 1 /\ Append(s, e) # <<>>
         /\ \A i \in 1 .. Len(s) : Append(s, e)[i] = s[i]
         /\ Append(s, e)[Len(s) + 1] = e
<1>1. Append(s, e) \in Seq(S) /\ Len(Append(s, e)) = Len(s) + 1 /\ Len(s) \in Nat
  OBVIOUS
<1>2. Len(<<>>) = 0
  OBVIOUS
<1>3. Append(s, e) # <<>>
  BY <1>1, <1>2
<1>4. /\ \A i \in 1 .. Len(s) : Append(s, e)[i] = s[i]
      /\ Append(s, e)[Len(s) + 1] = e
  OBVIOUS
<1> QED
  BY <1>1, <1>3, <1>4

(* An event is written: it is the next one, and goes to whoever reads it.  *)
LEMMA WriteGoesOut ==
  ASSUME StreamInv, NEW m \in Message, NEW type \in Types, Write(m, type),
         UNCHANGED widget, Len(emitted[m]) <= MaxEvents + 1
  PROVE  /\ emitted' \in [Message -> Seq(Event)] /\ wire' \in Seq(Part)
         /\ \A n \in Message : n # m => emitted'[n] = emitted[n]
         /\ Len(emitted'[m]) = Len(emitted[m]) + 1
         /\ \A i \in 1 .. Len(emitted[m]) : emitted'[m][i] = emitted[m][i]
         /\ emitted'[m][Len(emitted[m]) + 1].type = type
         /\ emitted'[m] # <<>>
         /\ ShownInOrder' /\ OnTheWay'
<1>1. PICK e : e = [turn |-> m, nr |-> Len(emitted[m]) + 1, type |-> type]
  OBVIOUS
<1>2. /\ emitted' = [emitted EXCEPT ![m] = Append(emitted[m], e)]
      /\ wire' = IF reading = m THEN wire \o <<PartOf(e, 1), PartOf(e, 2)>> ELSE wire
  BY <1>1 DEF Write, PartOf
<1>3. /\ emitted[m] \in Seq(Event) /\ shown[m] \in Seq(Event)
      /\ buffer \in Seq(Part) /\ wire \in Seq(Part)
      /\ ABeginning(shown[m], emitted[m])
  BY DEF StreamInv, TypeOK, ShownInOrder
<1>4. e \in Event /\ e.type = type
  <2>1. Len(emitted[m]) + 1 \in 1 .. MaxEvents + 2
    BY <1>3, BoundsAssumption
  <2> QED
    BY <1>1, <2>1 DEF Event
<1>5. emitted'[m] = Append(emitted[m], e) /\ \A n \in Message : n # m => emitted'[n] = emitted[n]
  BY <1>2 DEF StreamInv, TypeOK
<1>6. emitted' \in [Message -> Seq(Event)]
  <2>1. Append(emitted[m], e) \in Seq(Event)
    BY <1>3, <1>4
  <2> QED
    BY <1>2, <2>1 DEF StreamInv, TypeOK
<1>7. wire' \in Seq(Part)
  <2>1. PartOf(e, 1) \in Part /\ PartOf(e, 2) \in Part
    BY <1>4 DEF Part, PartOf
  <2> QED
    BY <1>2, <1>3, <2>1
<1>8. /\ Len(emitted'[m]) = Len(emitted[m]) + 1
      /\ \A i \in 1 .. Len(emitted[m]) : emitted'[m][i] = emitted[m][i]
      /\ emitted'[m][Len(emitted[m]) + 1] = e
      /\ emitted'[m] # <<>>
  <2>1. Append(emitted[m], e) # <<>>
    BY <1>3, <1>4, AppendIs
  <2> QED
    BY <1>3, <1>4, <1>5, <2>1, AppendIs
<1>9. ABeginning(shown[m], Append(emitted[m], e))
  BY <1>3, <1>4 DEF ABeginning
<1>10. ShownInOrder'
  BY <1>5, <1>9 DEF StreamInv, ShownInOrder, widget
<1>11. OnTheWay'
  <2>1. CASE reading = m
    <3>1. TheRest(buffer \o wire, emitted[m], shown[m])
      BY <2>1 DEF StreamInv, OnTheWay
    <3>2. TheRest(buffer \o wire', emitted'[m], shown[m])
      BY <1>2, <1>3, <1>4, <1>5, <2>1, <3>1, WriteAtTheEnd
    <3> QED
      BY <2>1, <3>2 DEF OnTheWay, widget
  <2>2. CASE reading # m
    BY <1>2, <1>5, <2>2 DEF StreamInv, OnTheWay, widget
  <2> QED
    BY <2>1, <2>2
<1> QED
  BY <1>4, <1>5, <1>6, <1>7, <1>8, <1>10, <1>11

(* The server writes an event of a turn, which then is in the state turn.  *)
Writes(m, type, turn) ==
  /\ Write(m, type)
  /\ UNCHANGED <<widget, crashes>>
  /\ Running(m) /\ serve' = [serve EXCEPT ![m] = turn]
  /\ turn.step \in {"streaming", "over"} /\ turn.conversation # Nothing
  /\ turn.conversation = serve[m].conversation \/ serve[m].conversation = Nothing
  /\ emitted[m] = <<>> => type = "conversation"
  /\ Len(emitted[m]) <= IF turn.step = "streaming" THEN MaxEvents ELSE MaxEvents + 1
  /\ closed' = closed \/ (closed' = TRUE /\ reading = m /\ type \in {"done", "error"})

(* An event is written.                                                    *)
LEMMA WritesKeepsStream ==
  ASSUME StreamInv, NEW m \in Message, NEW type \in Types, NEW turn \in TurnState,
         Writes(m, type, turn)
  PROVE  StreamInv'
<1>a. /\ Write(m, type) /\ UNCHANGED <<widget, crashes>>
      /\ Running(m) /\ serve' = [serve EXCEPT ![m] = turn]
      /\ turn.step \in {"streaming", "over"} /\ turn.conversation # Nothing
      /\ (emitted[m] = <<>> => type = "conversation")
      /\ closed' \in BOOLEAN
  BY DEF Writes, StreamInv, TypeOK
<1>1. Len(emitted[m]) <= MaxEvents + 1 /\ Len(emitted[m]) \in Nat
      /\ (turn.step = "streaming" => Len(emitted[m]) <= MaxEvents)
  BY BoundsAssumption DEF Writes, StreamInv, TypeOK
<1>2. /\ emitted' \in [Message -> Seq(Event)] /\ wire' \in Seq(Part)
      /\ \A n \in Message : n # m => emitted'[n] = emitted[n]
      /\ Len(emitted'[m]) = Len(emitted[m]) + 1
      /\ \A i \in 1 .. Len(emitted[m]) : emitted'[m][i] = emitted[m][i]
      /\ emitted'[m][Len(emitted[m]) + 1].type = type
      /\ emitted'[m] # <<>>
      /\ ShownInOrder' /\ OnTheWay'
  BY <1>a, <1>1, WriteGoesOut
<1>3. serve' \in [Message -> TurnState] /\ serve'[m] = turn
      /\ \A n \in Message : n # m => serve'[n] = serve[n]
  BY <1>a DEF StreamInv, TypeOK
<1>4. TypeOK'
  BY <1>a, <1>2, <1>3 DEF StreamInv, TypeOK, widget
<1>5. PostedOnce'
  <2>1. Posted(m)
    BY <1>a DEF StreamInv, PostedOnce, NoTurn, Running
  <2>2. \A n \in Message : Posted(n)' <=> Posted(n)
    BY <1>a DEF Posted, widget
  <2> QED
    BY <1>a, <1>3, <2>1, <2>2 DEF StreamInv, PostedOnce, widget
<1>6. emitted'[m][1].type = "conversation"
  <2>1. CASE emitted[m] = <<>>
    BY <1>a, <1>2, <2>1
  <2>2. CASE emitted[m] # <<>>
    <3>1. 1 \in 1 .. Len(emitted[m])
      BY <2>2 DEF StreamInv, TypeOK
    <3> QED
      BY <1>2, <2>2, <3>1 DEF StreamInv, EmittedInOrder
  <2> QED
    BY <2>1, <2>2
<1>7. turn.step = "streaming" => Len(emitted'[m]) <= MaxEvents + 1
  BY <1>1, <1>2, BoundsAssumption
<1>8. EmittedInOrder'
  BY <1>a, <1>2, <1>3, <1>6, <1>7 DEF StreamInv, EmittedInOrder
<1> QED
  BY <1>2, <1>4, <1>5, <1>8 DEF StreamInv

(* Turns end that nobody reads, or that nobody has noticed yet.            *)
TurnsStop ==
  /\ UNCHANGED <<widget, wire, closed, emitted>>
  /\ crashes' \in 0 .. MaxCrashes
  /\ serve' \in [Message -> TurnState]
  /\ \A n \in Message :
       serve'[n] = serve[n]
       \/ (Running(n) /\ serve'[n].step = "over" /\ serve'[n].conversation = serve[n].conversation)

(* They end.                                                               *)
LEMMA TurnsStopKeepsStream ==
  ASSUME StreamInv, TurnsStop
  PROVE  StreamInv'
<1>1. UNCHANGED <<posted, reading, known, buffer, shown, apology, failed, wire, closed, emitted>>
  BY DEF TurnsStop, widget
<1>2. TypeOK'
  BY <1>1 DEF TurnsStop, StreamInv, TypeOK
<1>3. \A n \in Message : Posted(n)' <=> Posted(n)
  BY <1>1 DEF Posted
<1>4. PostedOnce'
  BY <1>1, <1>3 DEF TurnsStop, StreamInv, PostedOnce, Running, NoTurn
<1>5. EmittedInOrder'
  BY <1>1 DEF TurnsStop, StreamInv, EmittedInOrder
<1>6. ShownInOrder' /\ OnTheWay'
  BY <1>1 DEF StreamInv, ShownInOrder, OnTheWay
<1> QED
  BY <1>2, <1>4, <1>5, <1>6 DEF StreamInv

(* These are all the steps there are.                                      *)
LEMMA Steps ==
  ASSUME SessionInv, StreamInv, Next
  PROVE  \/ \E m \in Message : Send(m)
         \/ Read
         \/ Done
         \/ \E m \in Message : \E type \in Types : \E turn \in TurnState : Writes(m, type, turn)
         \/ TurnsStop
<1>1. ASSUME EndOfBody PROVE Done
  BY <1>1 DEF EndOfBody, Done, server, StreamInv, TypeOK
<1>2. ASSUME GiveUp, reading \in Message, UNCHANGED <<emitted, crashes>>,
             serve' = serve \/ serve' = [serve EXCEPT ![reading].step = "over"]
      PROVE  Done
  <2>1. buffer' = <<>> /\ wire' = <<>>
    BY <1>2 DEF GiveUp
  <2>2. buffer' \in Seq(Part) /\ Len(buffer') <= 1 /\ wire' \in Seq(Part)
    BY <2>1
  <2> QED
    BY <1>2, <2>2 DEF GiveUp, Done
<1>3. ASSUME Break \/ Reset PROVE Done
  BY <1>2, <1>3 DEF Break, Reset, server, StreamInv, TypeOK
<1>4. ASSUME Crash PROVE TurnsStop
  <2>1. serve' = [m \in Message |->
          IF serve[m].step \in {"posted", "streaming"} THEN [serve[m] EXCEPT !.step = "over"]
          ELSE serve[m]]
    BY <1>4 DEF Crash
  <2>2. \A n \in Message : [serve[n] EXCEPT !.step = "over"] \in TurnState
        /\ [serve[n] EXCEPT !.step = "over"].step = "over"
        /\ [serve[n] EXCEPT !.step = "over"].conversation = serve[n].conversation
    BY DEF StreamInv, TypeOK, TurnState
  <2>3. crashes' \in 0 .. MaxCrashes
    BY <1>4, BoundsAssumption DEF Crash, StreamInv, TypeOK
  <2> QED
    BY <1>4, <2>1, <2>2, <2>3 DEF Crash, TurnsStop, Running, StreamInv, TypeOK
<1>5. ASSUME NEW m \in Message, Refuse(m) PROVE Done \/ TurnsStop
  <2>1. PICK s : s = [serve[m] EXCEPT !.step = "over"]
    OBVIOUS
  <2>2. s \in TurnState /\ s.step = "over" /\ s.conversation = serve[m].conversation
    BY <2>1 DEF StreamInv, TypeOK, TurnState
  <2>3. serve' = [serve EXCEPT ![m].step = "over"] /\ Running(m) /\ UNCHANGED <<emitted, crashes>>
    BY <1>5 DEF Refuse, Running
  <2>4. serve' = [serve EXCEPT ![m] = s]
    BY <2>1, <2>3 DEF StreamInv, TypeOK
  <2>5. CASE reading = m
    BY <1>2, <1>5, <2>3, <2>5 DEF Refuse
  <2>6. CASE reading # m
    BY <1>5, <2>2, <2>3, <2>4, <2>6 DEF Refuse, TurnsStop, StreamInv, TypeOK
  <2> QED
    BY <2>5, <2>6
<1>6. ASSUME NEW m \in Message, Accept(m)
      PROVE  \E type \in Types : \E turn \in TurnState : Writes(m, type, turn)
  <2>1. PICK c : c = IF serve[m].conversation = Nothing THEN m ELSE serve[m].conversation
    OBVIOUS
  <2>2. c \in Message /\ (c = serve[m].conversation \/ serve[m].conversation = Nothing)
    BY <2>1 DEF StreamInv, TypeOK, TurnState
  <2>3. PICK turn : turn = [step |-> "streaming", conversation |-> c]
    OBVIOUS
  <2>4. turn \in TurnState /\ turn.step = "streaming" /\ turn.conversation = c
    BY <2>2, <2>3 DEF TurnState
  <2>5. serve' = [serve EXCEPT ![m] = turn]
    BY <1>6, <2>1, <2>3 DEF Accept, StreamInv, TypeOK
  <2>6. emitted[m] = <<>> /\ Running(m)
    BY <1>6 DEF Accept, Running, StreamInv, EmittedInOrder
  <2>7. "conversation" \in Types /\ Len(emitted[m]) <= MaxEvents
    BY <2>6, BoundsAssumption DEF Types
  <2>8. Writes(m, "conversation", turn)
    BY <1>6, <2>2, <2>4, <2>5, <2>6, <2>7, NothingAssumption DEF Accept, Writes
  <2> QED
    BY <2>4, <2>7, <2>8
<1>7. ASSUME NEW m \in Message, Emit(m)
      PROVE  \E type \in Types : \E turn \in TurnState : Writes(m, type, turn)
  <2>1. PICK type \in {"text", "receipt"} : Write(m, type)
    BY <1>7 DEF Emit
  <2>2. type \in Types
    BY DEF Types
  <2>3. PICK turn : turn = serve[m]
    OBVIOUS
  <2>4. emitted[m] # <<>> /\ serve[m].conversation # Nothing
    BY <1>7 DEF Emit, StreamInv, EmittedInOrder
  <2>5. serve' = [serve EXCEPT ![m] = turn] /\ turn \in TurnState
    BY <1>7, <2>3 DEF Emit, StreamInv, TypeOK
  <2>6. UNCHANGED <<widget, crashes, closed>> /\ turn.step = "streaming" /\ Len(emitted[m]) <= MaxEvents
    BY <1>7, <2>3 DEF Emit
  <2>7. Running(m)
    BY <1>7 DEF Emit, Running
  <2>8. Writes(m, type, turn)
    BY <2>1, <2>3, <2>4, <2>5, <2>6, <2>7 DEF Writes
  <2> QED
    BY <2>2, <2>5, <2>8
<1>8. ASSUME NEW m \in Message, Finish(m)
      PROVE  \E type \in Types : \E turn \in TurnState : Writes(m, type, turn)
  <2>1. PICK type \in {"done", "error"} : Write(m, type)
    BY <1>8 DEF Finish
  <2>2. type \in Types
    BY DEF Types
  <2>3. PICK turn : turn = [serve[m] EXCEPT !.step = "over"]
    OBVIOUS
  <2>4. emitted[m] # <<>> /\ serve[m].conversation # Nothing /\ Len(emitted[m]) <= MaxEvents + 1
    BY <1>8 DEF Finish, StreamInv, EmittedInOrder
  <2>5. turn \in TurnState /\ turn.step = "over" /\ turn.conversation = serve[m].conversation
    BY <2>3 DEF StreamInv, TypeOK, TurnState
  <2>6. serve' = [serve EXCEPT ![m] = turn]
    BY <1>8, <2>3 DEF Finish, StreamInv, TypeOK
  <2>7. UNCHANGED <<widget, crashes>> /\ Running(m) /\ closed' = (reading = m \/ closed)
    BY <1>8 DEF Finish, Running
  <2>8. closed' = closed \/ (closed' = TRUE /\ reading = m /\ type \in {"done", "error"})
    BY <2>7 DEF StreamInv, TypeOK
  <2>9. Writes(m, type, turn)
    BY <2>1, <2>4, <2>5, <2>6, <2>7, <2>8 DEF Writes
  <2> QED
    BY <2>2, <2>5, <2>9
<1> QED
  BY <1>1, <1>3, <1>4, <1>5, <1>6, <1>7, <1>8 DEF Next

(* StreamInv is inductive.                                                 *)
LEMMA StreamStep == SessionInv /\ StreamInv /\ [Next]_vars => StreamInv'
<1>1. StreamInv /\ UNCHANGED vars => StreamInv'
  BY DEF vars, widget, server, StreamInv, TypeOK, PostedOnce, Posted, EmittedInOrder,
         ShownInOrder, OnTheWay
<1>2. SessionInv /\ StreamInv /\ Next => StreamInv'
  BY Steps, SendKeepsStream, ReadKeepsStream, DoneKeepsStream, WritesKeepsStream,
     TurnsStopKeepsStream
<1> QED
  BY <1>1, <1>2

-----------------------------------------------------------------------------
(***************************************************************************)
(* What the widget promises of an answer.                                  *)
(***************************************************************************)

Streams == [m \in Message |-> StreamState(m)]

(* The state of a message's stream.                                        *)
LEMMA StreamStates ==
  ASSUME SessionInv, StreamInv, NEW m \in Message
  PROVE  /\ Streams[m] = StreamState(m)
         /\ StreamState(m) = "new" <=> ~Posted(m)
         /\ m = reading => StreamState(m) = "open"
         /\ m \in failed => StreamState(m) = "failed"
         /\ Running(m) => StreamState(m) \in {"open", "failed"}
<1>1. Streams[m] = StreamState(m) /\ (StreamState(m) = "new" <=> ~Posted(m))
  BY DEF Streams, StreamState, Posted
<1>2. m = reading => Posted(m)
  <2>1. posted \in Seq(Message) /\ (posted # <<>> => Len(posted) \in DOMAIN posted)
    BY DEF StreamInv, TypeOK
  <2> QED
    BY <2>1, NothingAssumption DEF StreamInv, PostedOnce, Posted
<1>3. m \in failed \/ Running(m) => Posted(m)
  BY DEF StreamInv, PostedOnce, Running, NoTurn
<1>4. m \in failed => m # reading
  BY DEF StreamInv, PostedOnce
<1>5. Running(m) => m = reading \/ m \in failed
  BY DEF SessionInv, RunsAreKnown
<1> QED
  BY <1>1, <1>2, <1>3, <1>4, <1>5 DEF StreamState, Posted

(* The first state.                                                        *)
LEMMA StreamInit == Init => Stream!Init
BY DEF Init, Stream!Init, StreamState

(* A step that leaves every other stream as it was.                        *)
OnlyStream(m) == \A n \in Message : n # m => StreamState(n)' = StreamState(n)

(* ... changes the states in one place.                                    *)
LEMMA OneStream ==
  ASSUME NEW m \in Message, OnlyStream(m), NEW to, StreamState(m)' = to
  PROVE  Streams' = [Streams EXCEPT ![m] = to]
BY DEF OnlyStream, Streams

(* Sending opens a stream.                                                 *)
LEMMA SendOpens ==
  ASSUME SessionInv, StreamInv, SessionInv', StreamInv', NEW m \in Message, Send(m)
  PROVE  Stream!Open(m)
<1>1. reading = Nothing /\ reading' = m /\ UNCHANGED <<shown, emitted, failed>> /\ ~Posted(m)
      /\ posted' = Append(posted, m) /\ posted \in Seq(Message)
  BY DEF Send, MaySend, Posted, StreamInv, TypeOK
<1>2. Streams[m] = "new" /\ StreamState(m)' = "open"
  <2>1. (m = reading)' => (StreamState(m) = "open")'
    BY StreamStates, PTL
  <2> QED
    BY <1>1, <2>1, StreamStates
<1>3. OnlyStream(m)
  <2> SUFFICES ASSUME NEW n \in Message, n # m PROVE StreamState(n)' = StreamState(n)
    BY DEF OnlyStream
  <2>1. Posted(n)' <=> Posted(n)
    <3>1. /\ DOMAIN posted = 1 .. Len(posted) /\ Len(posted) \in Nat
          /\ DOMAIN posted' = 1 .. Len(posted) + 1 /\ posted'[Len(posted) + 1] = m
          /\ \A i \in 1 .. Len(posted) : posted'[i] = posted[i]
      BY <1>1
    <3>2. \A i \in 1 .. Len(posted) + 1 : i = Len(posted) + 1 \/ i \in 1 .. Len(posted)
      BY <3>1
    <3>3. \A i \in 1 .. Len(posted) : i \in 1 .. Len(posted) + 1
      BY <3>1
    <3> QED
      BY <3>1, <3>2, <3>3 DEF Posted
  <2>2. n # reading /\ n # reading'
    BY <1>1, NothingAssumption
  <2> QED
    BY <1>1, <2>1, <2>2 DEF StreamState, Posted
<1>4. Streams' = [Streams EXCEPT ![m] = "open"]
  BY <1>2, <1>3, OneStream
<1> QED
  BY <1>1, <1>2, <1>4 DEF Stream!Open, Streams

(* Reading shows the next events, or nothing.                              *)
LEMMA ReadSees ==
  ASSUME SessionInv, StreamInv, StreamInv', Read
  PROVE  (\E m \in Message : Stream!See(m)) \/ UNCHANGED Stream!vars
<1>1. PICK m \in Message : m = reading
  BY DEF Read, StreamInv, TypeOK
<1>2. PICK n \in 1 .. Len(wire) :
        shown' = [shown EXCEPT ![m] = shown[m] \o Frames(buffer \o SubSeq(wire, 1, n))]
  BY <1>1 DEF Read
<1>3. PICK events : events = Frames(buffer \o SubSeq(wire, 1, n))
  OBVIOUS
<1>4. /\ emitted[m] \in Seq(Event) /\ shown[m] \in Seq(Event)
      /\ buffer \in Seq(Part) /\ wire \in Seq(Part)
      /\ ABeginning(shown[m], emitted[m])
      /\ TheRest(buffer \o wire, emitted[m], shown[m])
  BY <1>1 DEF StreamInv, TypeOK, ShownInOrder, OnTheWay
<1>5. events \in Seq(Event) /\ shown[m] \o events \in Seq(Event)
      /\ ABeginning(shown[m] \o events, emitted[m])
  BY <1>3, <1>4, ReadGoesOn
<1>6. UNCHANGED <<posted, reading, failed, emitted>>
  BY DEF Read, server
<1>7. Streams' = Streams
  BY <1>6 DEF Streams, StreamState
<1>8. shown' = [shown EXCEPT ![m] = shown[m] \o events]
  BY <1>2, <1>3
<1>9. CASE events = <<>>
  <2>1. shown[m] \o events = shown[m]
    BY <1>4, <1>9
  <2>2. shown' = shown
    BY <1>8, <2>1 DEF StreamInv, TypeOK
  <2> QED
    BY <1>6, <1>7, <2>2 DEF Stream!vars, Streams
<1>10. CASE events # <<>>
  <2>1. PICK now : now = shown[m] \o events
    OBVIOUS
  <2>2. Len(now) = Len(shown[m]) + Len(events) /\ Len(events) > 0 /\ now \in Seq(Event)
    BY <1>4, <1>5, <1>10, <2>1
  <2>3. Len(now) \in Len(shown[m]) + 1 .. Len(emitted[m]) /\ Len(now) \in Nat
    BY <1>4, <1>5, <2>1, <2>2 DEF ABeginning
  <2>4. now = SubSeq(emitted[m], 1, Len(now))
    BY <1>4, <1>5, <2>1, <2>2, <2>3 DEF ABeginning
  <2>5. shown' = [shown EXCEPT ![m] = SubSeq(emitted[m], 1, Len(now))]
    BY <1>8, <2>1, <2>4
  <2>6. Streams[m] = "open"
    BY <1>1, StreamStates
  <2>7. Stream!See(m)
    BY <1>6, <1>7, <2>3, <2>5, <2>6 DEF Stream!See, Streams
  <2> QED
    BY <2>7
<1> QED
  BY <1>9, <1>10

(* The end of the body: everything has been shown.                         *)
LEMMA NothingIsLeft ==
  ASSUME StreamInv, EndOfBody
  PROVE  shown[reading] = emitted[reading]
<1>1. PICK m \in Message : m = reading
  BY DEF EndOfBody, StreamInv, TypeOK
<1>2. /\ emitted[m] \in Seq(Event) /\ shown[m] \in Seq(Event) /\ buffer \in Seq(Part)
      /\ ABeginning(shown[m], emitted[m]) /\ TheRest(buffer \o wire, emitted[m], shown[m])
      /\ Len(buffer) <= 1
  BY <1>1 DEF StreamInv, TypeOK, ShownInOrder, OnTheWay
<1>3. buffer \o wire = buffer
  BY <1>2 DEF EndOfBody
<1>4. Len(buffer) = 2 * (Len(emitted[m]) - Len(shown[m]))
  BY <1>2, <1>3 DEF TheRest
<1>5. Len(shown[m]) = Len(emitted[m])
  <2>1. Len(buffer) \in Nat /\ Len(emitted[m]) \in Nat /\ Len(shown[m]) \in Nat
        /\ Len(buffer) <= 1 /\ Len(shown[m]) <= Len(emitted[m])
    BY <1>2 DEF ABeginning
  <2>2. \A b, e, s \in Nat : b <= 1 /\ s <= e /\ b = 2 * (e - s) => s = e
    OBVIOUS
  <2> QED
    BY <1>4, <2>1, <2>2
<1>6. shown[m] = emitted[m]
  BY <1>2, <1>5 DEF ABeginning
<1> QED
  BY <1>1, <1>6

(* Being done with an answer ends its stream, or it has failed.            *)
LEMMA DoneCloses ==
  ASSUME SessionInv, StreamInv, Done
  PROVE  \E m \in Message : Stream!End(m) \/ Stream!Fail(m)
<1>1. PICK m \in Message : m = reading
  BY DEF Done
<1>2. reading' = Nothing /\ UNCHANGED <<posted, shown, emitted>>
  BY DEF Done
<1>3. Streams[m] = "open" /\ Posted(m) /\ m \notin failed
  <2>1. StreamState(m) = "open" /\ Streams[m] = "open"
    BY <1>1, StreamStates
  <2> QED
    BY <1>1, <2>1, StreamStates DEF StreamInv, PostedOnce
<1>4. failed' = failed \/ failed' = failed \cup {m}
  BY <1>1 DEF Done, EndOfBody, GiveUp
<1>5. OnlyStream(m)
  BY <1>1, <1>2, <1>4, NothingAssumption DEF OnlyStream, StreamState
<1>6. CASE EndOfBody
  <2>1. failed' = failed /\ shown[m] = emitted[m]
    BY <1>1, <1>6, NothingIsLeft DEF EndOfBody
  <2>2. StreamState(m)' = "whole"
    BY <1>2, <1>3, <2>1, NothingAssumption DEF StreamState, Posted
  <2>3. Streams' = [Streams EXCEPT ![m] = "whole"]
    BY <1>5, <2>2, OneStream
  <2> QED
    BY <1>2, <1>3, <2>1, <2>3 DEF Stream!End, Streams
<1>7. CASE GiveUp
  <2>1. m \in failed'
    BY <1>1, <1>7 DEF GiveUp
  <2>2. StreamState(m)' = "failed"
    BY <1>2, <1>3, <2>1, NothingAssumption DEF StreamState, Posted
  <2>3. Streams' = [Streams EXCEPT ![m] = "failed"]
    BY <1>5, <2>2, OneStream
  <2> QED
    BY <1>2, <1>3, <2>3 DEF Stream!Fail, Streams
<1> QED
  BY <1>6, <1>7 DEF Done

(* The server writes to a stream that is open, or has failed.              *)
LEMMA WritesEmit ==
  ASSUME SessionInv, StreamInv, NEW m \in Message, NEW type \in Types, NEW turn \in TurnState,
         Writes(m, type, turn)
  PROVE  Stream!Emit(m)
<1>1. PICK e : e = [turn |-> m, nr |-> Len(emitted[m]) + 1, type |-> type]
  OBVIOUS
<1>2. e \in Event
  <2>1. Len(emitted[m]) + 1 \in 1 .. MaxEvents + 2
    BY BoundsAssumption DEF Writes, StreamInv, TypeOK
  <2> QED
    BY <1>1, <2>1 DEF Event
<1>3. emitted' = [emitted EXCEPT ![m] = Append(emitted[m], e)]
  BY <1>1 DEF Writes, Write
<1>4. UNCHANGED <<posted, reading, failed, shown>>
  BY DEF Writes, widget
<1>5. Streams' = Streams
  BY <1>4 DEF Streams, StreamState
<1>6. Streams[m] \in {"open", "failed"}
  BY StreamStates DEF Writes
<1> QED
  BY <1>2, <1>3, <1>4, <1>5, <1>6 DEF Stream!Emit, Streams

(* Every step is a step of the stream, or none of its business.            *)
LEMMA StreamNext ==
  ASSUME SessionInv, StreamInv, SessionInv', StreamInv', [Next]_vars
  PROVE  [Stream!Next]_(Stream!vars)
<1>1. CASE UNCHANGED vars
  BY <1>1 DEF vars, widget, server, Stream!vars, StreamState
<1>2. CASE Next
  <2>1. ASSUME NEW m \in Message, Send(m) PROVE Stream!Next
    BY <2>1, SendOpens DEF Stream!Next
  <2>2. ASSUME Read PROVE [Stream!Next]_(Stream!vars)
    BY <2>2, ReadSees DEF Stream!Next
  <2>3. ASSUME Done PROVE Stream!Next
    BY <2>3, DoneCloses DEF Stream!Next
  <2>4. ASSUME NEW m \in Message, NEW type \in Types, NEW turn \in TurnState, Writes(m, type, turn)
        PROVE  Stream!Next
    BY <2>4, WritesEmit DEF Stream!Next
  <2>5. ASSUME TurnsStop PROVE UNCHANGED Stream!vars
    BY <2>5 DEF TurnsStop, widget, Stream!vars, StreamState
  <2> QED
    BY <1>2, <2>1, <2>2, <2>3, <2>4, <2>5, Steps
<1> QED
  BY <1>1, <1>2

-----------------------------------------------------------------------------
(***************************************************************************)
(* What the customer is told, and in which conversation.                   *)
(***************************************************************************)

(* The server closes an answer behind its last event.                      *)
ClosedAfterTheLast ==
  \A m \in Message : m = reading /\ closed =>
    /\ emitted[m] # <<>>
    /\ emitted[m][Len(emitted[m])].type \in {"done", "error"}

(* The widget knows the conversation of every answer it has read to the    *)
(* end; of the one it reads, it knows the conversation or none, and none   *)
(* only as long as it has seen nothing of it.                              *)
KnownFromTheFirst ==
  /\ \A m \in Message : m = reading =>
       /\ known = Nothing \/ serve[m].conversation = known
       /\ shown[m] # <<>> => known # Nothing
  /\ \A m \in Message : Posted(m) /\ m # reading /\ m \notin failed =>
       known # Nothing /\ serve[m].conversation = known

ToldInv ==
  /\ ClosedAfterTheLast
  /\ KnownFromTheFirst
  /\ ConversationsGoOn
  /\ SilenceIsTheServers

(* Sending a message.                                                      *)
LEMMA SendKeepsTold ==
  ASSUME StreamInv, StreamInv', ToldInv, NEW m \in Message, Send(m)
  PROVE  ToldInv'
<1>1. /\ reading = Nothing /\ reading' = m /\ closed' = FALSE
      /\ UNCHANGED <<known, shown, apology, failed, emitted>>
      /\ posted' = Append(posted, m) /\ posted \in Seq(Message) /\ ~Posted(m)
  BY DEF Send, MaySend, Posted, StreamInv, TypeOK
<1>2. serve'[m].conversation = known /\ \A n \in Message : n # m => serve'[n] = serve[n]
  BY DEF Send, StreamInv, TypeOK
<1>3. /\ Len(posted) \in Nat /\ DOMAIN posted = 1 .. Len(posted)
      /\ DOMAIN posted' = 1 .. Len(posted) + 1 /\ posted'[Len(posted) + 1] = m
      /\ \A i \in 1 .. Len(posted) : posted'[i] = posted[i]
  BY <1>1
<1>4. \A i \in 1 .. Len(posted) : posted[i] # m /\ posted[i] \in Message /\ Posted(posted[i])
  BY <1>1, <1>3 DEF Posted
<1>5. shown[m] = <<>>
  <2>1. emitted[m] = <<>>
    BY <1>1 DEF StreamInv, PostedOnce, EmittedInOrder, NoTurn
  <2> QED
    BY <2>1 DEF StreamInv, ShownInOrder, ABeginning, TypeOK
<1>6. ASSUME NEW n \in Message, Posted(n)', n # m PROVE Posted(n)
  <2>1. PICK i \in 1 .. Len(posted) + 1 : posted'[i] = n
    BY <1>3, <1>6 DEF Posted
  <2>2. i \in 1 .. Len(posted)
    BY <1>3, <1>6, <2>1
  <2> QED
    BY <1>3, <2>1, <2>2 DEF Posted
<1>7. KnownFromTheFirst'
  BY <1>1, <1>2, <1>5, <1>6, NothingAssumption DEF ToldInv, KnownFromTheFirst
<1>8. ConversationsGoOn'
  <2> SUFFICES ASSUME NEW i \in 1 .. Len(posted) + 1, NEW j \in 1 .. Len(posted) + 1,
                      i < j, posted'[i] \notin failed
               PROVE  serve'[posted'[j]].conversation = serve'[posted'[i]].conversation
    BY <1>1, <1>3 DEF ConversationsGoOn
  <2>1. i \in 1 .. Len(posted) /\ (j \in 1 .. Len(posted) \/ j = Len(posted) + 1)
    BY <1>3
  <2>2. posted'[i] = posted[i] /\ serve'[posted[i]] = serve[posted[i]]
    BY <1>2, <1>3, <1>4, <2>1
  <2>3. CASE j \in 1 .. Len(posted)
    <3>1. posted'[j] = posted[j] /\ serve'[posted[j]] = serve[posted[j]]
      BY <1>2, <1>3, <1>4, <2>3
    <3> QED
      BY <1>3, <2>1, <2>2, <2>3, <3>1 DEF ToldInv, ConversationsGoOn
  <2>4. CASE j = Len(posted) + 1
    <3>1. posted[i] \in Message /\ Posted(posted[i]) /\ posted[i] # reading
      BY <1>1, <1>4, <2>1, NothingAssumption
    <3>2. serve[posted[i]].conversation = known
      BY <2>2, <3>1 DEF ToldInv, KnownFromTheFirst
    <3> QED
      BY <1>2, <1>3, <2>2, <2>4, <3>2
  <2> QED
    BY <2>1, <2>3, <2>4
<1>9. SilenceIsTheServers'
  <2> SUFFICES ASSUME NEW i \in 1 .. Len(posted) + 1, posted'[i] # m,
                      ~HasText(shown[posted'[i]]), posted'[i] \notin apology
               PROVE  \E k \in DOMAIN shown[posted'[i]] : shown[posted'[i]][k].type = "done"
    BY <1>1, <1>3 DEF SilenceIsTheServers, HasText
  <2>1. i \in 1 .. Len(posted)
    BY <1>3
  <2>2. posted'[i] = posted[i] /\ posted[i] # reading
    BY <1>1, <1>3, <1>4, <2>1, NothingAssumption
  <2> QED
    BY <1>3, <2>1, <2>2 DEF ToldInv, SilenceIsTheServers
<1>10. ClosedAfterTheLast'
  BY <1>1 DEF ClosedAfterTheLast
<1> QED
  BY <1>7, <1>8, <1>9, <1>10 DEF ToldInv

(* Reading.                                                                *)
LEMMA ReadKeepsTold ==
  ASSUME StreamInv, StreamInv', ToldInv, Read
  PROVE  ToldInv'
<1>1. PICK m \in Message : m = reading
  BY DEF Read, StreamInv, TypeOK
<1>2. PICK n \in 1 .. Len(wire) :
        /\ shown' = [shown EXCEPT ![m] = shown[m] \o Frames(buffer \o SubSeq(wire, 1, n))]
        /\ known' = Conversation(Frames(buffer \o SubSeq(wire, 1, n)))
  BY <1>1 DEF Read
<1>3. PICK events : events = Frames(buffer \o SubSeq(wire, 1, n))
  OBVIOUS
<1>4. /\ emitted[m] \in Seq(Event) /\ shown[m] \in Seq(Event)
      /\ buffer \in Seq(Part) /\ wire \in Seq(Part)
      /\ ABeginning(shown[m], emitted[m])
      /\ TheRest(buffer \o wire, emitted[m], shown[m])
  BY <1>1 DEF StreamInv, TypeOK, ShownInOrder, OnTheWay
<1>5. events \in Seq(Event) /\ ABeginning(shown[m] \o events, emitted[m])
      /\ (shown[m] = <<>> /\ events # <<>> => events[1] = emitted[m][1])
  <2>1. events \in Seq(Event) /\ ABeginning(shown[m] \o events, emitted[m])
    BY <1>3, <1>4, ReadGoesOn
  <2>2. ASSUME shown[m] = <<>>, events # <<>> PROVE events[1] = emitted[m][1]
    <3>1. shown[m] \o events = events /\ 1 \in 1 .. Len(events)
      BY <1>4, <2>1, <2>2
    <3> QED
      BY <2>1, <3>1 DEF ABeginning
  <2> QED
    BY <2>1, <2>2
<1>6. UNCHANGED <<posted, reading, failed, emitted, serve, apology, closed>>
  BY DEF Read, server
<1>7. shown'[m] = shown[m] \o events /\ \A k \in Message : k # m => shown'[k] = shown[k]
  BY <1>2, <1>3 DEF StreamInv, TypeOK
<1>8. emitted[m] # <<>> => emitted[m][1].type = "conversation" /\ serve[m].conversation # Nothing
  BY DEF StreamInv, EmittedInOrder
<1>9. known = Nothing \/ serve[m].conversation = known
  BY <1>1 DEF ToldInv, KnownFromTheFirst
<1>10. shown[m] # <<>> => known # Nothing
  BY <1>1 DEF ToldInv, KnownFromTheFirst
<1>11. /\ known' = Nothing \/ serve[m].conversation = known'
       /\ shown'[m] # <<>> => known' # Nothing
       /\ known # Nothing => known' = known
  <2>1. CASE \E i \in DOMAIN events : events[i].type = "conversation"
    <3>1. known' = serve[m].conversation
      BY <1>1, <1>2, <1>3, <2>1 DEF Conversation
    <3>2. Len(events) >= 1
      BY <1>5, <2>1
    <3>3. emitted[m] # <<>>
      BY <1>4, <1>5, <3>2 DEF ABeginning
    <3> QED
      BY <1>8, <1>9, <3>1, <3>3
  <2>2. CASE ~\E i \in DOMAIN events : events[i].type = "conversation"
    <3>1. known' = known
      BY <1>2, <1>3, <2>2 DEF Conversation
    <3>2. CASE shown[m] # <<>>
      BY <1>9, <1>10, <3>1, <3>2
    <3>3. CASE shown[m] = <<>>
      <4>1. events = <<>>
        <5> SUFFICES ASSUME events # <<>> PROVE FALSE
          OBVIOUS
        <5>1. 1 \in 1 .. Len(events) /\ 1 \in DOMAIN events
          BY <1>5
        <5>2. events[1] = emitted[m][1] /\ emitted[m] # <<>>
          BY <1>4, <1>5, <3>3, <5>1 DEF ABeginning
        <5> QED
          BY <1>8, <2>2, <5>1, <5>2
      <4>2. shown'[m] = <<>>
        BY <1>7, <3>3, <4>1
      <4> QED
        BY <1>9, <3>1, <4>2
    <3> QED
      BY <3>2, <3>3
  <2> QED
    BY <2>1, <2>2
<1>12. \A k \in Message : Posted(k)' <=> Posted(k)
  BY <1>6 DEF Posted
<1>13. KnownFromTheFirst'
  BY <1>1, <1>6, <1>11, <1>12 DEF ToldInv, KnownFromTheFirst
<1>14. ConversationsGoOn' /\ ClosedAfterTheLast'
  BY <1>6 DEF ToldInv, ConversationsGoOn, ClosedAfterTheLast
<1>15. SilenceIsTheServers'
  <2> SUFFICES ASSUME NEW i \in DOMAIN posted, posted[i] # m,
                      ~HasText(shown'[posted[i]]), posted[i] \notin apology
               PROVE  \E k \in DOMAIN shown'[posted[i]] : shown'[posted[i]][k].type = "done"
    BY <1>1, <1>6 DEF SilenceIsTheServers, HasText
  <2>1. posted[i] \in Message
    BY DEF StreamInv, TypeOK
  <2>2. shown'[posted[i]] = shown[posted[i]]
    BY <1>7, <2>1
  <2> QED
    BY <1>1, <2>2 DEF ToldInv, SilenceIsTheServers
<1> QED
  BY <1>13, <1>14, <1>15 DEF ToldInv

(* Being done with an answer.                                              *)
LEMMA DoneKeepsTold ==
  ASSUME StreamInv, ToldInv, Done
  PROVE  ToldInv'
<1>1. PICK m \in Message : m = reading
  BY DEF Done
<1>2. reading' = Nothing /\ UNCHANGED <<posted, known, shown, emitted>>
  BY DEF Done
<1>3. \A n \in Message : serve'[n].conversation = serve[n].conversation
  BY DoneLeavesTheTurn
<1>4. failed \subseteq failed' /\ apology \subseteq apology'
      /\ (EndOfBody \/ (m \in failed' /\ (HasText(shown[m]) \/ m \in apology')))
  BY <1>1 DEF Done, EndOfBody, GiveUp
<1>5. \A i \in DOMAIN posted : posted[i] \in Message
  BY DEF StreamInv, TypeOK
<1>6. EndOfBody => /\ shown[m] = emitted[m] /\ shown[m] # <<>>
                   /\ shown[m][Len(shown[m])].type \in {"done", "error"}
  BY <1>1, NothingIsLeft DEF EndOfBody, ToldInv, ClosedAfterTheLast
<1>7. ClosedAfterTheLast'
  BY <1>2, NothingAssumption DEF ClosedAfterTheLast
<1>8. KnownFromTheFirst'
  <2>1. \A n \in Message : Posted(n)' <=> Posted(n)
    BY <1>2 DEF Posted
  <2>2. ASSUME NEW n \in Message, Posted(n), n \notin failed'
        PROVE  known # Nothing /\ serve[n].conversation = known
    <3>1. CASE n # m
      BY <1>1, <1>4, <2>2, <3>1 DEF ToldInv, KnownFromTheFirst
    <3>2. CASE n = m
      BY <1>1, <1>4, <1>6, <2>2, <3>2 DEF ToldInv, KnownFromTheFirst
    <3> QED
      BY <3>1, <3>2
  <2> QED
    BY <1>2, <1>3, <2>1, <2>2, NothingAssumption DEF KnownFromTheFirst
<1>9. ConversationsGoOn'
  BY <1>2, <1>3, <1>4, <1>5 DEF ToldInv, ConversationsGoOn
<1>10. SilenceIsTheServers'
  <2> SUFFICES ASSUME NEW i \in DOMAIN posted, ~HasText(shown[posted[i]]), posted[i] \notin apology'
               PROVE  \E k \in DOMAIN shown[posted[i]] : shown[posted[i]][k].type = "done"
    BY <1>2 DEF SilenceIsTheServers, HasText
  <2>1. CASE posted[i] # m
    BY <1>1, <1>4, <2>1 DEF ToldInv, SilenceIsTheServers
  <2>2. CASE posted[i] = m
    <3>1. EndOfBody
      BY <1>4, <2>2
    <3>2. shown[m] \in Seq(Event)
      BY DEF StreamInv, TypeOK
    <3>3. Len(shown[m]) \in DOMAIN shown[m]
      BY <1>6, <3>1, <3>2
    <3>4. shown[m][Len(shown[m])].type # "error"
      BY <2>2, <3>3 DEF HasText
    <3> QED
      BY <1>6, <2>2, <3>1, <3>3, <3>4
  <2> QED
    BY <2>1, <2>2
<1> QED
  BY <1>7, <1>8, <1>9, <1>10 DEF ToldInv

(* An event is written.                                                    *)
LEMMA WritesKeepTold ==
  ASSUME SessionInv, StreamInv, ToldInv, NEW m \in Message, NEW type \in Types,
         NEW turn \in TurnState, Writes(m, type, turn)
  PROVE  ToldInv'
<1>1. UNCHANGED <<posted, reading, known, shown, apology, failed>> /\ Running(m)
  BY DEF Writes, widget
<1>2. /\ \A n \in Message : n # m => serve'[n] = serve[n]
      /\ (serve[m].conversation # Nothing => serve'[m].conversation = serve[m].conversation)
  BY DEF Writes, StreamInv, TypeOK
<1>3. /\ \A n \in Message : n # m => emitted'[n] = emitted[n]
      /\ emitted'[m] # <<>> /\ Len(emitted'[m]) = Len(emitted[m]) + 1
      /\ emitted'[m][Len(emitted[m]) + 1].type = type
  <2>1. Len(emitted[m]) <= MaxEvents + 1
    BY BoundsAssumption DEF Writes, StreamInv, TypeOK
  <2> QED
    BY <2>1, WriteGoesOut DEF Writes
<1>4. m = reading \/ m \in failed
  BY <1>1 DEF SessionInv, RunsAreKnown
<1>5. ClosedAfterTheLast'
  <2> SUFFICES ASSUME NEW n \in Message, n = reading, closed'
               PROVE  emitted'[n] # <<>> /\ emitted'[n][Len(emitted'[n])].type \in {"done", "error"}
    BY <1>1 DEF ClosedAfterTheLast
  <2>1. CASE closed
    <3>1. n # m
      BY <1>1, <2>1 DEF SessionInv, EndsWithItsTurn
    <3> QED
      BY <1>3, <2>1, <3>1 DEF ToldInv, ClosedAfterTheLast
  <2>2. CASE ~closed
    <3>1. n = m /\ type \in {"done", "error"}
      BY <2>2 DEF Writes
    <3> QED
      BY <1>3, <3>1
  <2> QED
    BY <2>1, <2>2
<1>6. KnownFromTheFirst'
  <2>1. \A n \in Message : Posted(n)' <=> Posted(n)
    BY <1>1 DEF Posted
  <2>2. ASSUME NEW n \in Message, n = reading
        PROVE  known = Nothing \/ serve'[n].conversation = known
    BY <1>2, <2>2 DEF ToldInv, KnownFromTheFirst
  <2>3. ASSUME NEW n \in Message, Posted(n), n # reading, n \notin failed
        PROVE  known # Nothing /\ serve'[n].conversation = known
    BY <1>2, <1>4, <2>3 DEF ToldInv, KnownFromTheFirst
  <2>4. \A n \in Message : n = reading => (shown[n] # <<>> => known # Nothing)
    BY DEF ToldInv, KnownFromTheFirst
  <2> QED
    BY <1>1, <2>1, <2>2, <2>3, <2>4 DEF KnownFromTheFirst
<1>7. ConversationsGoOn'
  <2> SUFFICES ASSUME NEW i \in DOMAIN posted, NEW j \in DOMAIN posted, i < j, posted[i] \notin failed
               PROVE  serve'[posted[j]].conversation = serve'[posted[i]].conversation
    BY <1>1 DEF ConversationsGoOn
  <2>1. posted \in Seq(Message)
    BY DEF StreamInv, TypeOK
  <2>2. posted[i] \in Message /\ posted[j] \in Message /\ Posted(posted[i])
    BY <2>1 DEF Posted
  <2>3. posted[i] # reading
    <3>1. Len(posted) \in DOMAIN posted /\ i # Len(posted)
      BY <2>1
    <3> QED
      BY <2>2, <3>1, NothingAssumption DEF StreamInv, PostedOnce
  <2>4. serve[posted[i]].conversation # Nothing
    BY <2>2, <2>3 DEF ToldInv, KnownFromTheFirst
  <2>5. serve[posted[j]].conversation = serve[posted[i]].conversation
    BY DEF ToldInv, ConversationsGoOn
  <2>6. ASSUME NEW n \in Message, serve[n].conversation # Nothing
        PROVE  serve'[n].conversation = serve[n].conversation
    BY <1>2, <2>6
  <2> QED
    BY <2>2, <2>4, <2>5, <2>6
<1>8. SilenceIsTheServers'
  BY <1>1 DEF ToldInv, SilenceIsTheServers, HasText
<1> QED
  BY <1>5, <1>6, <1>7, <1>8 DEF ToldInv

(* Turns end.                                                              *)
LEMMA TurnsStopKeepsTold ==
  ASSUME StreamInv, ToldInv, TurnsStop
  PROVE  ToldInv'
<1>1. UNCHANGED <<posted, reading, known, shown, apology, failed, closed, emitted>>
  BY DEF TurnsStop, widget
<1>2. \A n \in Message : serve'[n].conversation = serve[n].conversation
  BY DEF TurnsStop
<1>3. \A n \in Message : Posted(n)' <=> Posted(n)
  BY <1>1 DEF Posted
<1>4. \A i \in DOMAIN posted : posted[i] \in Message
  BY DEF StreamInv, TypeOK
<1>5. KnownFromTheFirst'
  BY <1>1, <1>2, <1>3 DEF ToldInv, KnownFromTheFirst
<1>6. ConversationsGoOn'
  BY <1>1, <1>2, <1>4 DEF ToldInv, ConversationsGoOn
<1>7. ClosedAfterTheLast' /\ SilenceIsTheServers'
  BY <1>1 DEF ToldInv, ClosedAfterTheLast, SilenceIsTheServers, HasText
<1> QED
  BY <1>5, <1>6, <1>7 DEF ToldInv

(* ToldInv is inductive.                                                   *)
LEMMA ToldStep ==
  SessionInv /\ StreamInv /\ StreamInv' /\ ToldInv /\ [Next]_vars => ToldInv'
<1>1. ToldInv /\ UNCHANGED vars => ToldInv'
  BY DEF vars, widget, server, ToldInv, ClosedAfterTheLast, KnownFromTheFirst, Posted,
         ConversationsGoOn, SilenceIsTheServers, HasText
<1>2. SessionInv /\ StreamInv /\ StreamInv' /\ ToldInv /\ Next => ToldInv'
  BY Steps, SendKeepsTold, ReadKeepsTold, DoneKeepsTold, WritesKeepTold, TurnsStopKeepsTold
<1> QED
  BY <1>1, <1>2

-----------------------------------------------------------------------------
(* However the answers are cut into reads and whatever breaks, what is     *)
(* shown is a beginning of what was sent, and the rest is on its way.      *)
THEOREM StreamSafety == Spec => []StreamInv
<1>1. Init => StreamInv
  <2> SUFFICES ASSUME Init PROVE StreamInv
    OBVIOUS
  <2>1. NoTurn \in TurnState
    BY DEF NoTurn, TurnState
  <2>2. TypeOK
    <3>1. posted \in Seq(Message) /\ buffer \in Seq(Part) /\ Len(buffer) <= 1 /\ wire \in Seq(Part)
      BY DEF Init
    <3>2. shown \in [Message -> Seq(Event)] /\ emitted \in [Message -> Seq(Event)]
      BY DEF Init
    <3>3. serve \in [Message -> TurnState] /\ crashes \in 0 .. MaxCrashes
      BY <2>1, BoundsAssumption DEF Init
    <3> QED
      BY <3>1, <3>2, <3>3 DEF Init, TypeOK
  <2>3. PostedOnce
    BY DEF Init, PostedOnce
  <2>4. EmittedInOrder
    BY DEF Init, EmittedInOrder, NoTurn
  <2>5. ShownInOrder
    BY DEF Init, ShownInOrder, ABeginning
  <2>6. OnTheWay
    BY NothingAssumption DEF Init, OnTheWay
  <2> QED
    BY <2>2, <2>3, <2>4, <2>5, <2>6 DEF StreamInv
<1> QED
  BY <1>1, SessionSafety, StreamStep, PTL DEF Spec

(* Events have the numbers and the widget keeps the parts they can have:   *)
(* TypeOK, with at most one part of a frame in the buffer.                 *)
THEOREM SessionTypes == Spec => []TypeOK
<1>1. StreamInv => TypeOK
  BY DEF StreamInv
<1> QED
  BY <1>1, StreamSafety, PTL

(* The customer sees the events of the very answer, in order and once, and *)
(* all of them unless its stream failed: the session implements the stream *)
(* the widget promises.                                                    *)
THEOREM StreamRefinement == Spec => ImplementsStream
  BY StreamInit, StreamNext, SessionSafety, StreamSafety, PTL
     DEF Spec, ImplementsStream, Stream!Spec

(* ToldInv holds.                                                          *)
THEOREM ToldSafety == Spec => []ToldInv
<1>1. Init => ToldInv
  BY NothingAssumption DEF Init, ToldInv, ClosedAfterTheLast, KnownFromTheFirst, Posted,
     ConversationsGoOn, SilenceIsTheServers
<1> QED
  BY <1>1, SessionSafety, StreamSafety, ToldStep, PTL DEF Spec

(* After an answer whose stream did not fail, every message goes into its  *)
(* conversation.                                                           *)
THEOREM OneConversation == Spec => []ConversationsGoOn
<1>1. ToldInv => ConversationsGoOn
  BY DEF ToldInv
<1> QED
  BY <1>1, ToldSafety, PTL

(* An answer without a word is one the server ended without a word.        *)
THEOREM NoSilentFailures == Spec => []SilenceIsTheServers
<1>1. ToldInv => SilenceIsTheServers
  BY DEF ToldInv
<1> QED
  BY <1>1, ToldSafety, PTL

-----------------------------------------------------------------------------
(* What the widget may still have to do before it is done with the answer  *)
(* to m: for every event that may come, one for the server and one for     *)
(* each part, and one for each part that is on its way.                    *)
ToWrite(m) == IF Running(m) THEN MaxEvents + 2 - Len(emitted[m]) ELSE 0
AnswerLeft(m) == 3 * ToWrite(m) + Len(wire)

AnswersAreBounded ==
  \A m \in Message : reading = m => AnswerLeft(m) \in 0 .. 3 * (MaxEvents + 2)

AnswersRunDown ==
  [][\A m \in Message : reading = m /\ reading' = m =>
       \/ AnswerLeft(m)' < AnswerLeft(m)
       \/ UNCHANGED <<widget, wire, closed, serve[m], emitted[m]>>]_vars

(* There is an event to write as long as a turn runs.                      *)
LEMMA ToWriteIs ==
  ASSUME StreamInv, NEW m \in Message
  PROVE  /\ ToWrite(m) \in 0 .. MaxEvents + 2 /\ Len(wire) \in Nat /\ MaxEvents \in Nat
         /\ Len(emitted[m]) \in Nat
         /\ Running(m) => ToWrite(m) = MaxEvents + 2 - Len(emitted[m]) /\ ToWrite(m) > 0
         /\ ~Running(m) => ToWrite(m) = 0
<1>1. Len(emitted[m]) \in Nat /\ Len(wire) \in Nat /\ MaxEvents \in Nat
  BY BoundsAssumption DEF StreamInv, TypeOK
<1>2. emitted[m] = <<>> => Len(emitted[m]) = 0
  OBVIOUS
<1>3. Running(m) => Len(emitted[m]) <= MaxEvents + 1
  BY <1>1, <1>2 DEF StreamInv, EmittedInOrder, Running
<1>4. PICK n \in Nat : n = Len(emitted[m])
  BY <1>1
<1>5. CASE Running(m)
  <2>1. n <= MaxEvents + 1 /\ ToWrite(m) = MaxEvents + 2 - n
    BY <1>3, <1>4, <1>5 DEF ToWrite
  <2>2. MaxEvents + 2 - n \in 0 .. MaxEvents + 2 /\ MaxEvents + 2 - n > 0
    BY <1>1, <2>1
  <2> QED
    BY <1>1, <1>4, <1>5, <2>1, <2>2
<1>6. CASE ~Running(m)
  <2>1. ToWrite(m) = 0 /\ 0 \in 0 .. MaxEvents + 2
    BY <1>1, <1>6 DEF ToWrite
  <2> QED
    BY <1>1, <1>6, <2>1
<1> QED
  BY <1>5, <1>6

(* A step with the widget at the same answer.                              *)
LEMMA AnswerRunsDown ==
  ASSUME SessionInv, StreamInv, Next, NEW m \in Message, reading = m, reading' = m
  PROVE  \/ AnswerLeft(m)' < AnswerLeft(m) /\ AnswerLeft(m)' \in Nat
         \/ UNCHANGED <<widget, wire, closed, serve[m], emitted[m]>>
<1>1. /\ ToWrite(m) \in 0 .. MaxEvents + 2 /\ Len(wire) \in Nat /\ MaxEvents \in Nat
      /\ Len(emitted[m]) \in Nat
      /\ Running(m) => ToWrite(m) = MaxEvents + 2 - Len(emitted[m]) /\ ToWrite(m) > 0
      /\ AnswerLeft(m) = 3 * ToWrite(m) + Len(wire)
  BY ToWriteIs DEF AnswerLeft
<1>2. reading # Nothing
  BY NothingAssumption
<1>3. ASSUME NEW n \in Message PROVE ~Send(n)
  BY <1>2 DEF Send, MaySend
<1>4. ~Done
  BY <1>2 DEF Done
<1>5. CASE Read
  <2>1. PICK n \in 1 .. Len(wire) : wire' = SubSeq(wire, n + 1, Len(wire))
    BY <1>5 DEF Read
  <2>2. Len(wire') < Len(wire) /\ Len(wire') \in Nat
    <3>1. wire \in Seq(Part)
      BY DEF StreamInv, TypeOK
    <3> QED
      BY <2>1, <3>1
  <2>3. ToWrite(m)' = ToWrite(m)
    BY <1>5 DEF Read, server, ToWrite, Running
  <2> QED
    BY <1>1, <2>2, <2>3 DEF AnswerLeft
<1>6. ASSUME NEW n \in Message, NEW type \in Types, NEW turn \in TurnState, Writes(n, type, turn)
      PROVE  \/ AnswerLeft(m)' < AnswerLeft(m) /\ AnswerLeft(m)' \in Nat
             \/ UNCHANGED <<widget, wire, closed, serve[m], emitted[m]>>
  <2>1. CASE n # m
    BY <1>6, <2>1 DEF Writes, Write, StreamInv, TypeOK
  <2>2. CASE n = m
    <3>1. /\ Running(m) /\ serve'[m] = turn /\ turn.step \in {"streaming", "over"}
          /\ turn.step = "streaming" => Len(emitted[m]) <= MaxEvents
      <4>1. serve' = [serve EXCEPT ![m] = turn] /\ serve \in [Message -> TurnState]
        BY <1>6, <2>2 DEF Writes, StreamInv, TypeOK
      <4> QED
        BY <1>6, <2>2, <4>1 DEF Writes
    <3>2. PICK e : e = [turn |-> m, nr |-> Len(emitted[m]) + 1, type |-> type]
      OBVIOUS
    <3>3. /\ emitted' = [emitted EXCEPT ![m] = Append(emitted[m], e)]
          /\ wire' = wire \o <<PartOf(e, 1), PartOf(e, 2)>>
      BY <1>6, <2>2, <3>2 DEF Writes, Write, PartOf
    <3>4. Len(emitted'[m]) = Len(emitted[m]) + 1
      BY <3>3 DEF StreamInv, TypeOK
    <3>5. Len(wire') = Len(wire) + 2
      <4>1. PICK p, q : p = PartOf(e, 1) /\ q = PartOf(e, 2)
        OBVIOUS
      <4>2. wire \in Seq(Part) /\ wire' = wire \o <<p, q>>
        BY <3>3, <4>1 DEF StreamInv, TypeOK
      <4>3. wire \in Seq(Part \cup {p, q}) /\ <<p, q>> \in Seq(Part \cup {p, q})
        BY <4>2
      <4> QED
        BY <4>2, <4>3
    <3>6. /\ turn.step = "streaming" => ToWrite(m)' = MaxEvents + 2 - (Len(emitted[m]) + 1)
          /\ turn.step = "over" => ToWrite(m)' = 0
      BY <3>1, <3>4 DEF ToWrite, Running
    <3>7. PICK n0 \in Nat, w0 \in Nat, max \in Nat :
            n0 = Len(emitted[m]) /\ w0 = ToWrite(m) /\ max = MaxEvents
      BY <1>1
    <3>8. /\ w0 = max + 2 - n0 /\ w0 > 0
          /\ turn.step = "streaming" => n0 <= max /\ ToWrite(m)' = max + 2 - (n0 + 1)
          /\ turn.step = "over" => ToWrite(m)' = 0
      BY <1>1, <3>1, <3>6, <3>7
    <3>9. PICK l \in Nat, w1 \in Nat : l = Len(wire) /\ w1 = ToWrite(m)' /\ w1 < w0
      <4>1. ToWrite(m)' \in Nat /\ ToWrite(m)' < w0
        <5>1. CASE turn.step = "streaming"
          <6>1. /\ w0 = max + 2 - n0 /\ n0 <= max /\ ToWrite(m)' = max + 2 - (n0 + 1)
            BY <3>8, <5>1
          <6>2. max + 2 - (n0 + 1) \in Nat /\ max + 2 - (n0 + 1) < max + 2 - n0
            BY <6>1
          <6> QED
            BY <6>1, <6>2
        <5>2. CASE turn.step = "over"
          BY <3>8, <5>2
        <5> QED
          BY <3>1, <5>1, <5>2
      <4>2. Len(wire) \in Nat
        BY <1>1
      <4> QED
        BY <4>1, <4>2
    <3>10. AnswerLeft(m) = 3 * w0 + l /\ AnswerLeft(m)' = 3 * w1 + (l + 2)
      BY <3>5, <3>7, <3>9 DEF AnswerLeft
    <3>11. 3 * w1 + (l + 2) < 3 * w0 + l /\ 3 * w1 + (l + 2) \in Nat
      BY <3>9
    <3> QED
      BY <3>10, <3>11
  <2> QED
    BY <2>1, <2>2
<1>7. CASE TurnsStop
  <2>1. CASE serve'[m] = serve[m]
    BY <1>7, <2>1 DEF TurnsStop
  <2>2. CASE Running(m) /\ serve'[m].step = "over"
    <3>1. ToWrite(m)' = 0 /\ wire' = wire
      BY <1>7, <2>2 DEF TurnsStop, ToWrite, Running
    <3>2. PICK w0 \in Nat, l \in Nat : w0 = ToWrite(m) /\ l = Len(wire)
      BY <1>1
    <3>3. AnswerLeft(m) = 3 * w0 + l /\ AnswerLeft(m)' = 3 * 0 + l
      BY <3>1, <3>2 DEF AnswerLeft
    <3>4. w0 > 0
      BY <1>1, <2>2, <3>2
    <3>5. l < 3 * w0 + l /\ 3 * 0 + l = l
      BY <3>4
    <3> QED
      BY <3>2, <3>3, <3>5
  <2> QED
    BY <1>7, <2>1, <2>2 DEF TurnsStop
<1> QED
  BY <1>3, <1>4, <1>5, <1>6, <1>7, Steps

(* Sending a message begins its answer.                                    *)
LEMMA AnswerBegins ==
  ASSUME StreamInv, NEW m \in Message, reading # m, reading' = m, Next
  PROVE  AnswerLeft(m)' = 3 * (MaxEvents + 2)
<1>1. Send(m)
  <2>1. reading' # reading /\ reading' # Nothing
    BY NothingAssumption
  <2>2. ASSUME NEW n \in Message, Send(n) PROVE Send(m)
    BY <2>2 DEF Send
  <2> QED
    BY <2>1, <2>2 DEF Next, Read, EndOfBody, Break, Reset, Crash, Accept, Refuse, Emit, Finish,
       GiveUp, widget
<1>2. serve'[m].step = "posted" /\ wire' = <<>> /\ emitted' = emitted
  BY <1>1 DEF Send, StreamInv, TypeOK
<1>3. serve[m] = NoTurn
  BY <1>1 DEF Send, MaySend, Posted, StreamInv, PostedOnce
<1>4. emitted[m] = <<>>
  BY <1>3 DEF NoTurn, StreamInv, EmittedInOrder
<1>5. Len(wire') = 0 /\ Len(emitted'[m]) = 0
  <2>1. Len(<<>>) = 0
    OBVIOUS
  <2> QED
    BY <1>2, <1>4, <2>1
<1>6. ToWrite(m)' = MaxEvents + 2
  BY <1>2, <1>5, BoundsAssumption DEF ToWrite, Running
<1> QED
  BY <1>5, <1>6, BoundsAssumption DEF AnswerLeft

(* An answer takes at most 3 * (MaxEvents + 2) steps, and one more to see  *)
(* that it has ended.                                                      *)
THEOREM AnswersStayBounded == Spec => []AnswersAreBounded
<1>1. Init => AnswersAreBounded
  BY NothingAssumption DEF Init, AnswersAreBounded
<1>2. SessionInv /\ StreamInv /\ AnswersAreBounded /\ [Next]_vars => AnswersAreBounded'
  <2> SUFFICES ASSUME SessionInv, StreamInv, AnswersAreBounded, [Next]_vars,
                      NEW m \in Message, reading' = m
               PROVE  AnswerLeft(m)' \in 0 .. 3 * (MaxEvents + 2)
    BY DEF AnswersAreBounded
  <2>1. CASE UNCHANGED <<reading, wire, serve, emitted>>
    <3>1. AnswerLeft(m)' = AnswerLeft(m) /\ reading = m
      BY <2>1 DEF AnswerLeft, ToWrite, Running
    <3> QED
      BY <3>1 DEF AnswersAreBounded
  <2>2. CASE Next /\ reading # m
    BY <2>2, AnswerBegins, BoundsAssumption
  <2>3. CASE Next /\ reading = m
    <3>1. AnswerLeft(m) \in 0 .. 3 * (MaxEvents + 2)
      BY <2>3 DEF AnswersAreBounded
    <3>2. CASE AnswerLeft(m)' < AnswerLeft(m) /\ AnswerLeft(m)' \in Nat
      BY <3>1, <3>2, BoundsAssumption
    <3>3. CASE UNCHANGED <<widget, wire, closed, serve[m], emitted[m]>>
      <4>1. AnswerLeft(m)' = AnswerLeft(m)
        BY <3>3 DEF AnswerLeft, ToWrite, Running
      <4> QED
        BY <3>1, <4>1
    <3> QED
      BY <2>3, <3>2, <3>3, AnswerRunsDown
  <2> QED
    BY <2>1, <2>2, <2>3 DEF vars, widget, server
<1> QED
  BY <1>1, <1>2, SessionSafety, StreamSafety, PTL DEF Spec

(* As long as the widget is busy with an answer, every step that has to do *)
(* with it brings it nearer to its end, and no other turn, crash or broken *)
(* stream puts it off.                                                     *)
THEOREM EveryStepAnswers == Spec => AnswersRunDown
<1>1. SessionInv /\ StreamInv /\ [Next]_vars =>
        [\A m \in Message : reading = m /\ reading' = m =>
           \/ AnswerLeft(m)' < AnswerLeft(m)
           \/ UNCHANGED <<widget, wire, closed, serve[m], emitted[m]>>]_vars
  BY AnswerRunsDown
<1> QED
  BY <1>1, SessionSafety, StreamSafety, PTL DEF Spec, AnswersRunDown
=============================================================================
