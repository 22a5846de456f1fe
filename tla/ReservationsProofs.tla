-------------------------- MODULE ReservationsProofs --------------------------
(***************************************************************************)
(* Theorems of Reservations, for every finite inventory, every set of      *)
(* customers, every number of retries, crashes and late requests, and      *)
(* whatever diamonds and hold numbers the model passes to the tools:       *)
(*                                                                         *)
(*   MirrorSafety         the inductive invariant ResInv                   *)
(*   ReservationsTyping, MirrorsReceipts, ReleasesInErpFirst,              *)
(*   MirrorAgrees, CommitsVerified          its consequences               *)
(*   ChatbotKeepsLedger   the ERP the chatbot drives keeps its promises    *)
(*   SettlesOnce, EndsByRequest             the action properties          *)
(*   CallsStayShort, EveryStepReturns       how many steps a call has left *)
(*                                                                         *)
(* The argument: a hold number, once drawn, is never drawn again, so that  *)
(* whoever has learnt what it stands for cannot be contradicted (Agrees),  *)
(* and a hold that has ended has ended for good (Gone).  Rows, receipts    *)
(* and calls under way all know of a hold in this way; a release need not, *)
(* for all it learns is that the number it named is gone.                  *)
(* A call checks one diamond of its own after the other and never one      *)
(* twice, each in a bounded number of attempts, so that every step it      *)
(* takes is one of a number fixed when it begins.                          *)
(***************************************************************************)
EXTENDS Reservations, DealerErpProofs, FiniteSetTheorems

-----------------------------------------------------------------------------
(* What is said of a hold number is either what the ERP says of it or      *)
(* nothing the ERP can contradict any more: the number has been drawn, and *)
(* no hold with it will be made again.                                     *)
Agrees(n, d, c) ==
  /\ n \in Nat /\ n < sequence
  /\ \A h \in holds : h.id = n => h.diamond = d /\ h.by = c

Gone(n) == n \in Nat /\ n < sequence /\ \A h \in holds : h.id # n

Mirrored(n, d, c) == \E r \in records : r.hold = n /\ r.diamond = d /\ r.by = c

(* A tool call k of customer c and its ERP request a.                      *)
CallIsSound(c, k, a) ==
  /\ k.step # "asking" => a.op = "none"
  /\ k.name = "hold_diamond" => \E d \in Diamond : k.diamonds = {d}
  /\ k.name = "place_order" => k.diamonds # {}
  /\ a.op = "availability" => k.name \in {"hold_diamond", "place_order"}
  /\ a.op = "hold" => k.name = "hold_diamond"
  /\ a.op = "order" => k.name = "place_order"
  /\ a.op \in {"hold", "order"} => a.diamonds = k.diamonds /\ a.diamonds \subseteq k.verified

(* What the call knows of its hold.                                        *)
CallIsRight(c, k, a) ==
  /\ a.op = "release" => a.hold = k.hold
  /\ a.op = "release" /\ a.verdict = "accepted" => Gone(a.hold)
  /\ a.op = "hold" /\ a.verdict = "accepted" => \A d \in a.diamonds : Agrees(a.id, d, c)
  /\ k.step \in {"saving", "scheduling"} => \A d \in k.diamonds : Agrees(k.hold, d, c)
  /\ k.step = "scheduling" => \A d \in k.diamonds : Mirrored(k.hold, d, c)
  /\ k.step = "marking" => Gone(k.hold)

CallsAreSound ==
  \A c \in Customer : CallIsSound(c, call[c], ask[c]) /\ CallIsRight(c, call[c], ask[c])

LateIsRight(m) == m.op = "order" => m.diamonds # {}

RowIsRight(r) ==
  /\ Agrees(r.hold, r.diamond, r.by)
  /\ r.status = "released" => Gone(r.hold)

ResInv ==
  /\ ErpInv
  /\ TypeOK
  /\ CallsAreSound
  /\ \A m \in late : LateIsRight(m)
  /\ \A r \in records : RowIsRight(r)
  /\ \A t \in receipts : Agrees(t.hold, t.diamond, t.by) /\ Mirrored(t.hold, t.diamond, t.by)

-----------------------------------------------------------------------------
(* What a step of the ERP can do to the hold numbers, and one of anybody   *)
(* to the rows.                                                            *)
Grows ==
  /\ sequence \in Nat /\ sequence' \in Nat /\ sequence <= sequence'
  /\ holds' \subseteq HoldRecord
  /\ \A h \in holds' : h \in holds \/ h.id = sequence

KeepsRows ==
  \A r \in records : \E s \in records' : s.hold = r.hold /\ s.diamond = r.diamond /\ s.by = r.by

(* What is known of a hold stays right.                                    *)
LEMMA AgreesStays ==
  ASSUME Grows, NEW n, NEW d, NEW c, Agrees(n, d, c)
  PROVE  Agrees(n, d, c)'
BY DEF Grows, Agrees, HoldRecord

(* A hold that is gone stays gone.                                         *)
LEMMA GoneStays ==
  ASSUME Grows, NEW n, Gone(n)
  PROVE  Gone(n)'
BY DEF Grows, Gone, HoldRecord

(* A mirrored hold stays mirrored.                                         *)
LEMMA MirroredStays ==
  ASSUME KeepsRows, NEW n, NEW d, NEW c, Mirrored(n, d, c)
  PROVE  Mirrored(n, d, c)'
BY DEF KeepsRows, Mirrored

(* What is known of a call stays right.                                    *)
LEMMA CallStaysRight ==
  ASSUME Grows, KeepsRows, NEW c, NEW k, NEW a, CallIsRight(c, k, a)
  PROVE  CallIsRight(c, k, a)'
BY AgreesStays, GoneStays, MirroredStays DEF CallIsRight

(* What a late request must be does not depend on the state.               *)
LEMMA LateStaysRight ==
  ASSUME NEW m, LateIsRight(m)
  PROVE  LateIsRight(m)'
BY DEF LateIsRight

(* What is known of a row stays right.                                     *)
LEMMA RowStaysRight ==
  ASSUME Grows, NEW r, RowIsRight(r)
  PROVE  RowIsRight(r)'
BY AgreesStays, GoneStays DEF RowIsRight

(* A step that leaves the ERP and the rows alone.                          *)
LEMMA ErpAloneGrows ==
  ASSUME ErpInv, UNCHANGED erpVars
  PROVE  Grows /\ ErpInv'
<1>1. Grows
  BY DEF Grows, erpVars, ErpInv, ErpTypeOK
<1>2. ErpInv'
  BY DEF erpVars, ErpInv, ErpTypeOK, ReferencesDrawnOnce, HoldsReserveTheirDiamond, SoldOnce
<1> QED
  BY <1>1, <1>2

(* Rows that stay as they are are kept.                                    *)
LEMMA RowsAloneKept == UNCHANGED records => KeepsRows
  BY DEF KeepsRows

(* A request on its way that is abandoned is right if the call is.         *)
LEMMA AbandonedIsRight ==
  ASSUME ResInv, NEW c \in Customer, NEW m \in OnTheWay(c)
  PROVE  m \in Request /\ LateIsRight(m)
<1>1. /\ m = [op |-> ask[c].op, diamonds |-> ask[c].diamonds, hold |-> ask[c].hold, by |-> c]
      /\ ask[c] \in Ask /\ call[c] \in Call
      /\ CallIsSound(c, call[c], ask[c]) /\ CallIsRight(c, call[c], ask[c])
  BY DEF OnTheWay, ResInv, TypeOK, CallsAreSound
<1>2. m \in Request
  BY <1>1 DEF Ask, Request
<1>3. LateIsRight(m)
  BY <1>1 DEF LateIsRight, CallIsSound
<1> QED
  BY <1>2, <1>3

-----------------------------------------------------------------------------
(* A step of one customer's call that leaves the ERP alone.                *)
LEMMA StepOfCall ==
  ASSUME ResInv, NEW c \in Customer, NEW k \in Call, NEW a \in Ask,
         call' = [call EXCEPT ![c] = k], ask' = [ask EXCEPT ![c] = a],
         CallIsSound(c, k, a), CallIsRight(c, k, a)', KeepsRows,
         records' \subseteq Record, \A r \in records' : RowIsRight(r)',
         receipts' \subseteq Receipt,
         \A t \in receipts' \ receipts :
            Agrees(t.hold, t.diamond, t.by)' /\ Mirrored(t.hold, t.diamond, t.by)',
         \A m \in late' : m \in late \/ \E b \in Customer : m \in OnTheWay(b),
         jobs' \subseteq {"row"} \X Nat,
         UNCHANGED <<erpVars, worker, crashes>>
  PROVE  ResInv'
<1>1. Grows /\ ErpInv'
  BY ErpAloneGrows DEF ResInv
<1>2. TypeOK'
  <2>1. call' \in [Customer -> Call] /\ ask' \in [Customer -> Ask]
    BY DEF ResInv, TypeOK
  <2>2. late' \subseteq Request
    BY AbandonedIsRight DEF ResInv, TypeOK
  <2> QED
    BY <1>1, <2>1, <2>2 DEF ErpInv, ResInv, TypeOK
<1>3. CallsAreSound'
  <2> SUFFICES ASSUME NEW b \in Customer
               PROVE  CallIsSound(b, call[b], ask[b])' /\ CallIsRight(b, call[b], ask[b])'
    BY DEF CallsAreSound
  <2>1. CASE b = c
    <3>1. call'[b] = k /\ ask'[b] = a
      BY <2>1 DEF ResInv, TypeOK
    <3> QED
      BY <2>1, <3>1 DEF CallIsSound, CallIsRight, Agrees, Gone, Mirrored
  <2>2. CASE b # c
    <3>1. call'[b] = call[b] /\ ask'[b] = ask[b]
      BY <2>2 DEF ResInv, TypeOK
    <3>2. CallIsSound(b, call[b], ask[b]) /\ CallIsRight(b, call[b], ask[b])
      BY DEF ResInv, CallsAreSound
    <3>3. PICK x, y : x = call[b] /\ y = ask[b]
      OBVIOUS
    <3>4. CallIsRight(b, x, y)'
      BY <1>1, <3>2, <3>3, CallStaysRight
    <3> QED
      BY <3>1, <3>2, <3>3, <3>4 DEF CallIsSound, CallIsRight, Agrees, Gone, Mirrored
  <2> QED
    BY <2>1, <2>2
<1>4. \A m \in late' : LateIsRight(m)'
  BY <1>1, AbandonedIsRight, LateStaysRight DEF ResInv
<1>5. \A t \in receipts' : Agrees(t.hold, t.diamond, t.by)' /\ Mirrored(t.hold, t.diamond, t.by)'
  BY <1>1, AgreesStays, MirroredStays DEF ResInv
<1> QED
  BY <1>1, <1>2, <1>3, <1>4, <1>5 DEF ResInv

(* ... and that only changes the call and its request.                     *)
LEMMA QuietStep ==
  ASSUME ResInv, NEW c \in Customer, NEW k \in Call, NEW a \in Ask,
         call' = [call EXCEPT ![c] = k], ask' = [ask EXCEPT ![c] = a],
         CallIsSound(c, k, a), CallIsRight(c, k, a),
         \A m \in late' : m \in late \/ \E b \in Customer : m \in OnTheWay(b),
         jobs' \subseteq {"row"} \X Nat,
         UNCHANGED <<erpVars, records, receipts, worker, crashes>>
  PROVE  ResInv'
<1>1. Grows /\ KeepsRows
  BY ErpAloneGrows, RowsAloneKept DEF ResInv
<1>2. CallIsRight(c, k, a)'
  BY <1>1, CallStaysRight
<1>3. records' \subseteq Record /\ receipts' \subseteq Receipt
  BY DEF ResInv, TypeOK
<1>4. \A r \in records' : RowIsRight(r)'
  BY <1>1, RowStaysRight DEF ResInv
<1>5. receipts' \ receipts = {}
  OBVIOUS
<1> QED
  BY <1>1, <1>2, <1>3, <1>4, <1>5, StepOfCall

-----------------------------------------------------------------------------
(* The steps of a call.                                                    *)

(* A customer with nothing under way.                                      *)
LEMMA NothingIsSound ==
  ASSUME NEW c
  PROVE  /\ NoCall \in Call /\ NoAsk \in Ask
         /\ CallIsSound(c, NoCall, NoAsk) /\ CallIsRight(c, NoCall, NoAsk)
BY BoundsAssumption
   DEF NoCall, NoAsk, Call, Ask, Steps, Tools, Operations, Verdicts, CallIsSound, CallIsRight

(* Every call that is under way and its request.                           *)
LEMMA CallIsTyped ==
  ASSUME ResInv, NEW c \in Customer
  PROVE  /\ call[c] \in Call /\ ask[c] \in Ask
         /\ CallIsSound(c, call[c], ask[c]) /\ CallIsRight(c, call[c], ask[c])
BY DEF ResInv, TypeOK, CallsAreSound

(* The first attempt of a request.                                         *)
LEMMA FirstAttemptIsTyped ==
  ASSUME NEW op \in Operations, NEW ds \in SUBSET Diamond, NEW n \in Nat
  PROVE  FirstAttempt(op, ds, n) \in Ask
BY BoundsAssumption DEF FirstAttempt, Ask, Verdicts

(* A call begins.                                                          *)
LEMMA BeginKeeps ==
  ASSUME ResInv, NEW c \in Customer, NEW name \in Tools, NEW ds \in SUBSET Diamond,
         NEW n \in Nat, NEW op \in Operations, NEW asked \in SUBSET Diamond,
         Begin(c, name, ds, n, op, asked),
         name = "hold_diamond" => op = "availability" /\ \E d \in Diamond : ds = {d},
         name = "place_order" => op = "availability" /\ ds # {},
         op \notin {"hold", "order"},
         op = "availability" => name \in {"hold_diamond", "place_order"}
  PROVE  ResInv'
<1> DEFINE k == [step |-> "asking", name |-> name, diamonds |-> ds, hold |-> n, verified |-> {}]
           a == FirstAttempt(op, asked, n)
<1>1. call' = [call EXCEPT ![c] = k] /\ ask' = [ask EXCEPT ![c] = a]
  BY DEF Begin
<1>2. k \in Call /\ a \in Ask
  BY FirstAttemptIsTyped DEF Call, Steps
<1>3. CallIsSound(c, k, a)
  BY DEF CallIsSound, FirstAttempt
<1>4. CallIsRight(c, k, a)
  BY DEF CallIsRight, FirstAttempt
<1>5. /\ \A m \in late' : m \in late \/ \E b \in Customer : m \in OnTheWay(b)
      /\ jobs' \subseteq {"row"} \X Nat
      /\ UNCHANGED <<erpVars, records, receipts, worker, crashes>>
  BY DEF Begin, ResInv, TypeOK
<1> HIDE DEF k, a
<1> QED
  BY <1>1, <1>2, <1>3, <1>4, <1>5, QuietStep

(* A tool call begins.                                                     *)
LEMMA StartKeeps ==
  ASSUME ResInv, NEW c \in Customer, Start(c)
  PROVE  ResInv'
<1>1. CASE \E d \in Diamond : HoldDiamond(c, d)
  BY <1>1, BeginKeeps DEF HoldDiamond, Tools, Operations
<1>2. CASE \E d \in Diamond, n \in 0 .. MaxSequence - 1 : ReleaseHold(c, d, n)
  <2>1. PICK d \in Diamond, n \in 0 .. MaxSequence - 1 : ReleaseHold(c, d, n)
    BY <1>2
  <2>2. {d} \in SUBSET Diamond /\ n \in Nat
    BY MaxSequenceAssumption
  <2>3. Begin(c, "release_hold", {d}, n, "release", {d})
    BY <2>1 DEF ReleaseHold
  <2>4. "release_hold" \in Tools /\ "release" \in Operations
    BY DEF Tools, Operations
  <2> QED
    BY <2>2, <2>3, <2>4, BeginKeeps
<1>3. CASE \E ds \in Baskets : CreateQuotation(c, ds)
  BY <1>3, BeginKeeps DEF CreateQuotation, Baskets, Tools, Operations
<1>4. CASE \E ds \in Baskets : \E d \in ds : PlaceOrder(c, ds, d)
  <2>1. PICK ds \in Baskets : \E d \in ds : PlaceOrder(c, ds, d)
    BY <1>4
  <2>2. PICK d \in ds : PlaceOrder(c, ds, d)
    BY <2>1
  <2>3. ds \in SUBSET Diamond /\ ds # {} /\ {d} \in SUBSET Diamond
    BY <2>1 DEF Baskets
  <2> QED
    BY <2>2, <2>3, BeginKeeps DEF PlaceOrder, Tools, Operations
<1> QED
  BY <1>1, <1>2, <1>3, <1>4 DEF Start

(* A call ends, however it does: nothing is left of it.                    *)
LEMMA FinishKeeps ==
  ASSUME ResInv, NEW c \in Customer, Finish(c), jobs' \subseteq jobs,
         \A m \in late' : m \in late \/ \E b \in Customer : m \in OnTheWay(b),
         UNCHANGED <<erpVars, records, receipts, worker, crashes>>
  PROVE  ResInv'
<1>1. jobs' \subseteq {"row"} \X Nat
  BY DEF ResInv, TypeOK
<1> QED
  BY <1>1, NothingIsSound, QuietStep DEF Finish

(* Requests that are abandoned were under way.                             *)
LEMMA AbandonAdds ==
  ASSUME NEW cs \in SUBSET Customer, Abandon(cs)
  PROVE  \A m \in late' : m \in late \/ \E b \in Customer : m \in OnTheWay(b)
BY DEF Abandon

(* The call has its token.                                                 *)
LEMMA AcquireKeeps ==
  ASSUME ResInv, NEW c \in Customer, Acquire(c)
  PROVE  ResInv'
<1>1. PICK k, a : k = call[c] /\ a = [ask[c] EXCEPT !.verdict = "pending"]
  OBVIOUS
<1>2. k \in Call /\ CallIsSound(c, k, ask[c]) /\ CallIsRight(c, k, ask[c]) /\ ask[c] \in Ask
  BY <1>1, CallIsTyped
<1>3. /\ call' = [call EXCEPT ![c] = k] /\ ask' = [ask EXCEPT ![c] = a]
      /\ jobs' \subseteq {"row"} \X Nat
      /\ UNCHANGED <<erpVars, late, records, receipts, worker, crashes>>
  BY <1>1 DEF Acquire, ResInv, TypeOK
<1>4. /\ a \in Ask /\ a.op = ask[c].op /\ a.diamonds = ask[c].diamonds
      /\ a.hold = ask[c].hold /\ a.verdict = "pending"
  BY <1>1, <1>2 DEF Ask, Verdicts
<1>5. CallIsSound(c, k, a) /\ CallIsRight(c, k, a)
  BY <1>2, <1>4 DEF CallIsSound, CallIsRight
<1> QED
  BY <1>2, <1>3, <1>4, <1>5, QuietStep

(* An attempt fails.                                                       *)
LEMMA AttemptFailsKeeps ==
  ASSUME ResInv, NEW c \in Customer, AttemptFails(c)
  PROVE  ResInv'
<1> DEFINE k == call[c]
           a == [ask[c] EXCEPT !.attempt = @ + 1, !.verdict = "waiting", !.id = 0]
<1>1. /\ \A m \in late' : m \in late \/ \E b \in Customer : m \in OnTheWay(b)
      /\ jobs' = jobs
      /\ UNCHANGED <<erpVars, records, receipts, worker, crashes>>
  BY AbandonAdds DEF AttemptFails
<1>2. CASE Finish(c)
  BY <1>1, <1>2, FinishKeeps
<1>3. CASE ask[c].attempt < MaxRetries /\ ask' = [ask EXCEPT ![c] = a] /\ UNCHANGED call
  <2>1. call' = [call EXCEPT ![c] = k]
    BY <1>3, CallIsTyped DEF ResInv, TypeOK
  <2>2. k \in Call /\ CallIsSound(c, k, ask[c]) /\ CallIsRight(c, k, ask[c]) /\ ask[c] \in Ask
    BY CallIsTyped
  <2>3. ask[c].attempt \in Nat /\ ask[c].attempt + 1 \in 0 .. MaxRetries
    BY <1>3, <2>2, BoundsAssumption DEF Ask
  <2>4. a \in Ask
    BY <2>2, <2>3 DEF Ask, Verdicts
  <2>5. a.op = ask[c].op /\ a.diamonds = ask[c].diamonds /\ a.hold = ask[c].hold
        /\ a.verdict = "waiting"
    BY <2>2 DEF Ask
  <2>6. jobs' \subseteq {"row"} \X Nat
    BY <1>1 DEF ResInv, TypeOK
  <2> HIDE DEF k, a
  <2>7. CallIsSound(c, k, a) /\ CallIsRight(c, k, a)
    BY <2>2, <2>5 DEF CallIsSound, CallIsRight
  <2> QED
    BY <1>1, <1>3, <2>1, <2>2, <2>4, <2>6, <2>7, QuietStep
<1> QED
  BY <1>2, <1>3 DEF AttemptFails

(* An answer that ends the call, and a step of it that fails.              *)
LEMMA EndKeeps ==
  ASSUME ResInv, NEW c \in Customer,
         Refused(c) \/ Confirmed(c) \/ StorageFails(c) \/ CancelExpiry(c)
  PROVE  ResInv'
<1>1. /\ Finish(c)
      /\ jobs' \subseteq jobs
      /\ UNCHANGED <<erpVars, late, records, receipts, worker, crashes>>
  BY DEF Refused, Confirmed, StorageFails, CancelExpiry
<1> QED
  BY <1>1, FinishKeeps

(* The availability check is answered.                                     *)
LEMMA VerifiedKeeps ==
  ASSUME ResInv, NEW c \in Customer, Verified(c)
  PROVE  ResInv'
<1> DEFINE seen == call[c].verified \cup ask[c].diamonds
           k == [call[c] EXCEPT !.verified = seen]
<1>1. /\ call[c] \in Call /\ ask[c] \in Ask
      /\ CallIsSound(c, call[c], ask[c]) /\ CallIsRight(c, call[c], ask[c])
  BY CallIsTyped
<1>2. /\ call[c].step = "asking" /\ ask[c].op = "availability"
      /\ call' = [call EXCEPT ![c] = k]
      /\ UNCHANGED <<erpVars, late, records, jobs, worker, receipts, crashes>>
  BY DEF Verified, Reads
<1>3. /\ k \in Call /\ k.step = "asking" /\ k.name = call[c].name
      /\ k.diamonds = call[c].diamonds /\ k.verified = seen
  BY <1>1, <1>2 DEF Call, Ask
<1>4. jobs' \subseteq {"row"} \X Nat
  BY <1>2 DEF ResInv, TypeOK
<1>5. k.name \in {"hold_diamond", "place_order"}
  BY <1>1, <1>2, <1>3 DEF CallIsSound
<1>6. /\ k.name = "hold_diamond" => \E d \in Diamond : k.diamonds = {d}
      /\ k.name = "place_order" => k.diamonds # {}
  BY <1>1, <1>3 DEF CallIsSound
<1> HIDE DEF k
<1>7. ASSUME NEW d \in call[c].diamonds,
             ask' = [ask EXCEPT ![c] = FirstAttempt("availability", {d}, 0)]
      PROVE  ResInv'
  <2> DEFINE a == FirstAttempt("availability", {d}, 0)
  <2>1. a \in Ask /\ a.op = "availability"
    BY <1>1, FirstAttemptIsTyped DEF Call, Operations, FirstAttempt
  <2> HIDE DEF a
  <2>2. CallIsSound(c, k, a) /\ CallIsRight(c, k, a)
    BY <1>3, <1>5, <1>6, <2>1 DEF CallIsSound, CallIsRight
  <2>3. ask' = [ask EXCEPT ![c] = a]
    BY <1>7 DEF a
  <2> QED
    BY <1>2, <1>3, <1>4, <2>1, <2>2, <2>3, QuietStep
<1>8. ASSUME call[c].diamonds \subseteq seen,
             ask' = [ask EXCEPT ![c] = FirstAttempt(Commitment[call[c].name], call[c].diamonds, 0)]
      PROVE  ResInv'
  <2> DEFINE op == Commitment[call[c].name]
             a == FirstAttempt(op, call[c].diamonds, 0)
  <2>1. /\ op \in {"hold", "order"}
        /\ op = "hold" => k.name = "hold_diamond"
        /\ op = "order" => k.name = "place_order"
    BY <1>3, <1>5 DEF Commitment
  <2> HIDE DEF op
  <2>2. a \in Ask /\ a.op = op /\ a.diamonds = k.diamonds /\ a.verdict = "waiting"
    BY <1>1, <1>3, <2>1, FirstAttemptIsTyped DEF Call, Operations, FirstAttempt
  <2>3. ask' = [ask EXCEPT ![c] = a]
    BY <1>8 DEF op
  <2> HIDE DEF a
  <2>4. CallIsSound(c, k, a) /\ CallIsRight(c, k, a)
    BY <1>3, <1>5, <1>6, <1>8, <2>1, <2>2 DEF CallIsSound, CallIsRight
  <2> QED
    BY <1>2, <1>3, <1>4, <2>2, <2>3, <2>4, QuietStep
<1> QED
  BY <1>7, <1>8 DEF Verified

(* The hold is made, or released, and the call turns to the mirror.        *)
LEMMA AnswerKeeps ==
  ASSUME ResInv, NEW c \in Customer, HoldMade(c) \/ Released(c)
  PROVE  ResInv'
<1>1. /\ call[c] \in Call /\ ask[c] \in Ask
      /\ CallIsSound(c, call[c], ask[c]) /\ CallIsRight(c, call[c], ask[c])
  BY CallIsTyped
<1>2. /\ ask' = [ask EXCEPT ![c] = NoAsk] /\ NoAsk \in Ask /\ NoAsk.op = "none"
      /\ UNCHANGED <<erpVars, late, records, jobs, worker, receipts, crashes>>
      /\ jobs' \subseteq {"row"} \X Nat
  BY NothingIsSound DEF HoldMade, Released, NoAsk, ResInv, TypeOK
<1>3. CASE HoldMade(c)
  <2> DEFINE k == [call[c] EXCEPT !.step = "saving", !.hold = ask[c].id]
  <2>1. /\ ask[c].op = "hold" /\ ask[c].verdict = "accepted"
        /\ call' = [call EXCEPT ![c] = k]
    BY <1>3 DEF HoldMade, Reads
  <2>2. /\ k \in Call /\ k.step = "saving" /\ k.hold = ask[c].id /\ k.name = call[c].name
        /\ k.diamonds = call[c].diamonds
    BY <1>1 DEF Call, Ask, Steps
  <2> HIDE DEF k
  <2>3. CallIsSound(c, k, NoAsk)
    BY <1>1, <1>2, <2>2 DEF CallIsSound
  <2>4. CallIsRight(c, k, NoAsk)
    BY <1>1, <1>2, <2>1, <2>2 DEF CallIsSound, CallIsRight
  <2> QED
    BY <1>2, <2>1, <2>2, <2>3, <2>4, QuietStep
<1>4. CASE Released(c)
  <2> DEFINE k == [call[c] EXCEPT !.step = "marking"]
  <2>1. /\ ask[c].op = "release" /\ ask[c].verdict = "accepted"
        /\ call' = [call EXCEPT ![c] = k]
    BY <1>4 DEF Released, Reads
  <2>2. /\ k \in Call /\ k.step = "marking" /\ k.hold = call[c].hold /\ k.name = call[c].name
        /\ k.diamonds = call[c].diamonds
    BY <1>1 DEF Call, Steps
  <2> HIDE DEF k
  <2>3. CallIsSound(c, k, NoAsk)
    BY <1>1, <1>2, <2>2 DEF CallIsSound
  <2>4. CallIsRight(c, k, NoAsk)
    BY <1>1, <1>2, <2>1, <2>2 DEF CallIsSound, CallIsRight
  <2> QED
    BY <1>2, <2>1, <2>2, <2>3, <2>4, QuietStep
<1> QED
  BY <1>3, <1>4

(* The row is written: it agrees with the hold as the call does.           *)
LEMMA SaveRecordKeeps ==
  ASSUME ResInv, NEW c \in Customer, SaveRecord(c)
  PROVE  ResInv'
<1>0. PICK k, a : k = [call[c] EXCEPT !.step = "scheduling"] /\ a = ask[c]
  OBVIOUS
<1>1. /\ call[c] \in Call /\ a \in Ask
      /\ CallIsSound(c, call[c], a) /\ CallIsRight(c, call[c], a)
  BY <1>0, CallIsTyped
<1>2. /\ call[c].step = "saving" /\ call' = [call EXCEPT ![c] = k]
      /\ ask' = [ask EXCEPT ![c] = a]
      /\ UNCHANGED <<erpVars, late, jobs, worker, receipts, crashes>>
      /\ jobs' \subseteq {"row"} \X Nat
  BY <1>0 DEF SaveRecord, ResInv, TypeOK
<1>3. /\ k \in Call /\ k.step = "scheduling" /\ k.hold = call[c].hold /\ k.name = call[c].name
      /\ k.diamonds = call[c].diamonds
  BY <1>0, <1>1 DEF Call, Steps
<1>4. Grows
  BY <1>2, ErpAloneGrows DEF ResInv
<1>5. /\ \A r \in records' : \/ r \in records
                             \/ \E d \in k.diamonds :
                                  r = [hold |-> k.hold, diamond |-> d, by |-> c, status |-> "held"]
      /\ \A d \in k.diamonds :
           [hold |-> k.hold, diamond |-> d, by |-> c, status |-> "held"] \in records'
      /\ records \subseteq records'
  BY <1>3 DEF SaveRecord
<1>6. k.hold \in Nat /\ k.diamonds \subseteq Diamond
  BY <1>3 DEF Call
<1>7. \A d \in k.diamonds : Agrees(k.hold, d, c)
  BY <1>1, <1>2, <1>3 DEF CallIsRight
<1>8. \A d \in k.diamonds : Agrees(k.hold, d, c)'
  BY <1>2, <1>4, <1>7, AgreesStays
<1>9. \A d \in k.diamonds : Mirrored(k.hold, d, c)'
  BY <1>5 DEF Mirrored
<1>10. CallIsSound(c, k, a)
  BY <1>1, <1>2, <1>3 DEF CallIsSound
<1>11. CallIsRight(c, k, a)'
  BY <1>1, <1>2, <1>3, <1>8, <1>9 DEF CallIsRight, CallIsSound
<1>12. KeepsRows
  BY <1>5 DEF KeepsRows
<1>13. records' \subseteq Record
  BY <1>5, <1>6 DEF Record, ResInv, TypeOK
<1>14. ASSUME NEW r \in records' PROVE RowIsRight(r)'
  <2>1. CASE r \in records
    BY <2>1, <1>4, RowStaysRight DEF ResInv
  <2>2. CASE r \notin records
    BY <2>2, <1>5, <1>8 DEF RowIsRight
  <2> QED
    BY <2>1, <2>2
<1>15. receipts' \subseteq Receipt /\ receipts' \ receipts = {}
  BY <1>2 DEF ResInv, TypeOK
<1> QED
  BY <1>1, <1>2, <1>3, <1>10, <1>11, <1>12, <1>13, <1>14, <1>15, StepOfCall

(* The receipt is shown: the row is there and agrees.                      *)
LEMMA ScheduleExpiryKeeps ==
  ASSUME ResInv, NEW c \in Customer, ScheduleExpiry(c)
  PROVE  ResInv'
<1>1. /\ call[c] \in Call /\ ask[c] \in Ask
      /\ CallIsSound(c, call[c], ask[c]) /\ CallIsRight(c, call[c], ask[c])
  BY CallIsTyped
<1>2. /\ call[c].step = "scheduling"
      /\ call' = [call EXCEPT ![c] = NoCall] /\ ask' = [ask EXCEPT ![c] = NoAsk]
      /\ UNCHANGED <<erpVars, late, records, worker, crashes>>
      /\ jobs' = jobs \cup {RowJob(call[c].hold)}
  BY DEF ScheduleExpiry, Finish
<1>3. PICK n, ds : n = call[c].hold /\ ds = call[c].diamonds
  OBVIOUS
<1>4. n \in Nat /\ ds \subseteq Diamond
  BY <1>1, <1>3 DEF Call
<1>5. Grows /\ KeepsRows
  BY <1>2, ErpAloneGrows, RowsAloneKept DEF ResInv
<1>6. \A d \in ds : Agrees(n, d, c)' /\ Mirrored(n, d, c)'
  BY <1>1, <1>2, <1>3, <1>5, AgreesStays, MirroredStays DEF CallIsRight
<1>7. \A t \in receipts' : t \in receipts \/ \E d \in ds : t = [hold |-> n, diamond |-> d, by |-> c]
  BY <1>3 DEF ScheduleExpiry
<1>8. \A t \in receipts' \ receipts :
        Agrees(t.hold, t.diamond, t.by)' /\ Mirrored(t.hold, t.diamond, t.by)'
  BY <1>6, <1>7
<1>9. receipts' \subseteq Receipt
  BY <1>4, <1>7 DEF Receipt, ResInv, TypeOK
<1>10. jobs' \subseteq {"row"} \X Nat
  BY <1>2, <1>3, <1>4 DEF RowJob, ResInv, TypeOK
<1>11. records' \subseteq Record /\ \A r \in records' : RowIsRight(r)'
  BY <1>2, <1>5, RowStaysRight DEF ResInv, TypeOK
<1>12. CallIsRight(c, NoCall, NoAsk)'
  BY NothingIsSound, <1>5, CallStaysRight
<1> QED
  BY <1>2, <1>5, <1>8, <1>9, <1>10, <1>11, <1>12, NothingIsSound, StepOfCall

(* A change of status keeps the rows; to released, it has to be true.      *)
LEMMA WithStatusKeeps ==
  ASSUME ResInv, UNCHANGED erpVars, NEW n \in Nat, NEW from,
         NEW to \in {"held", "released", "expired"},
         records' = WithStatus(n, from, to), to = "released" => Gone(n)
  PROVE  KeepsRows /\ records' \subseteq Record /\ \A r \in records' : RowIsRight(r)'
<1>1. \A s \in records' : \E r \in records :
         \/ s = r
         \/ s = [r EXCEPT !.status = to] /\ r.hold = n
  BY DEF WithStatus
<1>2. \A r \in records : \E s \in records' : s = r \/ s = [r EXCEPT !.status = to]
  BY DEF WithStatus
<1>3. \A r \in records : [r EXCEPT !.status = to] \in Record
  BY DEF ResInv, TypeOK, Record
<1>4. \A r \in records : LET s == [r EXCEPT !.status = to]
                         IN  /\ s.hold = r.hold /\ s.diamond = r.diamond
                             /\ s.by = r.by /\ s.status = to
  BY DEF ResInv, TypeOK, Record
<1>5. KeepsRows
  BY <1>2, <1>4 DEF KeepsRows
<1>6. records' \subseteq Record
  BY <1>1, <1>3 DEF ResInv, TypeOK
<1>7. Grows
  BY ErpAloneGrows DEF ResInv
<1>8. ASSUME NEW s \in records' PROVE RowIsRight(s)'
  <2>1. PICK r \in records : s = r \/ (s = [r EXCEPT !.status = to] /\ r.hold = n)
    BY <1>1
  <2>2. CASE s = r
    BY <2>1, <2>2, <1>7, RowStaysRight DEF ResInv
  <2>3. CASE s = [r EXCEPT !.status = to] /\ r.hold = n
    <3>1. s.hold = n /\ s.diamond = r.diamond /\ s.by = r.by /\ s.status = to
      BY <2>1, <2>3, <1>4
    <3>2. Agrees(n, r.diamond, r.by)'
      BY <2>1, <2>3, <1>7, AgreesStays DEF ResInv, RowIsRight
    <3>3. to = "released" => Gone(n)'
      BY <1>7, GoneStays
    <3> QED
      BY <3>1, <3>2, <3>3 DEF RowIsRight
  <2> QED
    BY <2>1, <2>2, <2>3
<1> QED
  BY <1>5, <1>6, <1>8

(* A row is marked released.                                               *)
LEMMA MarkReleasedKeeps ==
  ASSUME ResInv, NEW c \in Customer, MarkReleased(c)
  PROVE  ResInv'
<1>0. PICK k, a : k = [call[c] EXCEPT !.step = "unscheduling"] /\ a = ask[c]
  OBVIOUS
<1>1. /\ call[c] \in Call /\ a \in Ask
      /\ CallIsSound(c, call[c], a) /\ CallIsRight(c, call[c], a)
  BY <1>0, CallIsTyped
<1>2. /\ call[c].step = "marking" /\ call' = [call EXCEPT ![c] = k]
      /\ ask' = [ask EXCEPT ![c] = a]
      /\ UNCHANGED <<erpVars, late, jobs, worker, receipts, crashes>>
      /\ jobs' \subseteq {"row"} \X Nat
  BY <1>0 DEF MarkReleased, ResInv, TypeOK
<1>3. /\ k \in Call /\ k.step = "unscheduling" /\ k.name = call[c].name
      /\ k.diamonds = call[c].diamonds /\ call[c].hold \in Nat
  BY <1>0, <1>1 DEF Call, Steps
<1>4. Gone(call[c].hold)
  BY <1>1, <1>2 DEF CallIsRight
<1>5. KeepsRows /\ records' \subseteq Record /\ \A r \in records' : RowIsRight(r)'
  BY <1>2, <1>3, <1>4, WithStatusKeeps DEF MarkReleased
<1>6. CallIsSound(c, k, a)
  BY <1>1, <1>2, <1>3 DEF CallIsSound
<1>7. CallIsRight(c, k, a)'
  BY <1>1, <1>2, <1>3 DEF CallIsRight, CallIsSound
<1>8. receipts' \subseteq Receipt /\ receipts' \ receipts = {}
  BY <1>2 DEF ResInv, TypeOK
<1> QED
  BY <1>1, <1>2, <1>3, <1>5, <1>6, <1>7, <1>8, StepOfCall

-----------------------------------------------------------------------------
(* The steps of nobody's call.                                             *)

(* A step that leaves the ERP and the calls alone.                         *)
LEMMA StepBesides ==
  ASSUME ResInv, UNCHANGED <<erpVars, call, ask, late, receipts>>, KeepsRows,
         records' \subseteq Record, \A r \in records' : RowIsRight(r)',
         jobs' \subseteq jobs, worker' \in jobs \cup {NoJob, worker}, crashes' \in Nat
  PROVE  ResInv'
<1>1. Grows /\ ErpInv'
  BY ErpAloneGrows DEF ResInv
<1>2. TypeOK'
  BY <1>1 DEF ErpInv, ResInv, TypeOK
<1>3. ASSUME NEW b \in Customer
      PROVE  CallIsSound(b, call[b], ask[b])' /\ CallIsRight(b, call[b], ask[b])'
  <2>1. PICK x, y : x = call[b] /\ y = ask[b]
    OBVIOUS
  <2>2. CallIsRight(b, x, y)'
    BY <1>1, <2>1, CallIsTyped, CallStaysRight
  <2>3. CallIsSound(b, x, y)
    BY <2>1, CallIsTyped
  <2> QED
    BY <2>1, <2>2, <2>3 DEF CallIsSound, CallIsRight, Agrees, Gone, Mirrored
<1>4. CallsAreSound'
  BY <1>3 DEF CallsAreSound
<1>5. \A m \in late' : LateIsRight(m)'
  BY <1>1, LateStaysRight DEF ResInv
<1>6. \A t \in receipts' : Agrees(t.hold, t.diamond, t.by)' /\ Mirrored(t.hold, t.diamond, t.by)'
  BY <1>1, AgreesStays, MirroredStays DEF ResInv
<1> QED
  BY <1>1, <1>2, <1>4, <1>5, <1>6 DEF ResInv

(* The expiry worker.                                                      *)
LEMMA WorkKeeps ==
  ASSUME ResInv, Work
  PROVE  ResInv'
<1>1. CASE MarkExpired
  <2>1. worker[2] \in Nat
    BY <1>1 DEF MarkExpired, ResInv, TypeOK, NoJob
  <2>2. KeepsRows /\ records' \subseteq Record /\ \A r \in records' : RowIsRight(r)'
    BY <1>1, <2>1, WithStatusKeeps DEF MarkExpired
  <2> QED
    BY <1>1, <2>2, StepBesides DEF MarkExpired, ResInv, TypeOK
<1>2. CASE \E j \in jobs : FindHold(j) \/ JobFails(j)
  <2>1. /\ UNCHANGED <<erpVars, call, ask, late, records, receipts, crashes>>
        /\ jobs' \subseteq jobs /\ worker' \in jobs \cup {NoJob, worker}
    BY <1>2 DEF FindHold, JobFails
  <2>2. KeepsRows /\ Grows
    BY <2>1, RowsAloneKept, ErpAloneGrows DEF ResInv
  <2>3. records' \subseteq Record /\ \A r \in records' : RowIsRight(r)'
    BY <2>1, <2>2, RowStaysRight DEF ResInv, TypeOK
  <2> QED
    BY <2>1, <2>2, <2>3, StepBesides DEF ResInv, TypeOK
<1> QED
  BY <1>1, <1>2 DEF Work

(* A crash.                                                                *)
LEMMA CrashKeeps ==
  ASSUME ResInv, Crash
  PROVE  ResInv'
<1>1. /\ call' = [c \in Customer |-> NoCall] /\ ask' = [c \in Customer |-> NoAsk]
      /\ worker' = NoJob /\ crashes' = crashes + 1
      /\ UNCHANGED <<erpVars, records, jobs, receipts>>
      /\ \A m \in late' : m \in late \/ \E b \in Customer : m \in OnTheWay(b)
  BY AbandonAdds DEF Crash
<1>2. Grows /\ ErpInv' /\ KeepsRows
  BY <1>1, ErpAloneGrows, RowsAloneKept DEF ResInv
<1>3. TypeOK'
  <2>1. call' \in [Customer -> Call] /\ ask' \in [Customer -> Ask]
    BY <1>1, NothingIsSound
  <2>2. late' \subseteq Request
    BY <1>1, AbandonedIsRight DEF ResInv, TypeOK
  <2> QED
    BY <1>1, <1>2, <2>1, <2>2 DEF ErpInv, ResInv, TypeOK
<1>4. CallsAreSound'
  <2>1. ASSUME NEW c \in Customer PROVE CallIsRight(c, NoCall, NoAsk)'
    BY <1>2, NothingIsSound, CallStaysRight
  <2>2. \A c \in Customer : call'[c] = NoCall /\ ask'[c] = NoAsk
    BY <1>1
  <2> QED
    BY <2>1, <2>2, NothingIsSound
       DEF CallsAreSound, CallIsSound, CallIsRight, Agrees, Gone, Mirrored
<1>5. \A m \in late' : LateIsRight(m)'
  BY <1>1, <1>2, AbandonedIsRight, LateStaysRight DEF ResInv
<1>6. /\ \A r \in records' : RowIsRight(r)'
      /\ \A t \in receipts' : Agrees(t.hold, t.diamond, t.by)' /\ Mirrored(t.hold, t.diamond, t.by)'
  BY <1>1, <1>2, RowStaysRight, AgreesStays, MirroredStays DEF ResInv
<1> QED
  BY <1>2, <1>3, <1>4, <1>5, <1>6 DEF ResInv

-----------------------------------------------------------------------------
(* The steps of the ERP: what Handle does with a request.                  *)

(* Serving a request makes the ERP grow.                                   *)
LEMMA HandleGrows ==
  ASSUME ErpInv, NEW op, NEW ds \in SUBSET Diamond, NEW n \in Nat, NEW c \in Customer,
         Handle(op, ds, n, c)
  PROVE  Grows
<1>1. /\ sequence \in Nat /\ holds \subseteq HoldRecord
  BY DEF ErpInv, ErpTypeOK
<1>2. CASE \E d \in ds : Hold(d, c)
  BY <1>1, <1>2 DEF Hold, Grows, HoldRecord
<1>3. CASE Quote \/ UNCHANGED erpVars
  BY <1>1, <1>3 DEF Quote, erpVars, Grows
<1>4. CASE Order(ds, c)
  BY <1>1, <1>4 DEF Order, Grows
<1>5. CASE \E d \in ds : Release(d, n)
  <2>1. holds' \subseteq holds /\ sequence' = sequence
    BY <1>5 DEF Release
  <2> QED
    BY <1>1, <2>1 DEF Grows
<1> QED
  BY <1>2, <1>3, <1>4, <1>5 DEF Handle

(* Whatever is asked of the ERP, what it does is a step of its own.        *)
LEMMA HandleIsErpStep ==
  ASSUME ErpInv, NEW op, NEW ds \in SUBSET Diamond, NEW n \in Nat, NEW c \in Customer,
         Handle(op, ds, n, c), op = "order" => ds # {}
  PROVE  ErpNext \/ UNCHANGED erpVars
<1>1. CASE sequence < MaxSequence /\ op = "hold" /\ \E d \in ds : Hold(d, c)
  BY <1>1 DEF ErpNext, TradeStep
<1>2. CASE sequence < MaxSequence /\ op = "quotation" /\ Quote
  BY <1>2 DEF ErpNext, TradeStep
<1>3. CASE sequence < MaxSequence /\ op = "order" /\ Order(ds, c)
  BY <1>3 DEF ErpNext, TradeStep, Baskets
<1>4. CASE op = "release" /\ \E d \in ds : Release(d, n)
  <2>1. PICK d \in ds : Release(d, n)
    BY <1>4
  <2>2. PICK h \in holds : h.id = n
    BY <2>1 DEF Release, CanRelease
  <2>3. d \in Diamond /\ Release(d, h.id)
    BY <2>1, <2>2
  <2> QED
    BY <2>2, <2>3 DEF ErpNext
<1> QED
  BY <1>1, <1>2, <1>3, <1>4 DEF Handle

(* The invariant of the dealer ERP carries over.                           *)
LEMMA ErpStepKeepsInv == ErpInv /\ (ErpNext \/ UNCHANGED erpVars) => ErpInv'
  BY NextKeepsInv

(* A step of the ERP that changes at most one request.                     *)
LEMMA StepOfErp ==
  ASSUME ResInv, ErpInv', Grows, NEW c \in Customer, NEW a \in Ask,
         ask' = [ask EXCEPT ![c] = a],
         CallIsSound(c, call[c], a), CallIsRight(c, call[c], a)',
         late' \subseteq late, UNCHANGED <<call, records, jobs, worker, receipts, crashes>>
  PROVE  ResInv'
<1>1. TypeOK'
  BY DEF ErpInv, ResInv, TypeOK
<1>2. KeepsRows
  BY RowsAloneKept
<1>3. ASSUME NEW b \in Customer
      PROVE  CallIsSound(b, call[b], ask[b])' /\ CallIsRight(b, call[b], ask[b])'
  <2>1. CASE b = c
    <3>1. ask'[b] = a /\ call'[b] = call[c]
      BY <2>1 DEF ResInv, TypeOK
    <3> QED
      BY <2>1, <3>1 DEF CallIsSound, CallIsRight, Agrees, Gone, Mirrored
  <2>2. CASE b # c
    <3>1. ask'[b] = ask[b] /\ call'[b] = call[b]
      BY <2>2 DEF ResInv, TypeOK
    <3>2. PICK x, y : x = call[b] /\ y = ask[b]
      OBVIOUS
    <3>3. CallIsRight(b, x, y)'
      BY <1>2, <3>2, CallIsTyped, CallStaysRight
    <3>4. CallIsSound(b, x, y)
      BY <3>2, CallIsTyped
    <3> QED
      BY <3>1, <3>2, <3>3, <3>4 DEF CallIsSound, CallIsRight, Agrees, Gone, Mirrored
  <2> QED
    BY <2>1, <2>2
<1>4. CallsAreSound'
  BY <1>3 DEF CallsAreSound
<1>5. \A m \in late' : LateIsRight(m)'
  BY LateStaysRight DEF ResInv
<1>6. \A r \in records' : RowIsRight(r)'
  BY RowStaysRight DEF ResInv
<1>7. \A t \in receipts' : Agrees(t.hold, t.diamond, t.by)' /\ Mirrored(t.hold, t.diamond, t.by)'
  BY <1>2, AgreesStays, MirroredStays DEF ResInv
<1> QED
  BY <1>1, <1>4, <1>5, <1>6, <1>7 DEF ResInv

(* The ERP serves a request.                                               *)
LEMMA ServeKeeps ==
  ASSUME ResInv, NEW c \in Customer, Serve(c)
  PROVE  ResInv' /\ (ErpNext \/ UNCHANGED erpVars)
<1>1. /\ call[c] \in Call /\ ask[c] \in Ask
      /\ CallIsSound(c, call[c], ask[c]) /\ CallIsRight(c, call[c], ask[c])
  BY CallIsTyped
<1>2. PICK op, ds, n, yes : /\ op = ask[c].op /\ ds = ask[c].diamonds /\ n = ask[c].hold
                            /\ yes = Accepts(op, ds, n)
  OBVIOUS
<1>3. op \in Operations /\ ds \in SUBSET Diamond /\ n \in Nat /\ ErpInv /\ sequence \in Nat
  BY <1>1, <1>2 DEF Ask, ResInv, ErpInv, ErpTypeOK
<1>4. /\ Handle(op, ds, n, c)
      /\ UNCHANGED <<call, late, records, jobs, worker, receipts, crashes>>
      /\ call[c].step = "asking"
  BY <1>2 DEF Serve
<1>5. op = "order" => ds # {}
  BY <1>1, <1>2 DEF CallIsSound
<1>6. ErpNext \/ UNCHANGED erpVars
  BY <1>3, <1>4, <1>5, HandleIsErpStep
<1>7. Grows /\ ErpInv'
  BY <1>3, <1>4, <1>6, HandleGrows, ErpStepKeepsInv
<1>8. PICK a : a = [ask[c] EXCEPT !.verdict = IF yes THEN "accepted" ELSE "refused",
                                  !.id = IF yes /\ op = "hold" THEN sequence ELSE 0]
  OBVIOUS
<1>9. ask' = [ask EXCEPT ![c] = a]
  BY <1>2, <1>8 DEF Serve
<1>10. /\ a \in Ask /\ a.op = op /\ a.diamonds = ds /\ a.hold = n
       /\ a.verdict = (IF yes THEN "accepted" ELSE "refused")
       /\ a.id = (IF yes /\ op = "hold" THEN sequence ELSE 0)
  BY <1>1, <1>2, <1>3, <1>8 DEF Ask, Verdicts
<1>11. CallIsSound(c, call[c], a)
  BY <1>1, <1>2, <1>10 DEF CallIsSound
<1>12. PICK k : k = call[c]
  OBVIOUS
<1>13. op = "release" => n = k.hold
  BY <1>1, <1>2, <1>12 DEF CallIsRight
<1>14. ASSUME op = "release", a.verdict = "accepted" PROVE Gone(n)'
  <2>1. yes
    BY <1>10, <1>14
  <2>2. CanRelease(n)
    BY <1>2, <1>14, <2>1 DEF Accepts
  <2>3. PICK d \in ds : Release(d, n)
    BY <1>4, <1>14, <2>1, <1>2 DEF Handle
  <2>4. holds' = {h \in holds : h.id # n} /\ sequence' = sequence
    BY <2>3 DEF Release
  <2>5. n < sequence
    BY <1>3, <2>2 DEF CanRelease, ErpInv, ReferencesDrawnOnce
  <2> QED
    BY <1>3, <2>4, <2>5 DEF Gone
<1>15. ASSUME op = "hold", a.verdict = "accepted", NEW d \in ds PROVE Agrees(a.id, d, c)'
  <2>1. yes
    BY <1>10, <1>15
  <2>2. PICK e \in ds : Hold(e, c)
    BY <1>2, <1>4, <1>15, <2>1 DEF Handle
  <2>3. e = d
    BY <1>1, <1>2, <1>15, <2>2 DEF CallIsSound
  <2>4. a.id = sequence
    BY <1>10, <1>15, <2>1
  <2>5. /\ holds' = holds \cup {[id |-> sequence, diamond |-> d, by |-> c]}
        /\ sequence' = sequence + 1
    BY <2>2, <2>3 DEF Hold
  <2>6. \A h \in holds : h.id < sequence
    BY <1>3 DEF ErpInv, ReferencesDrawnOnce
  <2>7. \A h \in holds' : h.id = sequence => h.diamond = d /\ h.by = c
    BY <1>3, <2>5, <2>6 DEF ErpInv, ErpTypeOK, HoldRecord
  <2>8. PICK i : i = a.id
    OBVIOUS
  <2>9. i \in Nat /\ i < sequence'
    BY <1>3, <2>4, <2>5, <2>8
  <2> QED
    BY <2>4, <2>7, <2>8, <2>9 DEF Agrees
<1>16. CallIsRight(c, k, a)'
  BY <1>4, <1>10, <1>12, <1>13, <1>14, <1>15, <1>11 DEF CallIsRight, CallIsSound, Call
<1> QED
  BY <1>4, <1>6, <1>7, <1>9, <1>10, <1>11, <1>12, <1>16, StepOfErp

(* ... or one that came late.                                              *)
LEMMA ServeLateKeeps ==
  ASSUME ResInv, NEW m \in late, ServeLate(m)
  PROVE  ResInv' /\ (ErpNext \/ UNCHANGED erpVars)
<1>1. m \in Request /\ LateIsRight(m) /\ ErpInv
  BY DEF ResInv, TypeOK
<1>2. /\ Handle(m.op, m.diamonds, m.hold, m.by)
      /\ late' \subseteq late
      /\ UNCHANGED <<call, ask, records, jobs, worker, receipts, crashes>>
  BY DEF ServeLate
<1>3. m.diamonds \in SUBSET Diamond /\ m.hold \in Nat /\ m.by \in Customer
  BY <1>1 DEF Request
<1>4. ErpNext \/ UNCHANGED erpVars
  BY <1>1, <1>2, <1>3, HandleIsErpStep DEF LateIsRight
<1>5. Grows /\ ErpInv'
  BY <1>1, <1>2, <1>3, <1>4, HandleGrows, ErpStepKeepsInv
<1>6. PICK c, k, a : c = m.by /\ k = call[c] /\ a = ask[c]
  OBVIOUS
<1>7. c \in Customer /\ a \in Ask /\ CallIsSound(c, k, a) /\ CallIsRight(c, k, a)
  BY <1>3, <1>6, CallIsTyped
<1>8. ask' = [ask EXCEPT ![c] = a]
  BY <1>2, <1>6, <1>7 DEF ResInv, TypeOK
<1>9. CallIsRight(c, k, a)'
  BY <1>2, <1>5, <1>7, RowsAloneKept, CallStaysRight
<1>10. CallIsRight(c, call[c], a)'
  BY <1>2, <1>6, <1>9 DEF CallIsRight, Agrees, Gone, Mirrored
<1> QED
  BY <1>2, <1>4, <1>5, <1>6, <1>7, <1>8, <1>10, StepOfErp

-----------------------------------------------------------------------------
(* The first state.                                                        *)
LEMMA InitIsRight == Init => ResInv
<1> SUFFICES ASSUME Init PROVE ResInv
  OBVIOUS
<1>1. ErpInv
  BY InitInv DEF Init
<1>2. TypeOK
  <2>1. call \in [Customer -> Call] /\ ask \in [Customer -> Ask]
    BY NothingIsSound DEF Init
  <2> QED
    BY <1>1, <2>1 DEF Init, ErpInv, TypeOK
<1>3. CallsAreSound
  BY NothingIsSound DEF Init, CallsAreSound
<1> QED
  BY <1>1, <1>2, <1>3 DEF Init, ResInv

(* Every step keeps the invariant, and is one of the ERP or none.          *)
LEMMA ResStep == ResInv /\ [Next]_vars => ResInv' /\ [ErpNext]_erpVars
<1> SUFFICES ASSUME ResInv, [Next]_vars PROVE ResInv' /\ (ErpNext \/ UNCHANGED erpVars)
  OBVIOUS
<1>1. ASSUME NEW c \in Customer, Start(c) PROVE ResInv' /\ UNCHANGED erpVars
  BY <1>1, StartKeeps
     DEF Start, HoldDiamond, ReleaseHold, CreateQuotation, PlaceOrder, Begin
<1>2. ASSUME NEW c \in Customer, Advance(c) PROVE ResInv' /\ UNCHANGED erpVars
  <2>1. ResInv'
    BY <1>2, AttemptFailsKeeps, EndKeeps, VerifiedKeeps, AnswerKeeps, SaveRecordKeeps,
       ScheduleExpiryKeeps, MarkReleasedKeeps DEF Advance
  <2>2. UNCHANGED erpVars
    BY <1>2 DEF Advance, AttemptFails, Refused, Verified, Confirmed, HoldMade, Released,
       SaveRecord, ScheduleExpiry, MarkReleased, CancelExpiry, StorageFails
  <2> QED
    BY <2>1, <2>2
<1>3. CASE Work
  BY <1>3, WorkKeeps DEF Work, FindHold, MarkExpired, JobFails
<1>4. ASSUME NEW c \in Customer, Acquire(c) PROVE ResInv' /\ UNCHANGED erpVars
  BY <1>4, AcquireKeeps DEF Acquire
<1>5. CASE Crash
  BY <1>5, CrashKeeps DEF Crash
<1>6. CASE UNCHANGED vars
  <2>1. /\ UNCHANGED <<erpVars, call, ask, late, receipts, records>>
        /\ jobs' = jobs /\ worker' = worker /\ crashes' = crashes
    BY <1>6 DEF vars
  <2>2. Grows /\ KeepsRows
    BY <2>1, ErpAloneGrows, RowsAloneKept DEF ResInv
  <2>3. records' \subseteq Record /\ \A r \in records' : RowIsRight(r)'
    BY <2>1, <2>2, RowStaysRight DEF ResInv, TypeOK
  <2> QED
    BY <2>1, <2>2, <2>3, StepBesides DEF ResInv, TypeOK
<1> QED
  BY <1>1, <1>2, <1>3, <1>4, <1>5, <1>6, ServeKeeps, ServeLateKeeps DEF Next

(* The invariant holds in every reachable state.                           *)
THEOREM MirrorSafety == Spec => []ResInv
<1>1. ResInv /\ [Next]_vars => ResInv'
  BY ResStep
<1> QED
  BY <1>1, InitIsRight, PTL DEF Spec

(* Calls, requests, rows, jobs and receipts are what they are taken for.   *)
THEOREM ReservationsTyping == Spec => []TypeOK
<1>1. ResInv => TypeOK
  BY DEF ResInv
<1> QED
  BY <1>1, MirrorSafety, PTL

(* No receipt is shown without its row (createHold).                       *)
THEOREM MirrorsReceipts == Spec => []ReceiptsAreMirrored
<1>1. ResInv => ReceiptsAreMirrored
  BY DEF ResInv, ReceiptsAreMirrored, Mirrored
<1> QED
  BY <1>1, MirrorSafety, PTL

(* No row says released while the ERP has the hold (releaseHold).          *)
THEOREM ReleasesInErpFirst == Spec => []ReleasedInErpFirst
<1>1. ResInv => ReleasedInErpFirst
  BY DEF ResInv, ReleasedInErpFirst, RowIsRight, Gone
<1> QED
  BY <1>1, MirrorSafety, PTL

(* Rows and receipts say of a hold what the ERP says of it.                *)
THEOREM MirrorAgrees == Spec => []MirrorAgreesOnHolds
<1>1. ResInv => MirrorAgreesOnHolds
  BY DEF ResInv, MirrorAgreesOnHolds, RowIsRight, Agrees
<1> QED
  BY <1>1, MirrorSafety, PTL

(* Nothing is held or ordered that was not found in stock first.           *)
THEOREM CommitsVerified == Spec => []CommitmentsAreVerified
<1>1. ResInv => CommitmentsAreVerified
  BY DEF ResInv, CommitmentsAreVerified, CallsAreSound, CallIsSound
<1> QED
  BY <1>1, MirrorSafety, PTL

(* With retries, late requests and crashes, what the ERP does under the    *)
(* chatbot is a behaviour of the ERP.                                      *)
LEMMA ChatbotDrivesErp == Spec => ErpSpec
<1>1. Init => ErpInit
  BY DEF Init
<1>2. ResInv /\ [Next]_vars => [ErpNext]_erpVars
  BY ResStep
<1> QED
  BY <1>1, <1>2, MirrorSafety, PTL DEF Spec, ErpSpec

(* ... and so the stock keeps the promises of DiamondLedger under it,      *)
(* whichever diamonds and hold numbers the tools are called with.          *)
THEOREM ChatbotKeepsLedger == Spec => ImplementsLedger
  BY ChatbotDrivesErp, LedgerRefinement, PTL

-----------------------------------------------------------------------------
(* Rows that are settled stay so, whatever job had read them before.       *)
LEMMA StepSettles ==
  ASSUME ResInv, [Next]_vars, NEW r \in records, r.status # "held"
  PROVE  \E s \in records' : s.hold = r.hold /\ s.status \in {r.status, "released"}
<1>1. CASE records \subseteq records'
  BY <1>1
<1>2. ASSUME NEW c \in Customer, MarkReleased(c)
      PROVE  \E s \in records' : s.hold = r.hold /\ s.status \in {r.status, "released"}
  <2>1. r \in Record
    BY DEF ResInv, TypeOK
  <2>2. PICK s \in records' : s = r \/ s = [r EXCEPT !.status = "released"]
    BY <1>2 DEF MarkReleased, WithStatus
  <2> QED
    BY <2>1, <2>2 DEF Record
<1>3. CASE MarkExpired
  BY <1>3 DEF MarkExpired, WithStatus
<1>4. CASE UNCHANGED vars
  BY <1>1, <1>4 DEF vars
<1>5. ASSUME NEW c \in Customer, Start(c) \/ Acquire(c) \/ Serve(c) PROVE records' = records
  BY <1>5
     DEF Start, HoldDiamond, ReleaseHold, CreateQuotation, PlaceOrder, Begin, Acquire, Serve
<1>6. ASSUME NEW c \in Customer, Advance(c) PROVE MarkReleased(c) \/ records \subseteq records'
  BY <1>6 DEF Advance, AttemptFails, Refused, Verified, Confirmed, HoldMade, Released,
     SaveRecord, ScheduleExpiry, CancelExpiry, StorageFails
<1>7. ASSUME Work PROVE MarkExpired \/ records' = records
  BY <1>7 DEF Work, FindHold, JobFails
<1>8. ASSUME Crash \/ \E m \in late : ServeLate(m) PROVE records' = records
  BY <1>8 DEF Crash, ServeLate
<1> QED
  BY <1>1, <1>2, <1>3, <1>4, <1>5, <1>6, <1>7, <1>8 DEF Next

(* A row leaves the status held for good (markExpired).                    *)
THEOREM SettlesOnce == Spec => RowsSettleOnce
<1>1. ResInv /\ [Next]_vars =>
        [\A r \in records : r.status # "held" =>
           \E s \in records' : s.hold = r.hold /\ s.status \in {r.status, "released"}]_vars
  BY StepSettles
<1> QED
  BY <1>1, MirrorSafety, PTL DEF Spec, RowsSettleOnce

(* What ends a hold when the ERP handles a request.                        *)
LEMMA HandleEnds ==
  ASSUME ErpInv, NEW op, NEW ds \in SUBSET Diamond, NEW n \in Nat, NEW c \in Customer,
         Handle(op, ds, n, c), NEW h \in holds \ holds'
  PROVE  \/ \E o \in orders' \ orders : h.diamond \in o.diamonds
         \/ op = "release" /\ h.id = n
<1>1. CASE op = "release" /\ \E d \in ds : Release(d, n)
  BY <1>1 DEF Release
<1>2. CASE Order(ds, c)
  <2>1. PICK o : o = [id |-> sequence, diamonds |-> ds, by |-> c]
    OBVIOUS
  <2>2. h.diamond \in ds /\ o \in orders' /\ o.diamonds = ds /\ o.id = sequence
    BY <1>2, <2>1 DEF Order
  <2>3. o \notin orders
    BY <2>2 DEF ErpInv, ErpTypeOK, ReferencesDrawnOnce
  <2> QED
    BY <2>2, <2>3
<1>3. CASE Quote \/ UNCHANGED erpVars \/ \E d \in ds : Hold(d, c)
  BY <1>3 DEF Quote, erpVars, Hold
<1> QED
  BY <1>1, <1>2, <1>3 DEF Handle

(* A hold ends by a release or an order.                                   *)
LEMMA StepEnds ==
  ASSUME ResInv, [Next]_vars, NEW h \in holds \ holds'
  PROVE  \/ \E o \in orders' \ orders : h.diamond \in o.diamonds
         \/ \E c \in Customer : AsksToRelease(c, h.id)
         \/ \E m \in late : m.op = "release" /\ m.hold = h.id
<1>1. ASSUME NEW c \in Customer, Serve(c)
      PROVE  (\E o \in orders' \ orders : h.diamond \in o.diamonds) \/ AsksToRelease(c, h.id)
  <2>1. PICK op, ds, n : op = ask[c].op /\ ds = ask[c].diamonds /\ n = ask[c].hold
    OBVIOUS
  <2>2. ds \in SUBSET Diamond /\ n \in Nat
    BY <2>1, CallIsTyped DEF Ask
  <2>3. Handle(op, ds, n, c) /\ ErpInv
    BY <1>1, <2>1 DEF Serve, ResInv
  <2>4. \/ \E o \in orders' \ orders : h.diamond \in o.diamonds
        \/ op = "release" /\ h.id = n
    BY <2>2, <2>3, HandleEnds
  <2> QED
    BY <2>1, <2>4 DEF AsksToRelease
<1>2. ASSUME NEW m \in late, ServeLate(m)
      PROVE  \/ \E o \in orders' \ orders : h.diamond \in o.diamonds
             \/ m.op = "release" /\ m.hold = h.id
  <2>1. m \in Request /\ ErpInv
    BY DEF ResInv, TypeOK
  <2>2. m.diamonds \in SUBSET Diamond /\ m.hold \in Nat /\ m.by \in Customer
    BY <2>1 DEF Request
  <2>3. Handle(m.op, m.diamonds, m.hold, m.by)
    BY <1>2 DEF ServeLate
  <2> QED
    BY <2>1, <2>2, <2>3, HandleEnds
<1>3. ASSUME NEW c \in Customer, Start(c) \/ Acquire(c) \/ Advance(c) PROVE UNCHANGED erpVars
  BY <1>3 DEF Start, HoldDiamond, ReleaseHold, CreateQuotation, PlaceOrder, Begin, Acquire,
     Advance, AttemptFails, Refused, Verified, Confirmed, HoldMade, Released, SaveRecord,
     ScheduleExpiry, MarkReleased, CancelExpiry, StorageFails
<1>4. ASSUME Work \/ Crash \/ UNCHANGED vars PROVE UNCHANGED erpVars
  BY <1>4 DEF Work, FindHold, MarkExpired, JobFails, Crash, vars
<1>5. ~ UNCHANGED erpVars
  BY DEF erpVars
<1> QED
  BY <1>1, <1>2, <1>3, <1>4, <1>5 DEF Next

(* A hold ends by an order on its diamond or by a release that names its   *)
(* number, whoever asks for it; no job, retry or crash ends it (release).  *)
THEOREM EndsByRequest == Spec => HoldsEndByRequest
<1>1. ResInv /\ [Next]_vars =>
        [\A h \in holds \ holds' :
           \/ \E o \in orders' \ orders : h.diamond \in o.diamonds
           \/ \E c \in Customer : AsksToRelease(c, h.id)
           \/ \E m \in late : m.op = "release" /\ m.hold = h.id]_vars
  BY StepEnds
<1> QED
  BY <1>1, MirrorSafety, PTL DEF Spec, HoldsEndByRequest

-----------------------------------------------------------------------------
(* How many steps call k with its ERP request a may still take: every      *)
(* attempt of every request there may be, and the two steps that follow    *)
(* the last of them.                                                       *)
Unchecked(k, a) == k.diamonds \ (k.verified \cup a.diamonds)

RequestsAfter(k, a) ==
  IF a.op = "availability" THEN Cardinality(Unchecked(k, a)) + 1 ELSE 0

LeftOf(k, a) ==
  IF k.step = "asking"
  THEN RequestsAfter(k, a) * (MaxRetries + 1) + (MaxRetries + 1 - a.attempt) + 2
  ELSE IF k.step \in {"saving", "marking"} THEN 2
  ELSE IF k.step \in {"scheduling", "unscheduling"} THEN 1
  ELSE 0

CallLeft(c) == LeftOf(call[c], ask[c])

(* A check is about a diamond of its call.                                 *)
ChecksItsOwn(k, a) == a.op = "availability" => a.diamonds \cap k.diamonds # {}

CallsAreShort ==
  \A c \in Customer :
    /\ ChecksItsOwn(call[c], ask[c])
    /\ CallLeft(c) \in
         0 .. (Cardinality(call[c].diamonds) + 1) * (MaxRetries + 1) + 2
    /\ CallLeft(c) = 0 <=> call[c].step = "idle"

CallsRunDown ==
  [][\A c \in Customer :
       /\ call[c].step # "idle" => CallLeft(c)' <= CallLeft(c)
       /\ Advance(c) => CallLeft(c)' < CallLeft(c)]_vars

(* Diamonds are counted.                                                   *)
LEMMA UncheckedCounts ==
  ASSUME NEW k \in Call, NEW a \in Ask
  PROVE  /\ MaxRetries \in Nat /\ a.attempt \in Nat /\ a.attempt <= MaxRetries
         /\ RequestsAfter(k, a) \in Nat /\ Cardinality(k.diamonds) \in Nat
         /\ Cardinality(Unchecked(k, a)) \in Nat /\ IsFiniteSet(Unchecked(k, a))
         /\ ChecksItsOwn(k, a) => RequestsAfter(k, a) <= Cardinality(k.diamonds)
<1>1. MaxRetries \in Nat /\ a.attempt \in Nat /\ a.attempt <= MaxRetries
  BY BoundsAssumption DEF Ask
<1>2. /\ k.diamonds \in SUBSET Diamond /\ Unchecked(k, a) \in SUBSET k.diamonds
  BY DEF Call, Unchecked
<1>3. IsFiniteSet(k.diamonds)
  BY <1>2, InventoryAssumption, FS_Subset
<1>4. IsFiniteSet(Unchecked(k, a)) /\ Cardinality(Unchecked(k, a)) <= Cardinality(k.diamonds)
  BY <1>2, <1>3, FS_Subset
<1>5. Cardinality(k.diamonds) \in Nat /\ Cardinality(Unchecked(k, a)) \in Nat
  BY <1>3, <1>4, FS_CardinalityType
<1>6. RequestsAfter(k, a) \in Nat
  BY <1>5 DEF RequestsAfter
<1>7. ASSUME ChecksItsOwn(k, a) PROVE RequestsAfter(k, a) <= Cardinality(k.diamonds)
  <2>1. CASE a.op = "availability"
    <3>1. PICK d : d \in k.diamonds /\ d \in a.diamonds
      BY <1>7, <2>1 DEF ChecksItsOwn
    <3>2. /\ IsFiniteSet(k.diamonds \ {d})
          /\ Cardinality(k.diamonds \ {d}) = Cardinality(k.diamonds) - 1
      BY <1>3, <3>1, FS_RemoveElement
    <3>3. Unchecked(k, a) \in SUBSET (k.diamonds \ {d})
      BY <3>1 DEF Unchecked
    <3>4. Cardinality(Unchecked(k, a)) <= Cardinality(k.diamonds) - 1
      BY <3>2, <3>3, FS_Subset
    <3> QED
      BY <1>5, <2>1, <3>4 DEF RequestsAfter
  <2>2. CASE a.op # "availability"
    BY <1>5, <2>2 DEF RequestsAfter
  <2> QED
    BY <2>1, <2>2
<1> QED
  BY <1>1, <1>4, <1>5, <1>6, <1>7

(* So many requests of so many attempts.                                   *)
LEMMA Attempts ==
  ASSUME NEW n \in Nat, NEW m \in Nat, n <= m, NEW r \in Nat
  PROVE  /\ n * (r + 1) \in Nat /\ m * (r + 1) \in Nat /\ n * (r + 1) <= m * (r + 1)
         /\ (n + 1) * (r + 1) = n * (r + 1) + r + 1
         /\ (m + 1) * (r + 1) = m * (r + 1) + r + 1
<1>1. PICK s \in Nat : s = r + 1
  OBVIOUS
<1>2. PICK k \in Nat : m = n + k
  BY m - n \in Nat
<1>3. \A x, y, z \in Nat : x * z \in Nat /\ (x + y) * z = x * z + y * z /\ (x + 1) * z = x * z + z
  OBVIOUS
<1>4. m * s = n * s + k * s /\ n * s \in Nat /\ k * s \in Nat
  BY <1>1, <1>2, <1>3
<1> QED
  BY <1>1, <1>3, <1>4

(* A call that is at the ERP has steps left for it, and two.               *)
LEMMA LeftAtTheErp ==
  ASSUME NEW k \in Call, NEW a \in Ask
  PROVE  /\ LeftOf(k, a) \in Nat
         /\ k.step = "asking" => LeftOf(k, a) > 2
         /\ k.step # "asking" => LeftOf(k, a) <= 2
         /\ LeftOf(k, a) = 0 <=> k.step = "idle"
         /\ ChecksItsOwn(k, a) =>
              LeftOf(k, a) \in 0 .. (Cardinality(k.diamonds) + 1) * (MaxRetries + 1) + 2
<1>1. PICK n \in Nat, m \in Nat, r \in Nat, t \in Nat :
        n = RequestsAfter(k, a) /\ m = Cardinality(k.diamonds) /\ r = MaxRetries
        /\ t = a.attempt /\ t <= r /\ (ChecksItsOwn(k, a) => n <= m)
  BY UncheckedCounts
<1>2. n * (r + 1) \in Nat /\ m * (r + 1) \in Nat /\ (m + 1) * (r + 1) = m * (r + 1) + r + 1
  BY Attempts
<1>3. CASE k.step = "asking"
  <2>1. LeftOf(k, a) = n * (r + 1) + (r + 1 - t) + 2
    BY <1>1, <1>3 DEF LeftOf
  <2>2. LeftOf(k, a) \in Nat /\ LeftOf(k, a) > 2
    BY <1>1, <1>2, <2>1
  <2>3. ASSUME ChecksItsOwn(k, a) PROVE LeftOf(k, a) <= (m + 1) * (r + 1) + 2
    <3>1. n <= m
      BY <1>1, <2>3
    <3>2. n * (r + 1) <= m * (r + 1)
      BY <3>1, Attempts
    <3> QED
      BY <1>1, <1>2, <2>1, <3>2
  <2> QED
    BY <1>1, <1>2, <1>3, <2>2, <2>3
<1>4. CASE k.step # "asking"
  <2>1. LeftOf(k, a) \in 0 .. 2 /\ (LeftOf(k, a) = 0 <=> k.step = "idle")
    BY <1>4 DEF LeftOf, Call, Steps
  <2>2. (m + 1) * (r + 1) + 2 \in Nat /\ (m + 1) * (r + 1) + 2 >= 2
    BY <1>2
  <2> QED
    BY <1>1, <1>4, <2>1, <2>2
<1> QED
  BY <1>3, <1>4

(* An attempt more, or a request less to make, is a step less to take.     *)
LEMMA FewerAreLeft ==
  ASSUME NEW k \in Call, NEW a \in Ask, NEW l \in Call, NEW b \in Ask,
         k.step = "asking", l.step = "asking",
         \/ RequestsAfter(l, b) = RequestsAfter(k, a) /\ b.attempt = a.attempt + 1
         \/ RequestsAfter(l, b) + 1 = RequestsAfter(k, a)
  PROVE  LeftOf(l, b) < LeftOf(k, a)
<1>1. PICK n \in Nat, m \in Nat, r \in Nat, t \in Nat, u \in Nat :
        n = RequestsAfter(k, a) /\ m = RequestsAfter(l, b) /\ r = MaxRetries
        /\ t = a.attempt /\ t <= r /\ u = b.attempt /\ u <= r
  BY UncheckedCounts
<1>2. /\ LeftOf(k, a) = n * (r + 1) + (r + 1 - t) + 2
      /\ LeftOf(l, b) = m * (r + 1) + (r + 1 - u) + 2
  BY <1>1 DEF LeftOf
<1>3. n * (r + 1) \in Nat /\ m * (r + 1) \in Nat /\ (m + 1) * (r + 1) = m * (r + 1) + r + 1
  BY Attempts
<1>4. CASE m = n /\ u = t + 1
  BY <1>1, <1>2, <1>3, <1>4
<1>5. CASE m + 1 = n
  BY <1>1, <1>2, <1>3, <1>5
<1> QED
  BY <1>1, <1>4, <1>5

(* A call that becomes l with the request b is nearer to its end.          *)
Nearer(c, l, b) ==
  /\ call' = [call EXCEPT ![c] = l] /\ ask' = [ask EXCEPT ![c] = b]
  /\ ChecksItsOwn(l, b) /\ LeftOf(l, b) < LeftOf(call[c], ask[c])

(* The end is.                                                             *)
LEMMA FinishIsNearer ==
  ASSUME ResInv, NEW c \in Customer, call[c].step # "idle", Finish(c)
  PROVE  Nearer(c, NoCall, NoAsk)
<1>1. LeftOf(call[c], ask[c]) \in Nat /\ LeftOf(call[c], ask[c]) # 0
  BY CallIsTyped, LeftAtTheErp
<1>2. LeftOf(NoCall, NoAsk) = 0 /\ ChecksItsOwn(NoCall, NoAsk)
  BY DEF LeftOf, NoCall, NoAsk, ChecksItsOwn
<1>3. 0 < LeftOf(call[c], ask[c])
  BY <1>1
<1> QED
  BY <1>2, <1>3 DEF Finish, Nearer

(* An attempt fails.                                                       *)
LEMMA AttemptFailsIsNearer ==
  ASSUME ResInv, NEW c \in Customer, ChecksItsOwn(call[c], ask[c]), AttemptFails(c)
  PROVE  \E l, b : Nearer(c, l, b)
<1>1. call[c] \in Call /\ ask[c] \in Ask /\ call[c].step = "asking"
  BY CallIsTyped DEF AttemptFails, Sent
<1>2. CASE Finish(c)
  BY <1>1, <1>2, FinishIsNearer
<1>3. CASE /\ ask[c].attempt < MaxRetries /\ UNCHANGED call
           /\ ask' = [ask EXCEPT ![c].attempt = @ + 1, ![c].verdict = "waiting", ![c].id = 0]
  <2>1. PICK b : b = [ask[c] EXCEPT !.attempt = @ + 1, !.verdict = "waiting", !.id = 0]
    OBVIOUS
  <2>2. ask' = [ask EXCEPT ![c] = b]
    BY <1>3, <2>1
  <2>3. call' = [call EXCEPT ![c] = call[c]]
    BY <1>3 DEF ResInv, TypeOK
  <2>4. ask[c].attempt + 1 \in 0 .. MaxRetries
    BY <1>1, <1>3, BoundsAssumption DEF Ask
  <2>5. /\ b \in Ask /\ b.attempt = ask[c].attempt + 1
        /\ b.op = ask[c].op /\ b.diamonds = ask[c].diamonds
    BY <1>1, <2>1, <2>4 DEF Ask, Verdicts
  <2>6. RequestsAfter(call[c], b) = RequestsAfter(call[c], ask[c]) /\ ChecksItsOwn(call[c], b)
    BY <2>5 DEF RequestsAfter, Unchecked, ChecksItsOwn
  <2>7. LeftOf(call[c], b) < LeftOf(call[c], ask[c])
    BY <1>1, <2>5, <2>6, FewerAreLeft
  <2> QED
    BY <2>2, <2>3, <2>6, <2>7 DEF Nearer
<1> QED
  BY <1>2, <1>3 DEF AttemptFails

(* A diamond is in stock.                                                  *)
LEMMA VerifiedIsNearer ==
  ASSUME ResInv, NEW c \in Customer, Verified(c)
  PROVE  \E l, b : Nearer(c, l, b)
<1>1. PICK k, a : k = call[c] /\ a = ask[c]
  OBVIOUS
<1>2. k \in Call /\ a \in Ask /\ CallIsSound(c, k, a)
  BY <1>1, CallIsTyped
<1>3. PICK seen : seen = k.verified \cup a.diamonds
  OBVIOUS
<1>4. PICK l : l = [k EXCEPT !.verified = seen]
  OBVIOUS
<1>5. /\ k.step = "asking" /\ a.op = "availability" /\ call' = [call EXCEPT ![c] = l]
      /\ \/ \E d \in k.diamonds \ seen :
              ask' = [ask EXCEPT ![c] = FirstAttempt("availability", {d}, 0)]
         \/ /\ k.diamonds \ seen = {}
            /\ ask' = [ask EXCEPT ![c] = FirstAttempt(Commitment[k.name], k.diamonds, 0)]
  BY <1>1, <1>3, <1>4 DEF Verified, Reads
<1>6. /\ l \in Call /\ l.step = "asking" /\ l.diamonds = k.diamonds /\ l.verified = seen
  BY <1>2, <1>3, <1>4, <1>5 DEF Call, Ask
<1>7. /\ RequestsAfter(k, a) = Cardinality(k.diamonds \ seen) + 1
      /\ Cardinality(k.diamonds \ seen) \in Nat /\ IsFiniteSet(k.diamonds \ seen)
  BY <1>2, <1>3, <1>5, UncheckedCounts DEF RequestsAfter, Unchecked
<1>8. ASSUME NEW d \in k.diamonds \ seen,
             ask' = [ask EXCEPT ![c] = FirstAttempt("availability", {d}, 0)]
      PROVE  \E b : Nearer(c, l, b)
  <2>1. PICK b : b = FirstAttempt("availability", {d}, 0)
    OBVIOUS
  <2>2. b \in Ask /\ b.op = "availability" /\ b.diamonds = {d}
    BY <1>2, <2>1, FirstAttemptIsTyped DEF Call, Operations, FirstAttempt
  <2>3. Unchecked(l, b) = (k.diamonds \ seen) \ {d}
    BY <1>6, <2>2 DEF Unchecked
  <2>4. Cardinality(Unchecked(l, b)) = Cardinality(k.diamonds \ seen) - 1
    BY <1>7, <2>3, FS_RemoveElement
  <2>5. RequestsAfter(l, b) + 1 = RequestsAfter(k, a)
    BY <1>7, <2>2, <2>4 DEF RequestsAfter
  <2>6. ChecksItsOwn(l, b)
    BY <1>6, <2>2 DEF ChecksItsOwn
  <2>7. LeftOf(l, b) < LeftOf(k, a)
    BY <1>2, <1>5, <1>6, <2>2, <2>5, FewerAreLeft
  <2> QED
    BY <1>1, <1>5, <1>8, <2>1, <2>6, <2>7 DEF Nearer
<1>9. ASSUME k.diamonds \ seen = {},
             ask' = [ask EXCEPT ![c] = FirstAttempt(Commitment[k.name], k.diamonds, 0)]
      PROVE  \E b : Nearer(c, l, b)
  <2>1. PICK op, b : op = Commitment[k.name] /\ b = FirstAttempt(op, k.diamonds, 0)
    OBVIOUS
  <2>2. op \in {"hold", "order"}
    BY <1>2, <1>5, <2>1 DEF CallIsSound, Commitment
  <2>3. b \in Ask /\ b.op = op
    BY <1>2, <2>1, <2>2, FirstAttemptIsTyped DEF Call, Operations, FirstAttempt
  <2>4. RequestsAfter(l, b) = 0 /\ ChecksItsOwn(l, b)
    BY <2>2, <2>3 DEF RequestsAfter, ChecksItsOwn
  <2>5. RequestsAfter(k, a) = 1
    BY <1>7, <1>9, FS_EmptySet
  <2>6. LeftOf(l, b) < LeftOf(k, a)
    BY <1>2, <1>5, <1>6, <2>3, <2>4, <2>5, FewerAreLeft
  <2> QED
    BY <1>1, <1>5, <1>9, <2>1, <2>4, <2>6 DEF Nearer
<1> QED
  BY <1>5, <1>8, <1>9

(* Any step a call takes.                                                  *)
LEMMA AdvanceIsNearer ==
  ASSUME ResInv, ResInv', NEW c \in Customer, ChecksItsOwn(call[c], ask[c]), Advance(c)
  PROVE  \E l, b : Nearer(c, l, b)
<1>1. /\ call[c] \in Call /\ ask[c] \in Ask /\ CallIsSound(c, call[c], ask[c])
      /\ call'[c] \in Call /\ ask'[c] \in Ask
  BY CallIsTyped DEF ResInv, TypeOK
<1>2. CASE AttemptFails(c) \/ Verified(c)
  BY <1>2, AttemptFailsIsNearer, VerifiedIsNearer
<1>3. CASE \/ Refused(c) \/ Confirmed(c) \/ ScheduleExpiry(c) \/ CancelExpiry(c)
           \/ StorageFails(c)
  <2>1. Finish(c) /\ call[c].step # "idle"
    BY <1>3 DEF Refused, Confirmed, ScheduleExpiry, CancelExpiry, StorageFails, Refusable, Reads
  <2> QED
    BY <2>1, FinishIsNearer
<1>4. CASE HoldMade(c) \/ Released(c)
  <2>1. PICK l : l = call'[c]
    OBVIOUS
  <2>2. call' = [call EXCEPT ![c] = l] /\ ask' = [ask EXCEPT ![c] = NoAsk]
        /\ call[c].step = "asking" /\ l.step \in {"saving", "marking"}
    BY <1>1, <1>4, <2>1 DEF HoldMade, Released, Reads, ResInv, TypeOK, Call
  <2>3. l \in Call /\ NoAsk \in Ask /\ ChecksItsOwn(l, NoAsk)
    BY <1>1, <2>1, NothingIsSound DEF NoAsk, ChecksItsOwn
  <2>4. LeftOf(l, NoAsk) \in Nat /\ LeftOf(l, NoAsk) <= 2
    BY <2>2, <2>3, LeftAtTheErp
  <2>5. LeftOf(call[c], ask[c]) \in Nat /\ LeftOf(call[c], ask[c]) > 2
    BY <1>1, <2>2, LeftAtTheErp
  <2>6. LeftOf(l, NoAsk) < LeftOf(call[c], ask[c])
    BY <2>4, <2>5
  <2> QED
    BY <2>2, <2>3, <2>6 DEF Nearer
<1>5. CASE SaveRecord(c) \/ MarkReleased(c)
  <2>1. PICK l : l = call'[c]
    OBVIOUS
  <2>2. /\ call' = [call EXCEPT ![c] = l] /\ ask' = [ask EXCEPT ![c] = ask[c]]
        /\ call[c].step \in {"saving", "marking"} /\ l.step \in {"scheduling", "unscheduling"}
    BY <1>1, <1>5, <2>1 DEF SaveRecord, MarkReleased, ResInv, TypeOK, Call
  <2>3. LeftOf(l, ask[c]) = 1 /\ LeftOf(call[c], ask[c]) = 2
    BY <2>2 DEF LeftOf
  <2>4. ask[c].op = "none"
    BY <1>1, <2>2 DEF CallIsSound
  <2>5. ChecksItsOwn(l, ask[c])
    BY <2>4 DEF ChecksItsOwn
  <2>6. LeftOf(l, ask[c]) < LeftOf(call[c], ask[c])
    BY <2>3
  <2> QED
    BY <2>2, <2>5, <2>6 DEF Nearer
<1> QED
  BY <1>2, <1>3, <1>4, <1>5 DEF Advance

(* What a step may do to the call of one customer.                         *)
RunsDown(c) ==
  /\ ChecksItsOwn(call[c], ask[c])'
  /\ call[c].step # "idle" => CallLeft(c)' <= CallLeft(c)
  /\ Advance(c) => CallLeft(c)' < CallLeft(c)

(* A call left as it is.                                                   *)
StaysPut(c) == call'[c] = call[c] /\ ask'[c] = ask[c]

(* A call that begins checks a diamond of its own.                         *)
LEMMA StartChecksItsOwn ==
  ASSUME ResInv, NEW c \in Customer, Start(c)
  PROVE  call[c].step = "idle" /\ ChecksItsOwn(call'[c], ask'[c])
<1>1. ASSUME NEW name, NEW ds, NEW n, NEW op, NEW asked, Begin(c, name, ds, n, op, asked),
             op = "availability" => asked \cap ds # {}
      PROVE  call[c].step = "idle" /\ ChecksItsOwn(call'[c], ask'[c])
  <2>1. PICK k, a : /\ k = [step |-> "asking", name |-> name, diamonds |-> ds,
                            hold |-> n, verified |-> {}]
                    /\ a = FirstAttempt(op, asked, n)
    OBVIOUS
  <2>2. call' = [call EXCEPT ![c] = k] /\ ask' = [ask EXCEPT ![c] = a] /\ call[c].step = "idle"
    BY <1>1, <2>1 DEF Begin
  <2>3. call'[c] = k /\ ask'[c] = a
    BY <2>2 DEF ResInv, TypeOK
  <2>4. ChecksItsOwn(k, a)
    BY <1>1, <2>1 DEF ChecksItsOwn, FirstAttempt
  <2> QED
    BY <2>2, <2>3, <2>4
<1>2. ASSUME NEW d \in Diamond, HoldDiamond(c, d)
      PROVE  call[c].step = "idle" /\ ChecksItsOwn(call'[c], ask'[c])
  BY <1>1, <1>2 DEF HoldDiamond
<1>3. ASSUME NEW d \in Diamond, NEW n \in 0 .. MaxSequence - 1, ReleaseHold(c, d, n)
      PROVE  call[c].step = "idle" /\ ChecksItsOwn(call'[c], ask'[c])
  BY <1>1, <1>3 DEF ReleaseHold
<1>4. ASSUME NEW ds \in Baskets, CreateQuotation(c, ds)
      PROVE  call[c].step = "idle" /\ ChecksItsOwn(call'[c], ask'[c])
  BY <1>1, <1>4 DEF CreateQuotation
<1>5. ASSUME NEW ds \in Baskets, NEW d \in ds, PlaceOrder(c, ds, d)
      PROVE  call[c].step = "idle" /\ ChecksItsOwn(call'[c], ask'[c])
  <2>1. {d} \cap ds # {}
    OBVIOUS
  <2> QED
    BY <1>1, <1>5, <2>1 DEF PlaceOrder
<1> QED
  BY <1>2, <1>3, <1>4, <1>5 DEF Start

(* An attempt that has its token is still to be ended, and an answer of    *)
(* the ERP still to be read.                                               *)
LEMMA ServeLeavesAsMuch ==
  ASSUME ResInv, NEW c \in Customer, ChecksItsOwn(call[c], ask[c]), Acquire(c) \/ Serve(c)
  PROVE  ChecksItsOwn(call'[c], ask'[c]) /\ CallLeft(c)' = CallLeft(c)
<1>1. ask[c] \in Ask
  BY CallIsTyped
<1>2. PICK b : b = ask'[c]
  OBVIOUS
<1>3. ask'[c] = b /\ call'[c] = call[c]
  BY <1>2 DEF Acquire, Serve
<1>4. b.op = ask[c].op /\ b.diamonds = ask[c].diamonds /\ b.attempt = ask[c].attempt
  <2>1. CASE Acquire(c)
    <3>1. b = [ask[c] EXCEPT !.verdict = "pending"]
      BY <1>2, <2>1 DEF Acquire, ResInv, TypeOK
    <3> QED
      BY <1>1, <3>1 DEF Ask
  <2>2. CASE Serve(c)
    <3>1. PICK v, n : ask' = [ask EXCEPT ![c].verdict = v, ![c].id = n]
      BY <2>2 DEF Serve
    <3>2. b = [ask[c] EXCEPT !.verdict = v, !.id = n]
      BY <1>2, <3>1 DEF ResInv, TypeOK
    <3> QED
      BY <1>1, <3>2 DEF Ask
  <2> QED
    BY <2>1, <2>2
<1>6. RequestsAfter(call[c], b) = RequestsAfter(call[c], ask[c]) /\ ChecksItsOwn(call[c], b)
  BY <1>4 DEF RequestsAfter, Unchecked, ChecksItsOwn
<1>7. LeftOf(call[c], b) = LeftOf(call[c], ask[c])
  BY <1>4, <1>6 DEF LeftOf
<1> QED
  BY <1>3, <1>6, <1>7 DEF CallLeft

(* The steps of other calls, of the ERP and of the worker leave it alone.  *)
LEMMA OthersStayPut ==
  ASSUME ResInv, NEW c \in Customer, NEW b \in Customer, b # c,
         Start(b) \/ Acquire(b) \/ Serve(b) \/ \E l, a : Nearer(b, l, a)
  PROVE  StaysPut(c)
<1>1. \A k : call' = [call EXCEPT ![b] = k] => call'[c] = call[c]
  BY DEF ResInv, TypeOK
<1>2. \A a : ask' = [ask EXCEPT ![b] = a] => ask'[c] = ask[c]
  BY DEF ResInv, TypeOK
<1>3. CASE Start(b)
  BY <1>1, <1>2, <1>3 DEF Start, HoldDiamond, ReleaseHold, CreateQuotation, PlaceOrder, Begin,
     StaysPut
<1>4. CASE Acquire(b) \/ Serve(b)
  <2>1. ask'[c] = ask[c] /\ call' = call
    BY <1>4 DEF Acquire, Serve, ResInv, TypeOK
  <2> QED
    BY <2>1 DEF StaysPut
<1>5. CASE \E l, a : Nearer(b, l, a)
  BY <1>1, <1>2, <1>5 DEF Nearer, StaysPut
<1> QED
  BY <1>3, <1>4, <1>5

(* No step leaves a call that is under way more to do.                     *)
LEMMA StepRunsDown ==
  ASSUME ResInv, ResInv', CallsAreShort, [Next]_vars, NEW c \in Customer
  PROVE  RunsDown(c)
<1>1. /\ \A b \in Customer : ChecksItsOwn(call[b], ask[b])
      /\ call[c] \in Call /\ ask[c] \in Ask /\ call'[c] \in Call /\ ask'[c] \in Ask
  BY CallIsTyped DEF CallsAreShort, ResInv, TypeOK
<1>2. PICK m \in Nat, n \in Nat : m = CallLeft(c) /\ n = CallLeft(c)'
  BY <1>1, LeftAtTheErp DEF CallLeft
<1>3. CASE Advance(c)
  <2>1. PICK l, b : Nearer(c, l, b)
    BY <1>1, <1>3, AdvanceIsNearer
  <2>2. call'[c] = l /\ ask'[c] = b
    BY <2>1 DEF Nearer, ResInv, TypeOK
  <2>3. ChecksItsOwn(call'[c], ask'[c]) /\ CallLeft(c)' < CallLeft(c)
    BY <2>1, <2>2 DEF Nearer, CallLeft
  <2>4. CallLeft(c)' <= CallLeft(c)
    BY <1>2, <2>3
  <2> QED
    BY <2>3, <2>4 DEF RunsDown
<1>4. CASE ~ Advance(c)
  <2>1. ASSUME StaysPut(c) PROVE RunsDown(c)
    <3>1. ChecksItsOwn(call'[c], ask'[c]) /\ CallLeft(c)' = CallLeft(c)
      BY <1>1, <2>1 DEF StaysPut, CallLeft
    <3>2. CallLeft(c)' <= CallLeft(c)
      BY <1>2, <3>1
    <3> QED
      BY <1>4, <3>1, <3>2 DEF RunsDown
  <2>2. ASSUME Start(c) PROVE RunsDown(c)
    BY <1>4, <2>2, StartChecksItsOwn DEF RunsDown
  <2>3. ASSUME Acquire(c) \/ Serve(c) PROVE RunsDown(c)
    <3>1. ChecksItsOwn(call'[c], ask'[c]) /\ CallLeft(c)' = CallLeft(c)
      BY <1>1, <2>3, ServeLeavesAsMuch
    <3>2. CallLeft(c)' <= CallLeft(c)
      BY <1>2, <3>1
    <3> QED
      BY <1>4, <3>1, <3>2 DEF RunsDown
  <2>4. ASSUME NEW b \in Customer, b # c, Start(b) \/ Acquire(b) \/ Serve(b) \/ Advance(b)
        PROVE  StaysPut(c)
    <3>1. ASSUME Advance(b) PROVE \E l, a : Nearer(b, l, a)
      BY <1>1, <3>1, AdvanceIsNearer
    <3> QED
      BY <2>4, <3>1, OthersStayPut
  <2>5. ASSUME Crash PROVE RunsDown(c)
    <3>1. call'[c] = NoCall /\ ask'[c] = NoAsk
      BY <2>5 DEF Crash
    <3>2. ChecksItsOwn(NoCall, NoAsk) /\ LeftOf(NoCall, NoAsk) = 0
      BY DEF ChecksItsOwn, LeftOf, NoCall, NoAsk
    <3>3. CallLeft(c)' = 0
      BY <3>1, <3>2 DEF CallLeft
    <3>4. CallLeft(c)' <= CallLeft(c)
      BY <1>2, <3>3
    <3> QED
      BY <1>4, <3>1, <3>2, <3>4 DEF RunsDown
  <2>6. ASSUME Work \/ (\E m1 \in late : ServeLate(m1)) \/ UNCHANGED vars PROVE StaysPut(c)
    BY <2>6 DEF Work, FindHold, MarkExpired, JobFails, ServeLate, vars, StaysPut
  <2> QED
    BY <1>4, <2>1, <2>2, <2>3, <2>4, <2>5, <2>6 DEF Next
<1> QED
  BY <1>3, <1>4

(* A call has so many steps left as its diamonds and attempts allow, and   *)
(* none only when it has returned (ErpService.request gives up after       *)
(* MAX_RETRIES; place_order checks each diamond once).                     *)
THEOREM CallsStayShort == Spec => [](ResInv /\ CallsAreShort)
<1>1. ASSUME ResInv, \A c \in Customer : ChecksItsOwn(call[c], ask[c])
      PROVE  CallsAreShort
  BY <1>1, CallIsTyped, LeftAtTheErp DEF CallsAreShort, CallLeft
<1>2. Init => ResInv /\ CallsAreShort
  <2>1. Init => \A c \in Customer : ChecksItsOwn(call[c], ask[c])
    BY DEF Init, NoAsk, ChecksItsOwn
  <2> QED
    BY <1>1, <2>1, InitIsRight
<1>3. ResInv /\ CallsAreShort /\ [Next]_vars => ResInv' /\ CallsAreShort'
  <2> SUFFICES ASSUME ResInv, CallsAreShort, [Next]_vars PROVE ResInv' /\ CallsAreShort'
    OBVIOUS
  <2>1. ResInv'
    BY ResStep
  <2>2. \A c \in Customer : ChecksItsOwn(call'[c], ask'[c]) /\ call'[c] \in Call /\ ask'[c] \in Ask
    BY <2>1, StepRunsDown DEF RunsDown, ResInv, TypeOK
  <2> QED
    BY <2>1, <2>2, LeftAtTheErp DEF CallsAreShort, CallLeft
<1> QED
  BY <1>2, <1>3, PTL DEF Spec

(* Each step a call takes leaves fewer, and nothing else, the token it     *)
(* gets, the ERP and a crash included, leaves it more: a call that is not  *)
(* kept waiting for a token returns.                                       *)
THEOREM EveryStepReturns == Spec => CallsRunDown
<1>1. ResInv /\ ResInv' /\ CallsAreShort /\ [Next]_vars =>
        [\A c \in Customer :
           /\ call[c].step # "idle" => CallLeft(c)' <= CallLeft(c)
           /\ Advance(c) => CallLeft(c)' < CallLeft(c)]_vars
  BY StepRunsDown DEF RunsDown
<1> QED
  BY <1>1, CallsStayShort, PTL DEF Spec, CallsRunDown
=============================================================================
