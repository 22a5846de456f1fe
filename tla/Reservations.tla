----------------------------- MODULE Reservations -----------------------------
(***************************************************************************)
(* The commitments the chatbot makes in the dealer's system, end to end:   *)
(*                                                                         *)
(*   ToolExecutor.dispatch    the tools hold_diamond, release_hold,        *)
(*                            create_quotation and place_order, as one     *)
(*                            process per customer;                        *)
(*   HoldsService             createHold and releaseHold, the local mirror *)
(*                            of holds (Postgres) and the expiry jobs      *)
(*                            (BullMQ on Redis);                           *)
(*   HoldsProcessor           the worker that runs the expiry jobs;        *)
(*   ErpService.request       the retry loop, over a network that loses,   *)
(*                            delays and reorders requests and answers;    *)
(*   DealerErp                the system at the other end.                 *)
(*                                                                         *)
(* Time is abstract: an expiry job runs at any moment after it was added,  *)
(* an attempt fails at any moment before its answer is read.  Before every *)
(* attempt the call waits for a token of the rate limiter (RateLimiter),   *)
(* maybe for ever.  A customer is a conversation whose turns run one after *)
(* another, and whose model may call any tool with any arguments.          *)
(***************************************************************************)
EXTENDS DealerErp, FiniteSets

CONSTANTS
  MaxRetries,      \* MAX_RETRIES of erp.service.ts (3 in the code)
  MaxLate,         \* bound: requests on the wire that nobody waits for
  MaxCrashes,      \* bound: crashes of the API process
  StorageFaults,   \* whether a tool's calls to Postgres and Redis may fail
  JobFaults,       \* whether those of the expiry worker may
  QueueTakesColons \* whether the queue's library accepts a job id with one colon

ASSUME BoundsAssumption == {MaxRetries, MaxLate, MaxCrashes} \subseteq Nat
ASSUME FaultsAssumption == {StorageFaults, JobFaults, QueueTakesColons} \subseteq BOOLEAN
ASSUME InventoryAssumption == IsFiniteSet(Diamond)

VARIABLES
  call,        \* the customer's tool call: [step, name, diamonds, hold, verified]
  ask,         \* its ERP request: [op, diamonds, hold, attempt, verdict, id]
  late,        \* abandoned requests that may still reach the ERP
  records,     \* the holds table: [hold, diamond, by, status]
  jobs,        \* the expiry queue: job ids
  worker,      \* NoJob, or the job whose row the worker has found held
  receipts,    \* hold receipts shown to customers: [hold, diamond, by]
  crashes      \* how often the API process has crashed

vars == <<erpVars, call, ask, late, records, jobs, worker, receipts, crashes>>

Steps == {"idle", "asking", "saving", "scheduling", "marking", "unscheduling"}
Tools == {"none", "hold_diamond", "release_hold", "create_quotation", "place_order"}
Operations == {"none", "availability", "hold", "release", "quotation", "order"}
Verdicts == {"waiting", "pending", "accepted", "refused"}

Call == [step: Steps, name: Tools, diamonds: SUBSET Diamond, hold: Nat,
         verified: SUBSET Diamond]
Ask == [op: Operations, diamonds: SUBSET Diamond, hold: Nat,
        attempt: 0 .. MaxRetries, verdict: Verdicts, id: Nat]
Request == [op: Operations, diamonds: SUBSET Diamond, hold: Nat, by: Customer]
Record == [hold: Nat, diamond: Diamond, by: Customer,
           status: {"held", "released", "expired"}]
Receipt == [hold: Nat, diamond: Diamond, by: Customer]

(* Jobs are queued as hold-expiry:<row id> and removed as hold-expiry:<ERP *)
(* hold number>.  A row is saved from one ERP answer, so its generated id  *)
(* is represented by that answer's hold number, in a name space of its own *)
RowJob(n) == <<"row", n>>
HoldJob(n) == <<"hold", n>>
NoJob == <<"none", 0>>

TypeOK ==
  /\ ErpTypeOK
  /\ call \in [Customer -> Call]
  /\ ask \in [Customer -> Ask]
  /\ late \subseteq Request
  /\ records \subseteq Record
  /\ jobs \subseteq {"row"} \X Nat
  /\ worker \in ({"row"} \X Nat) \cup {NoJob}
  /\ receipts \subseteq Receipt
  /\ crashes \in Nat

NoCall == [step |-> "idle", name |-> "none", diamonds |-> {}, hold |-> 0, verified |-> {}]
NoAsk == [op |-> "none", diamonds |-> {}, hold |-> 0, attempt |-> 0,
          verdict |-> "waiting", id |-> 0]

Init ==
  /\ ErpInit
  /\ call = [c \in Customer |-> NoCall]
  /\ ask = [c \in Customer |-> NoAsk]
  /\ late = {}
  /\ records = {}
  /\ jobs = {}
  /\ worker = NoJob
  /\ receipts = {}
  /\ crashes = 0

-----------------------------------------------------------------------------
(* Tool calls begin and end.  A call that fails, whatever the reason, ends *)
(* like one that succeeds: execute() turns every exception into a result.  *)

FirstAttempt(op, ds, n) ==
  [op |-> op, diamonds |-> ds, hold |-> n, attempt |-> 0, verdict |-> "waiting", id |-> 0]

Begin(c, name, ds, n, op, asked) ==
  /\ call[c].step = "idle"
  /\ call' = [call EXCEPT ![c] = [step |-> "asking", name |-> name, diamonds |-> ds,
                                  hold |-> n, verified |-> {}]]
  /\ ask' = [ask EXCEPT ![c] = FirstAttempt(op, asked, n)]
  /\ UNCHANGED <<erpVars, late, records, jobs, worker, receipts, crashes>>

Finish(c) ==
  /\ call' = [call EXCEPT ![c] = NoCall]
  /\ ask' = [ask EXCEPT ![c] = NoAsk]

(* createHold: the availability check comes first.                         *)
HoldDiamond(c, d) == Begin(c, "hold_diamond", {d}, 0, "availability", {d})

(* releaseHold, with whatever diamond and hold number the model gives it.  *)
ReleaseHold(c, d, n) == Begin(c, "release_hold", {d}, n, "release", {d})

(* create_quotation goes to the ERP directly.                              *)
CreateQuotation(c, ds) == Begin(c, "create_quotation", ds, 0, "quotation", ds)

(* place_order re-verifies its diamonds one by one, beginning with d.      *)
PlaceOrder(c, ds, d) == d \in ds /\ Begin(c, "place_order", ds, 0, "availability", {d})

-----------------------------------------------------------------------------
(* ErpService.request and the network.  An attempt fails when it times out *)
(* (the fetch is aborted), when the connection breaks, when the answer is  *)
(* 429, 5xx or cannot be parsed: before the ERP saw the request, or after  *)
(* it acted on it.  A 404 or 409 is an answer, and final.                  *)

(* Whether the ERP says yes: in stock, or done.                            *)
Accepts(op, ds, n) ==
  CASE op = "availability" -> \A d \in ds : CanHold(d)
    [] op = "hold"         -> \A d \in ds : CanHold(d)
    [] op = "release"      -> CanRelease(n)
    [] op = "order"        -> CanOrder(ds)
    [] OTHER               -> TRUE

Handle(op, ds, n, c) ==
  \/ /\ sequence < MaxSequence
     /\ \/ op = "hold" /\ \E d \in ds : Hold(d, c)
        \/ op = "quotation" /\ Quote
        \/ op = "order" /\ Order(ds, c)
  \/ op = "release" /\ \E d \in ds : Release(d, n)
  \/ /\ op = "availability" \/ ~Accepts(op, ds, n)
     /\ UNCHANGED erpVars

(* await limiter.acquire(): whoever asks first takes the token, and nobody *)
(* has a turn.                                                             *)
Acquire(c) ==
  /\ call[c].step = "asking"
  /\ ask[c].verdict = "waiting"
  /\ ask' = [ask EXCEPT ![c].verdict = "pending"]
  /\ UNCHANGED <<erpVars, call, late, records, jobs, worker, receipts, crashes>>

(* The ERP handles the current attempt and its answer is on the way back.  *)
Serve(c) ==
  LET a == ask[c]
      yes == Accepts(a.op, a.diamonds, a.hold)
  IN  /\ call[c].step = "asking"
      /\ a.verdict = "pending"
      /\ Handle(a.op, a.diamonds, a.hold, c)
      /\ ask' = [ask EXCEPT ![c].verdict = IF yes THEN "accepted" ELSE "refused",
                            ![c].id = IF yes /\ a.op = "hold" THEN sequence ELSE 0]
      /\ UNCHANGED <<call, late, records, jobs, worker, receipts, crashes>>

(* The ERP handles a request whose sender has given up on it.              *)
ServeLate(m) ==
  /\ Handle(m.op, m.diamonds, m.hold, m.by)
  /\ late' = late \ {m}
  /\ UNCHANGED <<call, ask, records, jobs, worker, receipts, crashes>>

(* Requests of the given customers are abandoned on their way to the ERP:  *)
(* each is lost or still under way.  A late availability check changes     *)
(* nothing and counts as lost.                                             *)
OnTheWay(c) ==
  IF call[c].step = "asking" /\ ask[c].verdict = "pending" /\ ask[c].op # "availability"
  THEN {[op |-> ask[c].op, diamonds |-> ask[c].diamonds, hold |-> ask[c].hold, by |-> c]}
  ELSE {}

Abandon(cs) ==
  \E delayed \in SUBSET UNION {OnTheWay(c) : c \in cs} :
    /\ late' = late \cup delayed
    /\ delayed # {} => Cardinality(late') <= MaxLate

Sent(c) == call[c].step = "asking" /\ ask[c].verdict # "waiting"

(* Mutant: one attempt more than MAX_RETRIES allows.                       *)
AttemptFailsOnceMore(c) ==
  /\ Sent(c)
  /\ Abandon({c})
  /\ ask' = [ask EXCEPT ![c].attempt = @ + 1, ![c].verdict = "waiting", ![c].id = 0]
  /\ ask[c].attempt <= MaxRetries
  /\ UNCHANGED <<erpVars, call, records, jobs, worker, receipts, crashes>>

(* Mutant: the attempts are not counted.                                   *)
AttemptFailsUncounted(c) ==
  /\ Sent(c)
  /\ Abandon({c})
  /\ ask' = [ask EXCEPT ![c].verdict = "waiting", ![c].id = 0]
  /\ UNCHANGED <<erpVars, call, records, jobs, worker, receipts, crashes>>

(* Mutant: a release that is given up on is taken for done.                *)
AttemptFailsOptimistically(c) ==
  /\ Sent(c)
  /\ ask[c].op = "release"
  /\ Abandon({c})
  /\ call' = [call EXCEPT ![c].step = "marking"]
  /\ ask' = [ask EXCEPT ![c] = NoAsk]
  /\ UNCHANGED <<erpVars, records, jobs, worker, receipts, crashes>>

AttemptFails(c) ==
  /\ Sent(c)
  /\ Abandon({c})
  /\ \/ /\ ask[c].attempt < MaxRetries
        /\ ask' = [ask EXCEPT ![c].attempt = @ + 1,
                              ![c].verdict = "waiting",
                              ![c].id = 0]
        /\ UNCHANGED call
     \/ /\ ask[c].attempt = MaxRetries
        /\ Finish(c)
  /\ UNCHANGED <<erpVars, records, jobs, worker, receipts, crashes>>

-----------------------------------------------------------------------------
(* The answer is read and the tool goes on.                                *)

Reads(c, op, verdict) ==
  /\ call[c].step = "asking"
  /\ ask[c].op = op
  /\ ask[c].verdict = verdict

Refused(c) ==
  /\ Reads(c, ask[c].op, "refused")
  /\ Finish(c)
  /\ UNCHANGED <<erpVars, late, records, jobs, worker, receipts, crashes>>

Commitment == [hold_diamond |-> "hold", place_order |-> "order"]

(* Mutant: one diamond checked is enough for all of them.                  *)
VerifiedFirstOnly(c) ==
  /\ Reads(c, "availability", "accepted")
  /\ call' = [call EXCEPT ![c].verified = ask[c].diamonds]
  /\ ask' = [ask EXCEPT ![c] =
               FirstAttempt(Commitment[call[c].name], call[c].diamonds, 0)]
  /\ UNCHANGED <<erpVars, late, records, jobs, worker, receipts, crashes>>

(* One more diamond is in stock: check the next one, or commit.            *)
Verified(c) ==
  LET seen == call[c].verified \cup ask[c].diamonds
      unseen == call[c].diamonds \ seen
  IN  /\ Reads(c, "availability", "accepted")
      /\ call' = [call EXCEPT ![c].verified = seen]
      /\ \/ \E d \in unseen : ask' = [ask EXCEPT ![c] = FirstAttempt("availability", {d}, 0)]
         \/ /\ unseen = {}
            /\ ask' = [ask EXCEPT ![c] =
                         FirstAttempt(Commitment[call[c].name], call[c].diamonds, 0)]
      /\ UNCHANGED <<erpVars, late, records, jobs, worker, receipts, crashes>>

(* The quotation or order is made: its receipt ends the call.              *)
Confirmed(c) ==
  /\ Reads(c, "quotation", "accepted") \/ Reads(c, "order", "accepted")
  /\ Finish(c)
  /\ UNCHANGED <<erpVars, late, records, jobs, worker, receipts, crashes>>

(* Mutant: the hold number is the last one drawn, not the one answered.    *)
HoldMadeLast(c) ==
  /\ Reads(c, "hold", "accepted")
  /\ call' = [call EXCEPT ![c].step = "saving", ![c].hold = sequence - 1]
  /\ ask' = [ask EXCEPT ![c] = NoAsk]
  /\ UNCHANGED <<erpVars, late, records, jobs, worker, receipts, crashes>>

HoldMade(c) ==
  /\ Reads(c, "hold", "accepted")
  /\ call' = [call EXCEPT ![c].step = "saving", ![c].hold = ask[c].id]
  /\ ask' = [ask EXCEPT ![c] = NoAsk]
  /\ UNCHANGED <<erpVars, late, records, jobs, worker, receipts, crashes>>

Released(c) ==
  /\ Reads(c, "release", "accepted")
  /\ call' = [call EXCEPT ![c].step = "marking"]
  /\ ask' = [ask EXCEPT ![c] = NoAsk]
  /\ UNCHANGED <<erpVars, late, records, jobs, worker, receipts, crashes>>

(* this.holds.save(...)                                                    *)
SaveRecord(c) ==
  /\ call[c].step = "saving"
  /\ call' = [call EXCEPT ![c].step = "scheduling"]
  /\ records' = records \cup
       {[hold |-> call[c].hold, diamond |-> d, by |-> c, status |-> "held"]
          : d \in call[c].diamonds}
  /\ UNCHANGED <<erpVars, ask, late, jobs, worker, receipts, crashes>>

(* Mutant: the job carries the ERP hold number instead of the row id.      *)
ScheduleExpiryOfHold(c) ==
  /\ call[c].step = "scheduling"
  /\ jobs' = jobs \cup {HoldJob(call[c].hold)}
  /\ receipts' = receipts \cup
       {[hold |-> call[c].hold, diamond |-> d, by |-> c] : d \in call[c].diamonds}
  /\ Finish(c)
  /\ UNCHANGED <<erpVars, late, records, worker, crashes>>

(* this.queue.add('hold-expiry', ...); the receipt ends the call.          *)
ScheduleExpiry(c) ==
  /\ QueueTakesColons
  /\ call[c].step = "scheduling"
  /\ jobs' = jobs \cup {RowJob(call[c].hold)}
  /\ receipts' = receipts \cup
       {[hold |-> call[c].hold, diamond |-> d, by |-> c] : d \in call[c].diamonds}
  /\ Finish(c)
  /\ UNCHANGED <<erpVars, late, records, worker, crashes>>

(* this.holds.update({..., erp_hold_id}, { status: 'released' }): whatever *)
(* the status was.                                                         *)
WithStatus(n, from, to) ==
  {IF r.hold = n /\ r.status \in from THEN [r EXCEPT !.status = to] ELSE r : r \in records}

MarkReleased(c) ==
  /\ call[c].step = "marking"
  /\ call' = [call EXCEPT ![c].step = "unscheduling"]
  /\ records' = WithStatus(call[c].hold, {"held", "released", "expired"}, "released")
  /\ UNCHANGED <<erpVars, ask, late, jobs, worker, receipts, crashes>>

(* this.queue.remove(`hold-expiry:${erpHoldId}`), its errors ignored.      *)
CancelExpiry(c) ==
  /\ call[c].step = "unscheduling"
  /\ jobs' = jobs \ {HoldJob(call[c].hold)}
  /\ Finish(c)
  /\ UNCHANGED <<erpVars, late, records, worker, receipts, crashes>>

(* Mutant: a failed save is swallowed and the call goes on.                *)
StorageFailsQuietly(c) ==
  /\ StorageFaults
  /\ call[c].step = "saving"
  /\ call' = [call EXCEPT ![c].step = "scheduling"]
  /\ UNCHANGED <<erpVars, ask, late, records, jobs, worker, receipts, crashes>>

(* The database or the queue refuses the call's next step.                 *)
Refusable == (IF StorageFaults THEN {"saving", "scheduling", "marking"} ELSE {})
               \cup (IF QueueTakesColons THEN {} ELSE {"scheduling"})

StorageFails(c) ==
  /\ call[c].step \in Refusable
  /\ Finish(c)
  /\ UNCHANGED <<erpVars, late, records, jobs, worker, receipts, crashes>>

-----------------------------------------------------------------------------
(* HoldsProcessor.process: one job at a time.  Between findById and        *)
(* markExpired the row may change.  A job is gone once it has completed or *)
(* failed (one attempt); after a crash it is delivered again.              *)

HeldRecord(j) == \E r \in records : RowJob(r.hold) = j /\ r.status = "held"

FindHold(j) ==
  /\ worker = NoJob
  /\ \/ HeldRecord(j) /\ worker' = j /\ UNCHANGED jobs
     \/ ~HeldRecord(j) /\ jobs' = jobs \ {j} /\ UNCHANGED worker
  /\ UNCHANGED <<erpVars, call, ask, late, records, receipts, crashes>>

(* Mutant: the update does not look at the status again.                   *)
MarkExpiredBlindly ==
  /\ worker # NoJob
  /\ records' = WithStatus(worker[2], {"held", "released"}, "expired")
  /\ jobs' = jobs \ {worker}
  /\ worker' = NoJob
  /\ UNCHANGED <<erpVars, call, ask, late, receipts, crashes>>

MarkExpired ==
  /\ worker # NoJob
  /\ records' = WithStatus(worker[2], {"held"}, "expired")
  /\ jobs' = jobs \ {worker}
  /\ worker' = NoJob
  /\ UNCHANGED <<erpVars, call, ask, late, receipts, crashes>>

JobFails(j) ==
  /\ JobFaults
  /\ worker \in {NoJob, j}
  /\ jobs' = jobs \ {j}
  /\ worker' = NoJob
  /\ UNCHANGED <<erpVars, call, ask, late, records, receipts, crashes>>

(* The API process dies: every turn and the worker's job are cut off.      *)
Crash ==
  /\ crashes < MaxCrashes
  /\ crashes' = crashes + 1
  /\ Abandon(Customer)
  /\ call' = [c \in Customer |-> NoCall]
  /\ ask' = [c \in Customer |-> NoAsk]
  /\ worker' = NoJob
  /\ UNCHANGED <<erpVars, records, jobs, receipts>>

-----------------------------------------------------------------------------
Start(c) ==
  \/ \E d \in Diamond : HoldDiamond(c, d)
  \/ \E d \in Diamond, n \in 0 .. MaxSequence - 1 : ReleaseHold(c, d, n)
  \/ \E ds \in Baskets : CreateQuotation(c, ds)
  \/ \E ds \in Baskets : \E d \in ds : PlaceOrder(c, ds, d)

Advance(c) ==
  \/ AttemptFails(c)
  \/ Refused(c)
  \/ Verified(c)
  \/ Confirmed(c)
  \/ HoldMade(c)
  \/ Released(c)
  \/ SaveRecord(c)
  \/ ScheduleExpiry(c)
  \/ MarkReleased(c)
  \/ CancelExpiry(c)
  \/ StorageFails(c)

Work ==
  \/ \E j \in jobs : FindHold(j)
  \/ MarkExpired
  \/ \E j \in jobs : JobFails(j)

Next ==
  \/ \E c \in Customer : Start(c) \/ Acquire(c) \/ Serve(c) \/ Advance(c)
  \/ \E m \in late : ServeLate(m)
  \/ Work
  \/ Crash

Spec == Init /\ [][Next]_vars

(* A turn that is under way goes on: every attempt that has its token is   *)
(* ended by its answer or by its 15 s timer, and every await returns but   *)
(* the one for the token.  The worker takes due jobs.  Nothing is assumed  *)
(* of customers, of the rate limiter, of the network or of crashes.        *)
Fairness ==
  /\ \A c \in Customer : WF_vars(Advance(c))
  /\ WF_vars(Work)

FairSpec == Spec /\ Fairness

-----------------------------------------------------------------------------
(* A hold receipt is only ever shown for a hold the ERP made for this      *)
(* customer and that the local mirror has a row of (createHold returns     *)
(* after both writes): crashes and storage faults lose rows, but then      *)
(* never show the receipt.                                                 *)
ReceiptsAreMirrored ==
  \A t \in receipts : \E r \in records :
    r.hold = t.hold /\ r.diamond = t.diamond /\ r.by = t.by

(* A row says released only when the ERP no longer has the hold, whatever  *)
(* was lost or repeated on the way (releaseHold: the ERP first, the row    *)
(* after its answer).                                                      *)
ReleasedInErpFirst ==
  \A r \in records : r.status = "released" => \A h \in holds : h.id # r.hold

(* While the ERP has a hold, what the mirror and the receipts say of its   *)
(* diamond and its customer is what the ERP says: of all the answers to    *)
(* all the attempts, createHold saves the one that belongs to the hold.    *)
MirrorAgreesOnHolds ==
  \A h \in holds :
    /\ \A r \in records : r.hold = h.id => r.diamond = h.diamond /\ r.by = h.by
    /\ \A t \in receipts : t.hold = h.id => t.diamond = h.diamond /\ t.by = h.by

(* No hold and no order is requested before every diamond in it has been   *)
(* found in stock by the same tool call (tool-executor.ts, place_order:    *)
(* "Re-verify every stone before taking money for it"; createHold).        *)
CommitmentsAreVerified ==
  \A c \in Customer : ask[c].op \in {"hold", "order"} => ask[c].diamonds \subseteq call[c].verified

(* A row leaves the status held for good, and a released row is never      *)
(* changed: the expiry job that read the row before the release does not   *)
(* overwrite it (markExpired: where status = 'held').                      *)
RowsSettleOnce ==
  [][\A r \in records : r.status # "held" =>
       \E s \in records' : s.hold = r.hold /\ s.status \in {r.status, "released"}]_vars

(* A hold ends only by an order on its diamond or by a release that names  *)
(* its number: no expiry job, no crash, and no retried or late request for *)
(* an earlier hold on the same diamond ends it.                            *)
AsksToRelease(c, n) == ask[c].op = "release" /\ ask[c].hold = n

HoldsEndByRequest ==
  [][\A h \in holds \ holds' :
       \/ \E o \in orders' \ orders : h.diamond \in o.diamonds
       \/ \E c \in Customer : AsksToRelease(c, h.id)
       \/ \E m \in late : m.op = "release" /\ m.hold = h.id]_vars

(* Every tool call returns, however often its attempts fail (request gives *)
(* up after MAX_RETRIES; every step of a tool ends in a result or a throw) *)
(* and wherever the process crashes, unless the rate limiter never again   *)
(* lets it through.                                                        *)
Waiting(c) == call[c].step = "asking" /\ ask[c].verdict = "waiting"

CallsReturn ==
  \A c \in Customer :
    (call[c].step # "idle" ~> call[c].step = "idle") \/ <>[]Waiting(c)

(* A hold a customer was told of leaves the status held, wherever the      *)
(* process crashes: its expiry job is scheduled before its receipt is      *)
(* shown, and taken again after a crash (README: "a BullMQ job is          *)
(* scheduled for exactly that moment").                                    *)
HeldNow(n) == \E r \in records : r.hold = n /\ r.status = "held"

ToldHoldsSettle ==
  \A n \in 0 .. MaxSequence - 1 : HeldNow(n) /\ (\E t \in receipts : t.hold = n) ~> ~HeldNow(n)

-----------------------------------------------------------------------------
(* What the repository says of its holds and the code does not do: each    *)
(* has a run that shows how it is violated.                                *)

(* A held diamond is sold to nobody but its holder (tools.ts,              *)
(* hold_diamond: "Reserve a diamond for a named customer so nobody else    *)
(* can buy it").                                                           *)
HeldStonesAreSoldToTheirHolder ==
  [][\A o \in orders' \ orders : \A h \in holds : h.diamond \in o.diamonds => o.by = h.by]_vars

(* The dealer can see every hold the chatbot created (hold.entity.ts: "so  *)
(* the dealer can see holds the chatbot created"): a hold of the ERP has a *)
(* row, except while the call that makes it is under way.                  *)
HoldsAreVisible ==
  \A h \in holds :
    \/ \E r \in records : r.hold = h.id
    \/ call[h.by].name = "hold_diamond"

(* Every row that is held has its expiry job (README: "a BullMQ job is     *)
(* scheduled for exactly that moment"), except while the call that makes   *)
(* it is under way.                                                        *)
HeldRowsHaveTheirJob ==
  \A r \in records : r.status = "held" =>
    \/ RowJob(r.hold) \in jobs
    \/ call[r.by].step = "scheduling"
=============================================================================
