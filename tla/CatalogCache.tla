----------------------------- MODULE CatalogCache -----------------------------
(***************************************************************************)
(* The browsing cache of one tenant: CatalogService.search and getDiamond  *)
(* fill it from the ERP, the inventory webhook (applyInventoryUpdate)      *)
(* clears it.  Cached entries, the index set of search keys and every      *)
(* Redis command are shared by all requests; each command is one step.     *)
(*                                                                         *)
(* The content of an answer is what it knows of the stock: the number of   *)
(* changes each diamond had seen when the ERP gave it.  A search may show  *)
(* or hide any diamond, so its page depends on all of them; a detail       *)
(* depends on its own.  A hit changes nothing and is no step; an entry's   *)
(* TTL ends at some moment after it was set.                               *)
(***************************************************************************)
EXTENDS Naturals, FiniteSets

CONSTANTS
  Diamond,       \* stock numbers: the keys of cached details
  Query,         \* normalised search parameters: the keys of cached pages
  Reader,        \* requests that browse
  Hook,          \* webhook requests being handled
  Absent,        \* no entry under this key
  MaxChanges,    \* bound: changes of the stock
  RedisFaults    \* whether a Redis command may fail

ASSUME KeysAssumption == Diamond # {} /\ Diamond \cap Query = {}
ASSUME CacheBoundsAssumption == MaxChanges \in Nat /\ RedisFaults \in BOOLEAN

VARIABLES
  stock,    \* the ERP: how often each diamond has changed
  posted,   \* webhook calls the ERP has made: [diamond, change]
  entry,    \* Redis: the entry under each key, [page, suspect]
  index,    \* Redis: the set of search keys
  fill,     \* the readers: [step, key, page, suspect]
  hook,     \* the webhook handlers: [step, diamond, change, keys]
  acked     \* the change of each diamond a webhook was last answered for

vars == <<stock, posted, entry, index, fill, hook, acked>>

Key == Query \cup Diamond
Page == [Diamond -> Nat]
Entry == [page: Page, suspect: BOOLEAN]
Call == [diamond: Diamond, change: Nat]

ASSUME AbsentAssumption == Absent \notin Entry

(* "suspect" is only observed, never read by a guard: the entry was filled *)
(* while a webhook was being handled, or its key could not be tracked.     *)
TypeOK ==
  /\ stock \in Page
  /\ posted \subseteq Call
  /\ entry \in [Key -> Entry \cup {Absent}]
  /\ index \subseteq Query
  /\ fill \in [Reader -> [step: {"idle", "asking", "storing", "tracking"}, key: Key,
                          page: Page, suspect: BOOLEAN]]
  /\ hook \in [Hook -> [step: {"idle", "detail", "reading", "pages", "index"},
                        diamond: Diamond, change: Nat, keys: SUBSET Query]]
  /\ acked \in Page

NoPage == [d \in Diamond |-> 0]
Resting == [step |-> "idle", key |-> CHOOSE k \in Key : TRUE, page |-> NoPage, suspect |-> FALSE]
Waiting == [step |-> "idle", diamond |-> CHOOSE d \in Diamond : TRUE, change |-> 0, keys |-> {}]

Init ==
  /\ stock = NoPage
  /\ posted = {}
  /\ entry = [k \in Key |-> Absent]
  /\ index = {}
  /\ fill = [r \in Reader |-> Resting]
  /\ hook = [w \in Hook |-> Waiting]
  /\ acked = NoPage

-----------------------------------------------------------------------------
(* The ERP.                                                                *)

Change(d) ==
  /\ stock[d] < MaxChanges
  /\ stock' = [stock EXCEPT ![d] = @ + 1]
  /\ posted' = posted \cup {[diamond |-> d, change |-> stock[d] + 1]}
  /\ UNCHANGED <<entry, index, fill, hook, acked>>

-----------------------------------------------------------------------------
(* search and getDiamond.                                                  *)

Clearing == \E w \in Hook : hook[w].step # "idle"
BeingTracked(k) == \E r \in Reader : fill[r].step = "tracking" /\ fill[r].key = k

Miss(r, k) ==
  /\ fill[r].step = "idle"
  /\ entry[k] = Absent
  /\ fill' = [fill EXCEPT ![r] = [step |-> "asking", key |-> k, page |-> NoPage,
                                  suspect |-> Clearing]]
  /\ UNCHANGED <<stock, posted, entry, index, hook, acked>>

(* What the ERP's answer for a key knows.                                  *)
Known(k) == [d \in Diamond |-> IF k \in Query \cup {d} THEN stock[d] ELSE 0]

ErpAnswers(r) ==
  /\ fill[r].step = "asking"
  /\ fill' = [fill EXCEPT ![r].step = "storing", ![r].page = Known(fill[r].key)]
  /\ UNCHANGED <<stock, posted, entry, index, hook, acked>>

(* The ERP client throws and nothing is stored.                            *)
ErpFails(r) ==
  /\ fill[r].step = "asking"
  /\ fill' = [fill EXCEPT ![r] = Resting]
  /\ UNCHANGED <<stock, posted, entry, index, hook, acked>>

(* Mutant: details are tracked like searches.                              *)
StoreAndTrackAll(r) ==
  /\ fill[r].step = "storing"
  /\ entry' = [entry EXCEPT ![fill[r].key] = [page |-> fill[r].page, suspect |-> fill[r].suspect]]
  /\ fill' = [fill EXCEPT ![r].step = "tracking"]
  /\ UNCHANGED <<stock, posted, index, hook, acked>>

(* redis.set(key, ..., 'EX', ttl)                                          *)
Store(r) ==
  LET k == fill[r].key
  IN  /\ fill[r].step = "storing"
      /\ entry' = [entry EXCEPT ![k] = [page |-> fill[r].page, suspect |-> fill[r].suspect]]
      /\ fill' = [fill EXCEPT ![r] = IF k \in Query THEN [@ EXCEPT !.step = "tracking"]
                                                    ELSE Resting]
      /\ UNCHANGED <<stock, posted, index, hook, acked>>

(* redis.sadd(searchIndexKey, key)                                         *)
Track(r) ==
  /\ fill[r].step = "tracking"
  /\ index' = index \cup {fill[r].key}
  /\ fill' = [fill EXCEPT ![r] = Resting]
  /\ UNCHANGED <<stock, posted, entry, hook, acked>>

(* A command fails, carried out or not, and the tool call ends: a page     *)
(* that is set and not tracked stays.                                      *)
StoreFails(r) ==
  LET k == fill[r].key
  IN  /\ RedisFaults
      /\ \/ fill[r].step = "storing" /\ UNCHANGED entry
         \/ /\ fill[r].step = "storing"
            /\ entry' = [entry EXCEPT ![k] = [page |-> fill[r].page,
                                             suspect |-> fill[r].suspect \/ k \in Query]]
         \/ /\ fill[r].step = "tracking"
            /\ entry' = IF entry[k] = Absent THEN entry
                                             ELSE [entry EXCEPT ![k].suspect = TRUE]
      /\ fill' = [fill EXCEPT ![r] = Resting]
      /\ UNCHANGED <<stock, posted, index, hook, acked>>

Expire(k) ==
  /\ entry[k] # Absent
  /\ entry' = [entry EXCEPT ![k] = Absent]
  /\ UNCHANGED <<stock, posted, index, fill, hook, acked>>

-----------------------------------------------------------------------------
(* applyInventoryUpdate.  The ERP may lose a call, repeat it, or make two  *)
(* in the wrong order.                                                     *)

Receive(w, call) ==
  /\ hook[w].step = "idle"
  /\ hook' = [hook EXCEPT ![w] = [step |-> "detail", diamond |-> call.diamond,
                                  change |-> call.change, keys |-> {}]]
  /\ fill' = [r \in Reader |-> IF fill[r].step = "idle" THEN fill[r]
                               ELSE [fill[r] EXCEPT !.suspect = TRUE]]
  /\ entry' = [k \in Key |-> IF entry[k] # Absent /\ BeingTracked(k)
                            THEN [entry[k] EXCEPT !.suspect = TRUE] ELSE entry[k]]
  /\ UNCHANGED <<stock, posted, index, acked>>

(* redis.del(detailKey)                                                    *)
ClearDetail(w) ==
  /\ hook[w].step = "detail"
  /\ entry' = [entry EXCEPT ![hook[w].diamond] = Absent]
  /\ hook' = [hook EXCEPT ![w].step = "reading"]
  /\ UNCHANGED <<stock, posted, index, fill, acked>>

(* Mutant: the index is deleted before the pages it lists.                 *)
ReadAndClearIndex(w) ==
  /\ hook[w].step = "reading"
  /\ hook' = [hook EXCEPT ![w].step = IF index = {} THEN "index" ELSE "pages",
                          ![w].keys = index]
  /\ index' = {}
  /\ UNCHANGED <<stock, posted, entry, fill, acked>>

(* redis.smembers(indexKey)                                                *)
ReadIndex(w) ==
  /\ hook[w].step = "reading"
  /\ hook' = [hook EXCEPT ![w].step = IF index = {} THEN "index" ELSE "pages",
                          ![w].keys = index]
  /\ UNCHANGED <<stock, posted, entry, index, fill, acked>>

(* Mutant: the pages are left to their TTL.                                *)
ClearNoPages(w) ==
  /\ hook[w].step = "pages"
  /\ hook' = [hook EXCEPT ![w].step = "index"]
  /\ UNCHANGED <<stock, posted, entry, index, fill, acked>>

(* redis.del(...keys)                                                      *)
ClearPages(w) ==
  /\ hook[w].step = "pages"
  /\ entry' = [k \in Key |-> IF k \in hook[w].keys THEN Absent ELSE entry[k]]
  /\ hook' = [hook EXCEPT ![w].step = "index"]
  /\ UNCHANGED <<stock, posted, index, fill, acked>>

(* redis.del(indexKey), and the webhook is answered.                       *)
ClearIndex(w) ==
  LET d == hook[w].diamond
  IN  /\ hook[w].step = "index"
      /\ index' = {}
      /\ acked' = [acked EXCEPT ![d] = IF @ < hook[w].change THEN hook[w].change ELSE @]
      /\ hook' = [hook EXCEPT ![w] = Waiting]
      /\ UNCHANGED <<stock, posted, entry, fill>>

(* A command fails, carried out or not, and the webhook is answered with   *)
(* an error.                                                               *)
ClearFails(w) ==
  /\ RedisFaults
  /\ hook[w].step # "idle"
  /\ index' \in IF hook[w].step = "index" THEN {index, {}} ELSE {index}
  /\ hook' = [hook EXCEPT ![w] = Waiting]
  /\ UNCHANGED <<stock, posted, entry, fill, acked>>

-----------------------------------------------------------------------------
Browse(r) ==
  \/ \E k \in Key : Miss(r, k)
  \/ ErpAnswers(r)
  \/ ErpFails(r)
  \/ Store(r)
  \/ Track(r)
  \/ StoreFails(r)

Invalidate(w) ==
  \/ \E call \in posted : Receive(w, call)
  \/ ClearDetail(w)
  \/ ReadIndex(w)
  \/ ClearPages(w)
  \/ ClearIndex(w)
  \/ ClearFails(w)

Next ==
  \/ \E d \in Diamond : Change(d)
  \/ \E r \in Reader : Browse(r)
  \/ \E w \in Hook : Invalidate(w)
  \/ \E k \in Key : Expire(k)

Spec == Init /\ [][Next]_vars

-----------------------------------------------------------------------------
(* An entry is stale when it shows an older state of a diamond than one a  *)
(* webhook has been answered for.                                          *)
Shows(k, d) == k \in Query \cup {d}
Stale(k, d) ==
  /\ entry[k] # Absent
  /\ Shows(k, d)
  /\ entry[k].page[d] < acked[d]

(* Once a webhook is answered no entry shows the older state ("a sold      *)
(* stone must not keep appearing in results"), but for those filled while  *)
(* a webhook was being handled, which live until their TTL ends.           *)
OnlyRacesLeaveStaleEntries ==
  \A k \in Key, d \in Diamond : Stale(k, d) => entry[k].suspect

(* A webhook can clear every page ("Track this tenant's search keys so a   *)
(* webhook can invalidate them wholesale"): a page is in the index, being  *)
(* tracked, or was filled while a webhook was being handled.               *)
PagesAreTracked ==
  \A q \in Query :
    entry[q] # Absent =>
      \/ q \in index
      \/ entry[q].suspect
      \/ BeingTracked(q)
=============================================================================
