-------------------------- MODULE CatalogCacheProofs --------------------------
(***************************************************************************)
(* For any number of diamonds, searches, readers, handlers and changes: a  *)
(* page is within the webhook's reach, and an entry older than an answered *)
(* webhook was filled while one was being handled.                         *)
(*                                                                         *)
(* Both are about fills and handlers that overlap.  The invariant says     *)
(* what a handler has behind it at each of its steps, for the entries that *)
(* are not suspect; that no fill is unsuspected while a handler is at work *)
(* is what keeps it so.                                                    *)
(***************************************************************************)
EXTENDS CatalogCache, TLAPS

(* An entry that was filled while no webhook was being handled.            *)
Trusted(k) == entry[k] # Absent /\ ~entry[k].suspect

(* While a webhook is being handled every fill under way is suspect, and   *)
(* so is a page that is still to be tracked.                               *)
RacesAreNoticed ==
  \A w \in Hook : hook[w].step # "idle" =>
    /\ \A r \in Reader : fill[r].step # "idle" => fill[r].suspect
    /\ \A k \in Key : BeingTracked(k) => ~Trusted(k)

(* What a handler has read or cleared: its diamond's detail, then all the  *)
(* trusted pages.                                                          *)
HandlersClear ==
  \A w \in Hook :
    /\ hook[w].step \in {"reading", "pages", "index"} => ~Trusted(hook[w].diamond)
    /\ hook[w].step = "pages" => \A q \in Query : Trusted(q) => q \in hook[w].keys
    /\ hook[w].step = "index" => \A q \in Query : ~Trusted(q)

(* Nobody knows of a change that has not happened.                         *)
NewsIsTrue ==
  /\ \A c \in posted : c.change <= stock[c.diamond]
  /\ \A w \in Hook : hook[w].step # "idle" => hook[w].change <= stock[hook[w].diamond]
  /\ \A d \in Diamond : acked[d] <= stock[d]

(* An answer on its way into the cache is as new as the webhooks answered. *)
AnswersAreFresh ==
  \A r \in Reader : fill[r].step = "storing" /\ ~fill[r].suspect =>
    \A d \in Diamond : Shows(fill[r].key, d) => acked[d] <= fill[r].page[d]

TrackersTrackPages ==
  \A r \in Reader : fill[r].step = "tracking" => fill[r].key \in Query

CacheInv ==
  /\ TypeOK
  /\ TrackersTrackPages
  /\ RacesAreNoticed
  /\ HandlersClear
  /\ NewsIsTrue
  /\ AnswersAreFresh
  /\ PagesAreTracked
  /\ OnlyRacesLeaveStaleEntries

-----------------------------------------------------------------------------
(* A request that has not begun has a key.                                 *)
LEMMA RestingType == Resting.key \in Key /\ NoPage \in Page
<1>1. Diamond # {} /\ Key # {}
  BY KeysAssumption DEF Key
<1>2. (CHOOSE k \in Key : TRUE) \in Key
  BY <1>1
<1> QED
  BY <1>2 DEF Resting, NoPage, Page

(* A handler that has not begun has a diamond.                             *)
LEMMA WaitingType == Waiting.diamond \in Diamond
<1>1. (CHOOSE d \in Diamond : TRUE) \in Diamond
  BY KeysAssumption
<1> QED
  BY <1>1 DEF Waiting

(* The empty cache.                                                        *)
LEMMA InitCache == Init => CacheInv
<1> SUFFICES ASSUME Init PROVE CacheInv
  OBVIOUS
<1> USE DEF Init, Resting, Waiting
<1>1. TypeOK
  BY RestingType, WaitingType DEF TypeOK
<1>2. TrackersTrackPages /\ RacesAreNoticed /\ HandlersClear /\ AnswersAreFresh
  BY DEF TrackersTrackPages, RacesAreNoticed, HandlersClear, AnswersAreFresh
<1>3. NewsIsTrue
  BY DEF NewsIsTrue, NoPage
<1>4. PagesAreTracked /\ OnlyRacesLeaveStaleEntries
  BY DEF PagesAreTracked, OnlyRacesLeaveStaleEntries, Stale, Key
<1> QED
  BY <1>1, <1>2, <1>3, <1>4 DEF CacheInv

-----------------------------------------------------------------------------
(***************************************************************************)
(* Typing.                                                                 *)
(***************************************************************************)

(* The readers' steps keep the types.                                      *)
LEMMA TypingOfBrowse ==
  ASSUME TypeOK, TrackersTrackPages, NEW r \in Reader, Browse(r)
  PROVE  TypeOK'
<1> USE DEF TypeOK
<1>1. CASE \E k \in Key : Miss(r, k)
  BY <1>1, RestingType DEF Miss, Clearing
<1>2. CASE ErpAnswers(r)
  <2>1. Known(fill[r].key) \in Page
    BY DEF Known, Page
  <2> QED
    BY <1>2, <2>1 DEF ErpAnswers
<1>3. CASE ErpFails(r)
  BY <1>3, RestingType DEF ErpFails, Resting
<1>4. CASE Store(r)
  BY <1>4, RestingType DEF Store, Resting, Entry
<1>5. CASE Track(r)
  BY <1>5, RestingType DEF Track, Resting, TrackersTrackPages
<1>6. CASE StoreFails(r)
  <2> DEFINE k == fill[r].key
  <2>1. k \in Key /\ fill[r].page \in Page /\ fill[r].suspect \in BOOLEAN
    OBVIOUS
  <2>2. [page |-> fill[r].page, suspect |-> fill[r].suspect \/ k \in Query] \in Entry
    BY <2>1 DEF Entry
  <2>3. entry[k] # Absent => [entry[k] EXCEPT !.suspect = TRUE] \in Entry
    <3>1. entry[k] \in Entry \cup {Absent}
      BY <2>1
    <3>2. ASSUME NEW e \in Entry PROVE [e EXCEPT !.suspect = TRUE] \in Entry
      BY DEF Entry
    <3> QED
      BY <3>1, <3>2
  <2>4. entry' \in [Key -> Entry \cup {Absent}]
    BY <1>6, <2>1, <2>2, <2>3 DEF StoreFails
  <2> QED
    BY <1>6, <2>4, RestingType DEF StoreFails, Resting
<1> QED
  BY <1>1, <1>2, <1>3, <1>4, <1>5, <1>6 DEF Browse

(* The handlers' steps keep the types.                                     *)
LEMMA TypingOfInvalidate ==
  ASSUME TypeOK, NEW w \in Hook, Invalidate(w)
  PROVE  TypeOK'
<1> USE DEF TypeOK
<1>1. CASE \E c \in posted : Receive(w, c)
  <2>1. PICK c \in posted : Receive(w, c)
    BY <1>1
  <2>2. c \in Call /\ {} \in SUBSET Query
    OBVIOUS
  <2>3. entry' \in [Key -> Entry \cup {Absent}]
    BY <2>1 DEF Receive, Entry
  <2>4. fill' \in [Reader -> [step: {"idle", "asking", "storing", "tracking"}, key: Key,
                              page: Page, suspect: BOOLEAN]]
    BY <2>1 DEF Receive
  <2>5. hook' \in [Hook -> [step: {"idle", "detail", "reading", "pages", "index"},
                            diamond: Diamond, change: Nat, keys: SUBSET Query]]
    BY <2>1, <2>2 DEF Receive, Call
  <2> QED
    BY <2>1, <2>3, <2>4, <2>5 DEF Receive
<1>2. CASE ClearDetail(w)
  BY <1>2 DEF ClearDetail, Key
<1>3. CASE ReadIndex(w)
  <2>1. \A x \in {"index", "pages"} :
          [hook[w] EXCEPT !.step = x, !.keys = index] \in
            [step: {"idle", "detail", "reading", "pages", "index"},
             diamond: Diamond, change: Nat, keys: SUBSET Query]
    OBVIOUS
  <2> QED
    BY <1>3, <2>1 DEF ReadIndex
<1>4. CASE ClearPages(w)
  BY <1>4 DEF ClearPages
<1>5. CASE ClearIndex(w)
  <2>1. acked' \in Page
    BY <1>5 DEF ClearIndex, Page
  <2> QED
    BY <1>5, <2>1, WaitingType DEF ClearIndex, Waiting
<1>6. CASE ClearFails(w)
  BY <1>6, WaitingType DEF ClearFails, Waiting
<1> QED
  BY <1>1, <1>2, <1>3, <1>4, <1>5, <1>6 DEF Invalidate

-----------------------------------------------------------------------------
(***************************************************************************)
(* One lemma per action.                                                   *)
(***************************************************************************)

(* A diamond changes.                                                      *)
LEMMA ChangeKeeps ==
  ASSUME CacheInv, NEW d \in Diamond, Change(d)
  PROVE  CacheInv'
<1> USE DEF CacheInv
<1>1. TypeOK'
  BY DEF Change, TypeOK, Page, Call
<1>2. TrackersTrackPages'
  BY DEF Change, TrackersTrackPages, TypeOK
<1>3. RacesAreNoticed'
  BY DEF Change, RacesAreNoticed, BeingTracked, Trusted, TypeOK
<1>4. HandlersClear'
  BY DEF Change, HandlersClear, Trusted, TypeOK
<1>5. NewsIsTrue'
  BY DEF Change, NewsIsTrue, TypeOK, Call, Page
<1>6. AnswersAreFresh'
  BY DEF Change, AnswersAreFresh, Shows, TypeOK
<1>7. PagesAreTracked'
  BY DEF Change, PagesAreTracked, BeingTracked, TypeOK
<1>8. OnlyRacesLeaveStaleEntries'
  BY DEF Change, OnlyRacesLeaveStaleEntries, Stale, Shows, TypeOK
<1> QED
  BY <1>1, <1>2, <1>3, <1>4, <1>5, <1>6, <1>7, <1>8

(* A reader finds nothing.                                                 *)
LEMMA MissKeeps ==
  ASSUME CacheInv, NEW r \in Reader, NEW k \in Key, Miss(r, k)
  PROVE  CacheInv'
<1> USE DEF CacheInv
<1>1. TypeOK'
  BY TypingOfBrowse DEF Browse
<1>2. TrackersTrackPages'
  BY DEF Miss, Clearing, TrackersTrackPages, TypeOK
<1>3. RacesAreNoticed'
  BY DEF Miss, Clearing, RacesAreNoticed, BeingTracked, Trusted, TypeOK
<1>4. HandlersClear'
  BY DEF Miss, Clearing, HandlersClear, Trusted, TypeOK
<1>5. NewsIsTrue'
  BY DEF Miss, Clearing, NewsIsTrue, TypeOK
<1>6. AnswersAreFresh'
  BY DEF Miss, Clearing, AnswersAreFresh, Shows, TypeOK
<1>7. PagesAreTracked'
  BY DEF Miss, Clearing, PagesAreTracked, BeingTracked, TypeOK
<1>8. OnlyRacesLeaveStaleEntries'
  BY DEF Miss, Clearing, OnlyRacesLeaveStaleEntries, Stale, Shows, TypeOK
<1> QED
  BY <1>1, <1>2, <1>3, <1>4, <1>5, <1>6, <1>7, <1>8

(* The ERP answers a reader.                                               *)
LEMMA ErpAnswersKeeps ==
  ASSUME CacheInv, NEW r \in Reader, ErpAnswers(r)
  PROVE  CacheInv'
<1> USE DEF CacheInv
<1>1. TypeOK'
  BY TypingOfBrowse DEF Browse
<1>2. TrackersTrackPages'
  BY DEF ErpAnswers, Known, TrackersTrackPages, TypeOK
<1>3. RacesAreNoticed'
  BY DEF ErpAnswers, Known, RacesAreNoticed, BeingTracked, Trusted, TypeOK
<1>4. HandlersClear'
  BY DEF ErpAnswers, Known, HandlersClear, Trusted, TypeOK
<1>5. NewsIsTrue'
  BY DEF ErpAnswers, Known, NewsIsTrue, TypeOK
<1>6. AnswersAreFresh'
  BY DEF ErpAnswers, Known, AnswersAreFresh, NewsIsTrue, Shows, TypeOK, Page
<1>7. PagesAreTracked'
  BY DEF ErpAnswers, Known, PagesAreTracked, BeingTracked, TypeOK
<1>8. OnlyRacesLeaveStaleEntries'
  BY DEF ErpAnswers, Known, OnlyRacesLeaveStaleEntries, Stale, Shows, TypeOK
<1> QED
  BY <1>1, <1>2, <1>3, <1>4, <1>5, <1>6, <1>7, <1>8

(* The ERP fails a reader.                                                 *)
LEMMA ErpFailsKeeps ==
  ASSUME CacheInv, NEW r \in Reader, ErpFails(r)
  PROVE  CacheInv'
<1> USE DEF CacheInv
<1>1. TypeOK'
  BY TypingOfBrowse DEF Browse
<1>2. TrackersTrackPages'
  BY DEF ErpFails, Resting, TrackersTrackPages, TypeOK
<1>3. RacesAreNoticed'
  BY DEF ErpFails, Resting, RacesAreNoticed, BeingTracked, Trusted, TypeOK
<1>4. HandlersClear'
  BY DEF ErpFails, Resting, HandlersClear, Trusted, TypeOK
<1>5. NewsIsTrue'
  BY DEF ErpFails, Resting, NewsIsTrue, TypeOK
<1>6. AnswersAreFresh'
  BY DEF ErpFails, Resting, AnswersAreFresh, Shows, TypeOK
<1>7. PagesAreTracked'
  BY DEF ErpFails, Resting, PagesAreTracked, BeingTracked, TypeOK
<1>8. OnlyRacesLeaveStaleEntries'
  BY DEF ErpFails, Resting, OnlyRacesLeaveStaleEntries, Stale, Shows, TypeOK
<1> QED
  BY <1>1, <1>2, <1>3, <1>4, <1>5, <1>6, <1>7, <1>8

(* A reader stores its answer.                                             *)
LEMMA StoreKeeps ==
  ASSUME CacheInv, NEW r \in Reader, Store(r)
  PROVE  CacheInv'
<1> USE DEF CacheInv
<1>1. TypeOK'
  BY TypingOfBrowse DEF Browse
<1>2. TrackersTrackPages'
  BY DEF Store, Resting, Entry, Key, TrackersTrackPages, TypeOK
<1>3. RacesAreNoticed'
  BY DEF Store, Resting, Entry, Key, RacesAreNoticed, BeingTracked, Trusted, TypeOK
<1>4. HandlersClear'
  BY DEF Store, Resting, Entry, Key, HandlersClear, RacesAreNoticed, Trusted, TypeOK
<1>5. NewsIsTrue'
  BY DEF Store, Resting, Entry, Key, NewsIsTrue, TypeOK
<1>6. AnswersAreFresh'
  BY DEF Store, Resting, Entry, Key, AnswersAreFresh, Shows, TypeOK
<1>7. PagesAreTracked'
  BY DEF Store, Resting, Entry, Key, PagesAreTracked, BeingTracked, TypeOK
<1>8. OnlyRacesLeaveStaleEntries'
  BY DEF Store, Resting, Entry, Key, OnlyRacesLeaveStaleEntries, AnswersAreFresh, Stale, Shows, TypeOK, Page
<1> QED
  BY <1>1, <1>2, <1>3, <1>4, <1>5, <1>6, <1>7, <1>8

(* A reader tracks its page.                                               *)
LEMMA TrackKeeps ==
  ASSUME CacheInv, NEW r \in Reader, Track(r)
  PROVE  CacheInv'
<1> USE DEF CacheInv
<1>1. TypeOK'
  BY TypingOfBrowse DEF Browse
<1>2. TrackersTrackPages'
  BY DEF Track, Resting, TrackersTrackPages, TypeOK
<1>3. RacesAreNoticed'
  BY DEF Track, Resting, RacesAreNoticed, BeingTracked, Trusted, TypeOK
<1>4. HandlersClear'
  BY DEF Track, Resting, HandlersClear, Trusted, TypeOK
<1>5. NewsIsTrue'
  BY DEF Track, Resting, NewsIsTrue, TypeOK
<1>6. AnswersAreFresh'
  BY DEF Track, Resting, AnswersAreFresh, Shows, TypeOK
<1>7. PagesAreTracked'
  BY DEF Track, Resting, PagesAreTracked, BeingTracked, TypeOK
<1>8. OnlyRacesLeaveStaleEntries'
  BY DEF Track, Resting, OnlyRacesLeaveStaleEntries, Stale, Shows, TypeOK
<1> QED
  BY <1>1, <1>2, <1>3, <1>4, <1>5, <1>6, <1>7, <1>8

(* A command of a reader fails.                                            *)
LEMMA StoreFailsKeeps ==
  ASSUME CacheInv, NEW r \in Reader, StoreFails(r)
  PROVE  CacheInv'
<1> USE DEF CacheInv
<1>1. TypeOK'
  BY TypingOfBrowse DEF Browse
<1>2. TrackersTrackPages'
  BY DEF StoreFails, Resting, Entry, Key, TrackersTrackPages, TypeOK
<1>3. RacesAreNoticed'
  BY DEF StoreFails, Resting, Entry, Key, RacesAreNoticed, BeingTracked, Trusted, TypeOK
<1>4. HandlersClear'
  BY DEF StoreFails, Resting, Entry, Key, HandlersClear, RacesAreNoticed, Trusted, TypeOK
<1>5. NewsIsTrue'
  BY DEF StoreFails, Resting, Entry, Key, NewsIsTrue, TypeOK
<1>6. AnswersAreFresh'
  BY DEF StoreFails, Resting, Entry, Key, AnswersAreFresh, Shows, TypeOK
<1>7. PagesAreTracked'
  <2> SUFFICES ASSUME NEW q \in Query, entry'[q] # Absent
               PROVE  q \in index \/ entry'[q].suspect \/ BeingTracked(q)'
    BY DEF StoreFails, PagesAreTracked
  <2> DEFINE k == fill[r].key
  <2>1. q \in Key /\ k \in Key
    BY DEF Key, TypeOK
  <2>2. entry \in [Key -> Entry \cup {Absent}]
    BY DEF TypeOK
  <2>3. ASSUME NEW s \in Reader, s # r PROVE fill'[s] = fill[s]
    BY <2>3 DEF StoreFails, TypeOK
  <2>4. CASE entry'[q] = entry[q] /\ ~(fill[r].step = "tracking" /\ k = q)
    <3>1. q \in index \/ entry[q].suspect \/ BeingTracked(q)
      BY <2>4 DEF PagesAreTracked
    <3> QED
      BY <2>3, <2>4, <3>1 DEF BeingTracked
  <2>5. CASE fill[r].step = "tracking" /\ k = q
    <3>1. entry[q] # Absent => entry'[q] = [entry[q] EXCEPT !.suspect = TRUE]
      BY <2>1, <2>2, <2>5 DEF StoreFails
    <3>2. entry[q] # Absent
      BY <2>1, <2>2, <2>5 DEF StoreFails
    <3>3. entry[q] \in Entry
      BY <2>1, <2>2, <3>2
    <3> QED
      BY <3>1, <3>2, <3>3 DEF Entry
  <2>6. CASE entry'[q] # entry[q] /\ fill[r].step = "storing"
    <3>1. entry' = [entry EXCEPT ![k] = [page |-> fill[r].page,
                                         suspect |-> fill[r].suspect \/ k \in Query]]
      BY <2>6 DEF StoreFails
    <3>2. k = q
      BY <2>1, <2>2, <2>6, <3>1
    <3>3. entry'[q] = [page |-> fill[r].page, suspect |-> fill[r].suspect \/ k \in Query]
      BY <2>1, <2>2, <3>1, <3>2
    <3>4. (fill[r].suspect \/ k \in Query) = TRUE
      BY <3>2, Zenon
    <3>5. entry'[q] = [page |-> fill[r].page, suspect |-> TRUE]
      BY <3>3, <3>4, Zenon
    <3>6. entry'[q].suspect = TRUE
      BY <3>5
    <3> QED
      BY <3>6, Zenon
  <2>7. CASE entry'[q] # entry[q] /\ fill[r].step = "tracking" /\ k # q
    BY <2>1, <2>2, <2>7 DEF StoreFails
  <2> QED
    BY <2>4, <2>5, <2>6, <2>7 DEF StoreFails
<1>8. OnlyRacesLeaveStaleEntries'
  BY DEF StoreFails, Resting, Entry, Key, OnlyRacesLeaveStaleEntries, AnswersAreFresh, Stale, Shows, TypeOK, Page
<1> QED
  BY <1>1, <1>2, <1>3, <1>4, <1>5, <1>6, <1>7, <1>8

(* An entry expires.                                                       *)
LEMMA ExpireKeeps ==
  ASSUME CacheInv, NEW k \in Key, Expire(k)
  PROVE  CacheInv'
<1> USE DEF CacheInv
<1>1. TypeOK'
  BY DEF Expire, TypeOK
<1>2. TrackersTrackPages'
  BY DEF Expire, Key, TrackersTrackPages, TypeOK
<1>3. RacesAreNoticed'
  BY DEF Expire, Key, RacesAreNoticed, BeingTracked, Trusted, TypeOK
<1>4. HandlersClear'
  BY DEF Expire, Key, HandlersClear, Trusted, TypeOK
<1>5. NewsIsTrue'
  BY DEF Expire, Key, NewsIsTrue, TypeOK
<1>6. AnswersAreFresh'
  BY DEF Expire, Key, AnswersAreFresh, Shows, TypeOK
<1>7. PagesAreTracked'
  BY DEF Expire, Key, PagesAreTracked, BeingTracked, TypeOK
<1>8. OnlyRacesLeaveStaleEntries'
  BY DEF Expire, Key, OnlyRacesLeaveStaleEntries, Stale, Shows, TypeOK
<1> QED
  BY <1>1, <1>2, <1>3, <1>4, <1>5, <1>6, <1>7, <1>8

(* A webhook request arrives.                                              *)
LEMMA ReceiveKeeps ==
  ASSUME CacheInv, NEW w \in Hook, NEW c \in posted, Receive(w, c)
  PROVE  CacheInv'
<1> USE DEF CacheInv
<1>1. TypeOK'
  BY TypingOfInvalidate DEF Invalidate
<1>2. TrackersTrackPages'
  BY DEF Receive, Entry, Key, Call, TrackersTrackPages, TypeOK
<1>3. RacesAreNoticed'
  BY DEF Receive, Entry, Key, Call, RacesAreNoticed, BeingTracked, Trusted, TypeOK
<1>4. HandlersClear'
  BY DEF Receive, Entry, Key, Call, HandlersClear, Trusted, TypeOK
<1>5. NewsIsTrue'
  BY DEF Receive, Entry, Key, Call, NewsIsTrue, TypeOK
<1>6. AnswersAreFresh'
  BY DEF Receive, Entry, Key, Call, AnswersAreFresh, Shows, TypeOK
<1>7. PagesAreTracked'
  BY DEF Receive, Entry, Key, Call, PagesAreTracked, BeingTracked, TypeOK
<1>8. OnlyRacesLeaveStaleEntries'
  BY DEF Receive, Entry, Key, Call, OnlyRacesLeaveStaleEntries, Stale, Shows, TypeOK
<1> QED
  BY <1>1, <1>2, <1>3, <1>4, <1>5, <1>6, <1>7, <1>8

(* A handler deletes the detail.                                           *)
LEMMA ClearDetailKeeps ==
  ASSUME CacheInv, NEW w \in Hook, ClearDetail(w)
  PROVE  CacheInv'
<1> USE DEF CacheInv
<1>1. TypeOK'
  BY TypingOfInvalidate DEF Invalidate
<1>2. TrackersTrackPages'
  BY DEF ClearDetail, Key, TrackersTrackPages, TypeOK
<1>3. RacesAreNoticed'
  BY DEF ClearDetail, Key, RacesAreNoticed, BeingTracked, Trusted, TypeOK
<1>4. HandlersClear'
  BY DEF ClearDetail, Key, HandlersClear, Trusted, TypeOK
<1>5. NewsIsTrue'
  BY DEF ClearDetail, Key, NewsIsTrue, TypeOK
<1>6. AnswersAreFresh'
  BY DEF ClearDetail, Key, AnswersAreFresh, Shows, TypeOK
<1>7. PagesAreTracked'
  BY DEF ClearDetail, Key, PagesAreTracked, BeingTracked, TypeOK
<1>8. OnlyRacesLeaveStaleEntries'
  BY DEF ClearDetail, Key, OnlyRacesLeaveStaleEntries, Stale, Shows, TypeOK
<1> QED
  BY <1>1, <1>2, <1>3, <1>4, <1>5, <1>6, <1>7, <1>8

(* A handler reads the index.                                              *)
LEMMA ReadIndexKeeps ==
  ASSUME CacheInv, NEW w \in Hook, ReadIndex(w)
  PROVE  CacheInv'
<1> USE DEF CacheInv
<1>1. TypeOK'
  BY TypingOfInvalidate DEF Invalidate
<1>2. TrackersTrackPages'
  BY DEF ReadIndex, Key, TrackersTrackPages, TypeOK
<1>3. RacesAreNoticed'
  BY DEF ReadIndex, Key, RacesAreNoticed, BeingTracked, Trusted, TypeOK
<1>4. HandlersClear'
  BY DEF ReadIndex, Key, HandlersClear, PagesAreTracked, RacesAreNoticed, Trusted, TypeOK
<1>5. NewsIsTrue'
  BY DEF ReadIndex, Key, NewsIsTrue, TypeOK
<1>6. AnswersAreFresh'
  BY DEF ReadIndex, Key, AnswersAreFresh, Shows, TypeOK
<1>7. PagesAreTracked'
  BY DEF ReadIndex, Key, PagesAreTracked, BeingTracked, TypeOK
<1>8. OnlyRacesLeaveStaleEntries'
  BY DEF ReadIndex, Key, OnlyRacesLeaveStaleEntries, Stale, Shows, TypeOK
<1> QED
  BY <1>1, <1>2, <1>3, <1>4, <1>5, <1>6, <1>7, <1>8

(* A handler deletes the pages.                                            *)
LEMMA ClearPagesKeeps ==
  ASSUME CacheInv, NEW w \in Hook, ClearPages(w)
  PROVE  CacheInv'
<1> USE DEF CacheInv
<1>1. TypeOK'
  BY TypingOfInvalidate DEF Invalidate
<1>2. TrackersTrackPages'
  BY DEF ClearPages, Key, TrackersTrackPages, TypeOK
<1>3. RacesAreNoticed'
  BY DEF ClearPages, Key, RacesAreNoticed, BeingTracked, Trusted, TypeOK
<1>4. HandlersClear'
  BY DEF ClearPages, Key, HandlersClear, Trusted, TypeOK
<1>5. NewsIsTrue'
  BY DEF ClearPages, Key, NewsIsTrue, TypeOK
<1>6. AnswersAreFresh'
  BY DEF ClearPages, Key, AnswersAreFresh, Shows, TypeOK
<1>7. PagesAreTracked'
  BY DEF ClearPages, Key, PagesAreTracked, BeingTracked, TypeOK
<1>8. OnlyRacesLeaveStaleEntries'
  BY DEF ClearPages, Key, OnlyRacesLeaveStaleEntries, Stale, Shows, TypeOK
<1> QED
  BY <1>1, <1>2, <1>3, <1>4, <1>5, <1>6, <1>7, <1>8

(* A handler deletes the index and answers.                                *)
LEMMA ClearIndexKeeps ==
  ASSUME CacheInv, NEW w \in Hook, ClearIndex(w)
  PROVE  CacheInv'
<1> USE DEF CacheInv
<1>1. TypeOK'
  BY TypingOfInvalidate DEF Invalidate
<1>2. TrackersTrackPages'
  BY DEF ClearIndex, Waiting, Key, Page, TrackersTrackPages, TypeOK
<1>3. RacesAreNoticed'
  BY DEF ClearIndex, Waiting, Key, Page, RacesAreNoticed, BeingTracked, Trusted, TypeOK
<1>4. HandlersClear'
  BY DEF ClearIndex, Waiting, Key, Page, HandlersClear, Trusted, TypeOK
<1>5. NewsIsTrue'
  BY DEF ClearIndex, Waiting, Key, Page, NewsIsTrue, TypeOK
<1>6. AnswersAreFresh'
  BY DEF ClearIndex, AnswersAreFresh, RacesAreNoticed, TypeOK
<1>7. PagesAreTracked'
  BY DEF ClearIndex, PagesAreTracked, HandlersClear, Trusted, BeingTracked, TypeOK, Key, Entry
<1>8. OnlyRacesLeaveStaleEntries'
  BY DEF ClearIndex, OnlyRacesLeaveStaleEntries, HandlersClear, Trusted, Stale, Shows, TypeOK, Key, Entry, Page
<1> QED
  BY <1>1, <1>2, <1>3, <1>4, <1>5, <1>6, <1>7, <1>8

(* A command of a handler fails.                                           *)
LEMMA ClearFailsKeeps ==
  ASSUME CacheInv, NEW w \in Hook, ClearFails(w)
  PROVE  CacheInv'
<1> USE DEF CacheInv
<1>1. TypeOK'
  BY TypingOfInvalidate DEF Invalidate
<1>2. TrackersTrackPages'
  BY DEF ClearFails, Waiting, Key, TrackersTrackPages, TypeOK
<1>3. RacesAreNoticed'
  BY DEF ClearFails, Waiting, Key, RacesAreNoticed, BeingTracked, Trusted, TypeOK
<1>4. HandlersClear'
  BY DEF ClearFails, Waiting, Key, HandlersClear, Trusted, TypeOK
<1>5. NewsIsTrue'
  BY DEF ClearFails, Waiting, Key, NewsIsTrue, TypeOK
<1>6. AnswersAreFresh'
  BY DEF ClearFails, Waiting, Key, AnswersAreFresh, Shows, TypeOK
<1>7. PagesAreTracked'
  BY DEF ClearFails, PagesAreTracked, HandlersClear, Trusted, BeingTracked, TypeOK, Key, Entry
<1>8. OnlyRacesLeaveStaleEntries'
  BY DEF ClearFails, Waiting, Key, OnlyRacesLeaveStaleEntries, Stale, Shows, TypeOK
<1> QED
  BY <1>1, <1>2, <1>3, <1>4, <1>5, <1>6, <1>7, <1>8

-----------------------------------------------------------------------------
(* CacheInv is inductive.                                                  *)
LEMMA CacheStep == CacheInv /\ [Next]_vars => CacheInv'
<1> SUFFICES ASSUME CacheInv, [Next]_vars PROVE CacheInv'
  OBVIOUS
<1>1. CASE \E d \in Diamond : Change(d)
  BY <1>1, ChangeKeeps
<1>2. ASSUME NEW r \in Reader, Browse(r) PROVE CacheInv'
  BY <1>2, MissKeeps, ErpAnswersKeeps, ErpFailsKeeps, StoreKeeps, TrackKeeps, StoreFailsKeeps
     DEF Browse
<1>3. ASSUME NEW w \in Hook, Invalidate(w) PROVE CacheInv'
  BY <1>3, ReceiveKeeps, ClearDetailKeeps, ReadIndexKeeps, ClearPagesKeeps, ClearIndexKeeps,
     ClearFailsKeeps DEF Invalidate
<1>4. CASE \E k \in Key : Expire(k)
  BY <1>4, ExpireKeeps
<1>5. CASE UNCHANGED vars
  BY <1>5 DEF vars, CacheInv, TypeOK, TrackersTrackPages, RacesAreNoticed, HandlersClear,
     NewsIsTrue, AnswersAreFresh, PagesAreTracked, OnlyRacesLeaveStaleEntries, Stale, Shows,
     Trusted, BeingTracked
<1> QED
  BY <1>1, <1>2, <1>3, <1>4, <1>5 DEF Next

(* The invariant holds in every reachable state.                           *)
THEOREM CacheSafety == Spec => []CacheInv
  BY InitCache, CacheStep, PTL DEF Spec

(* Entries, fills and handlers are what they are taken for.                *)
THEOREM CacheTyping == Spec => []TypeOK
<1>1. CacheInv => TypeOK
  BY DEF CacheInv
<1> QED
  BY <1>1, CacheSafety, PTL

(* Every page that was not filled under a webhook can be cleared by one.   *)
THEOREM PagesStayInReach == Spec => []PagesAreTracked
<1>1. CacheInv => PagesAreTracked
  BY DEF CacheInv
<1> QED
  BY <1>1, CacheSafety, PTL

(* Only what was filled while a webhook was being handled outlives it.     *)
THEOREM OnlyRacesGoStale == Spec => []OnlyRacesLeaveStaleEntries
<1>1. CacheInv => OnlyRacesLeaveStaleEntries
  BY DEF CacheInv
<1> QED
  BY <1>1, CacheSafety, PTL
=============================================================================
