------------------------------ MODULE TenantAdmin ------------------------------
(***************************************************************************)
(* A dealer's connection settings: TenantService and AdminController, the  *)
(* form that edits them (TenantFormPage), TypeORM's save between the two   *)
(* and the row, and the ERP requests that are made with them.              *)
(*                                                                         *)
(* Three columns stand for all: erp_base_url (required and always sent, as *)
(* are the name, the rate limit and the hold length), erp_api_key          *)
(* (write-only, an empty input keeps it) and company_id (optional, left    *)
(* out of a request when empty, as is brand_instructions).  The widget key *)
(* and the webhook secret never change.  One tenant is modelled; tenants   *)
(* share nothing.  A key is represented by the system that issued it, a    *)
(* system by its url.  A stored key is encrypted anew whenever it is given *)
(* and then equals no older one; what is stored is represented by the key  *)
(* that APP_SECRET opens it to.                                            *)
(*                                                                         *)
(* What an admin types is chosen when it is saved.  Admins are careful: a  *)
(* new url comes with a key of that system, and a key is one of the url on *)
(* the screen; unless an answer came while they typed and replaced part of *)
(* it.  fresh, suspect and touched are observers, and so is muddled but    *)
(* for what it says of the admin.                                          *)
(***************************************************************************)
EXTENDS Naturals

CONSTANTS
  Window,           \* browser windows with the admin panel
  User,             \* chat turns and connection tests, each with its own Tenant
  Url, Company,
  Empty,            \* an empty input, a null column
  NoRow, NoInput,
  MaxWrites         \* bound: writes of the row

Tenant == [url: Url, key: Url, company: Company \cup {Empty}]
Input == [url: Url, key: Url \cup {Empty}, company: Company \cup {Empty}]
Row == [tenant: Tenant, suspect: BOOLEAN]

ASSUME EmptyAssumption == Empty \notin Url \cup Company
ASSUME NoneAssumption == NoRow \notin Row /\ NoInput \notin Input
ASSUME WritesAssumption == MaxWrites \in Nat

VARIABLES
  row,       \* the tenants row, or NoRow
  writes,    \* how often it was written
  win,       \* the windows: see WindowState
  upd,       \* the save request of each window: see UpdateState
  user       \* the ERP users: see UserState

vars == <<row, writes, win, upd, user>>

Columns == {"url", "key", "company"}

(* The inputs as last loaded or saved; whether nobody else has written the *)
(* row since; which inputs are not saved because a save failed.  What a    *)
(* muddled form shows is of no use to anybody and is forgotten.            *)
Shown == [url: Url \cup {Empty}, company: Company \cup {Empty}]
WindowState == [page: {"closed", "new", "edit"}, shown: Shown,
                form: {"fresh", "stale", "muddled"}, touched: SUBSET Columns]

(* The request: what it is to set, whether it gives a key, what the admin  *)
(* has typed of it, whether its form is up to date; then the entity that   *)
(* update() merged and the columns save() found to differ.                 *)
UpdateState == [step: {"none", "creating", "updating", "merged", "compared", "answered"},
                input: Input \cup {NoInput}, rekeyed: BOOLEAN,
                touched: SUBSET Columns, fresh: BOOLEAN, changes: SUBSET Columns]

(* What a user read of the row, and whether it has made a request with it. *)
UserState == [step: {"none", "found", "asked"}, suspect: BOOLEAN,
              url: Url \cup {Empty}, key: Url \cup {Empty}]

TypeOK ==
  /\ row \in Row \cup {NoRow}
  /\ writes \in 0 .. MaxWrites
  /\ win \in [Window -> WindowState]
  /\ upd \in [Window -> UpdateState]
  /\ user \in [User -> UserState]

NothingShown == [url |-> Empty, company |-> Empty]
Form(page, shown, form) == [page |-> page, shown |-> shown, form |-> form, touched |-> {}]
NoUpdate == [step |-> "none", input |-> NoInput, rekeyed |-> FALSE, touched |-> {},
             fresh |-> FALSE, changes |-> {}]
NoUse == [step |-> "none", suspect |-> FALSE, url |-> Empty, key |-> Empty]

(* No tenant yet, or one that was created earlier.                         *)
Init ==
  /\ \/ row = NoRow
     \/ \E t \in Tenant : t.key = t.url /\ row = [tenant |-> t, suspect |-> FALSE]
  /\ writes = 0
  /\ win = [a \in Window |-> Form("closed", NothingShown, "stale")]
  /\ upd = [a \in Window |-> NoUpdate]
  /\ user = [u \in User |-> NoUse]

Idle(a) == upd[a].step = "none"

-----------------------------------------------------------------------------
(***************************************************************************)
(* The form.                                                               *)
(***************************************************************************)

(* Bound: one tenant, so the page of a new one is opened while there is    *)
(* none.                                                                   *)
OpenNew(a) ==
  /\ win[a].page = "closed" /\ row = NoRow
  /\ win' = [win EXCEPT ![a] = Form("new", NothingShown, "fresh")]
  /\ UNCHANGED <<row, writes, upd, user>>

(* GET /admin/tenants/:id fills the inputs.  Its answer may come after the *)
(* admin has begun to type, and replaces that; or it fails, and the form   *)
(* stays blank.  A late answer is a form that was left open.               *)
OpenEdit(a) ==
  /\ win[a].page = "closed" /\ row # NoRow
  /\ \/ LET t == row.tenant
        IN  win' = [win EXCEPT ![a] =
              Form("edit", [url |-> t.url, company |-> t.company], "fresh")]
     \/ win' = [win EXCEPT ![a] = Form("edit", NothingShown, "muddled")]
  /\ UNCHANGED <<row, writes, upd, user>>

Leave(a) ==
  /\ Idle(a) /\ win[a].page # "closed"
  /\ win' = [win EXCEPT ![a] = Form("closed", NothingShown, "stale")]
  /\ UNCHANGED <<row, writes, upd, user>>

(* The columns in which an input differs from what the form showed.        *)
Typed(shown, in) ==
  {c \in {"url", "company"} : in[c] # shown[c]} \cup {c \in {"key"} : in.key # Empty}

Careful(w, in) ==
  IF in.key = Empty THEN in.url = w.shown.url /\ "key" \notin w.touched
                    ELSE in.key = in.url

(* save(): sends all the inputs.  A failed save left them as they were, so *)
(* what it was to change is still to be changed.  (Save is disabled while  *)
(* one runs; the key of a new tenant is required.)                         *)
Save(a) ==
  LET w == win[a] IN
  /\ Idle(a) /\ w.page # "closed"
  /\ \E in \in Input :
       LET touched == IF w.form = "fresh" THEN w.touched \cup Typed(w.shown, in) ELSE {}
       IN  /\ w.form = "muddled" \/ Careful(w, in)
           /\ w.page = "new" => in.key # Empty /\ row = NoRow
           /\ upd' = [upd EXCEPT ![a] =
                [step |-> IF w.page = "new" THEN "creating" ELSE "updating",
                 input |-> in, rekeyed |-> in.key # Empty, touched |-> touched,
                 fresh |-> w.form = "fresh", changes |-> {}]]
           /\ win' = [win EXCEPT ![a] =
                [@ EXCEPT !.shown = IF w.form = "muddled" THEN NothingShown
                                    ELSE [url |-> in.url, company |-> in.company],
                          !.touched = {}]]
  /\ UNCHANGED <<row, writes, user>>

(* The answer empties the key input, with the key of another system if the *)
(* admin has begun to type one.                                            *)
Saved(a) ==
  /\ upd[a].step = "answered"
  /\ upd' = [upd EXCEPT ![a] = NoUpdate]
  /\ \E muddled \in BOOLEAN :
       win' = [win EXCEPT ![a] =
         IF muddled THEN Form("edit", NothingShown, "muddled") ELSE [@ EXCEPT !.page = "edit"]]
  /\ UNCHANGED <<row, writes, user>>

(* The request is lost, the process dies over it or the answer is lost.    *)
(* The inputs stay, the key included.                                      *)
SaveFails(a) ==
  /\ ~Idle(a)
  /\ win' = [win EXCEPT ![a].touched = upd[a].touched]
  /\ upd' = [upd EXCEPT ![a] = NoUpdate]
  /\ UNCHANGED <<row, writes, user>>

-----------------------------------------------------------------------------
(***************************************************************************)
(* The service.                                                            *)
(***************************************************************************)

(* A write makes the forms and the requests of all others stale.           *)
Outdate(a) ==
  /\ win' = [b \in Window |->
       IF b = a \/ win[b].form # "fresh" THEN win[b]
       ELSE [win[b] EXCEPT !.form = "stale", !.touched = {}]]
  /\ upd' = [b \in Window |->
       IF b = a THEN [NoUpdate EXCEPT !.step = "answered", !.touched = upd[a].touched]
       ELSE [upd[b] EXCEPT !.fresh = FALSE, !.touched = {}]]

(* POST /admin/tenants, create(): throws without a key.  Bound: a second   *)
(* tenant is not made.                                                     *)
CreateTenant(a) ==
  /\ upd[a].step = "creating" /\ upd[a].input.key # Empty
  /\ row = NoRow /\ writes < MaxWrites
  /\ row' = [tenant |-> upd[a].input, suspect |-> ~upd[a].fresh]
  /\ writes' = writes + 1
  /\ Outdate(a)
  /\ UNCHANGED user

(* Mutant: an empty key is stored.                                         *)
MergedWithBlanks(in, t) == [t EXCEPT !.url = in.url, !.key = in.key]

(* Mutant: a new key is taken for a new account, whose company id is unset *)
(* unless it is given.                                                     *)
MergedForANewAccount(in, t) ==
  [url |-> in.url,
   key |-> IF in.key = Empty THEN t.key ELSE in.key,
   company |-> IF in.company = Empty /\ in.key = Empty THEN t.company ELSE in.company]

(* PATCH /admin/tenants/:id, update(): findById, and the inputs that are   *)
(* there replace what it returned.                                         *)
Merged(in, t) == [url |-> in.url,
                  key |-> IF in.key = Empty THEN t.key ELSE in.key,
                  company |-> IF in.company = Empty THEN t.company ELSE in.company]

FindAndMerge(a) ==
  /\ upd[a].step = "updating" /\ row # NoRow
  /\ upd' = [upd EXCEPT ![a].step = "merged", ![a].input = Merged(@, row.tenant)]
  /\ UNCHANGED <<row, writes, win, user>>

(* save() reads the row again and keeps the columns in which the entity    *)
(* differs from it.  A key that was given is encrypted anew and differs.   *)
Differences(entity, t, rekeyed) ==
  {c \in Columns : entity[c] # t[c]} \cup {c \in {"key"} : rekeyed}

Compare(a) ==
  LET s == upd[a] IN
  /\ s.step = "merged"
  /\ upd' = [upd EXCEPT ![a].step = "compared",
                        ![a].changes = Differences(s.input, row.tenant, s.rekeyed)]
  /\ UNCHANGED <<row, writes, win, user>>

(* ... and writes these, in one UPDATE; there is none if there are none.   *)
Write(a) ==
  LET s == upd[a] IN
  /\ s.step = "compared"
  /\ \/ /\ s.changes = {}
        /\ upd' = [upd EXCEPT ![a] = [NoUpdate EXCEPT !.step = "answered",
                                                      !.touched = s.touched]]
        /\ UNCHANGED <<row, writes, win>>
     \/ /\ s.changes # {} /\ writes < MaxWrites
        /\ row' = [tenant |-> [c \in Columns |->
                                 IF c \in s.changes THEN s.input[c] ELSE row.tenant[c]],
                   suspect |-> ~s.fresh \/ (row.suspect /\ "key" \notin s.changes)]
        /\ writes' = writes + 1
        /\ Outdate(a)
  /\ UNCHANGED user

-----------------------------------------------------------------------------
(***************************************************************************)
(* Chat turns, the expiry sweep and connection tests: each reads the row   *)
(* once and makes its requests with what it read.                          *)
(***************************************************************************)

FindTenant(u) ==
  /\ user[u].step = "none" /\ row # NoRow
  /\ user' = [user EXCEPT ![u] = [step |-> "found", suspect |-> row.suspect,
                                  url |-> row.tenant.url, key |-> row.tenant.key]]
  /\ UNCHANGED <<row, writes, win, upd>>

(* Mutant: the key is read again when the request is made.                 *)
RequestWithTheKeyOfNow(u) ==
  /\ user[u].step = "found"
  /\ user' = [user EXCEPT ![u].step = "asked", ![u].key = row.tenant.key]
  /\ UNCHANGED <<row, writes, win, upd>>

(* credentialsFor(): url and key of the tenant that was found.             *)
Request(u) ==
  /\ user[u].step = "found"
  /\ user' = [user EXCEPT ![u].step = "asked"]
  /\ UNCHANGED <<row, writes, win, upd>>

EndUse(u) ==
  /\ user[u].step = "asked"
  /\ user' = [user EXCEPT ![u] = NoUse]
  /\ UNCHANGED <<row, writes, win, upd>>

Next ==
  \/ \E a \in Window :
       \/ OpenNew(a) \/ OpenEdit(a) \/ Leave(a)
       \/ Save(a) \/ Saved(a) \/ SaveFails(a)
       \/ CreateTenant(a) \/ FindAndMerge(a) \/ Compare(a) \/ Write(a)
  \/ \E u \in User : FindTenant(u) \/ Request(u) \/ EndUse(u)

Spec == Init /\ [][Next]_vars

-----------------------------------------------------------------------------
(* No ERP is asked with a key that another one issued, unless the last     *)
(* save of a url or a key came from a stale or a muddled form.             *)
KeysGoToTheirSystem ==
  \A u \in User : user[u].step = "asked" => user[u].suspect \/ user[u].key = user[u].url

(* What an up-to-date form did not touch, its save does not change: only a *)
(* stale or a muddled form undoes what somebody else has saved.            *)
OnlyStaleFormsUndo ==
  [][\A a \in Window :
       upd[a].step = "compared" /\ upd[a].fresh /\ upd'[a].step = "answered" =>
         \A c \in Columns \ upd[a].touched : row'.tenant[c] = row.tenant[c]]_vars
=============================================================================
