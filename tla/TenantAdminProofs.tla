--------------------------- MODULE TenantAdminProofs ---------------------------
(***************************************************************************)
(* Theorems of TenantAdmin, for any number of windows and users, all urls  *)
(* and companies and any number of writes:                                 *)
(*                                                                         *)
(*   AdminSafety             the inductive invariant AdminInv              *)
(*   AdminTyping             TypeOK                                        *)
(*   KeysStayHome            KeysGoToTheirSystem                           *)
(*   StaleFormsAloneUndo     OnlyStaleFormsUndo                            *)
(*                                                                         *)
(* The argument follows a form through its request: an up-to-date form     *)
(* differs from the row only in what the admin has typed (FormIsTrue), so  *)
(* does the request (RequestIsTrue), and the merge with the row and the    *)
(* comparison with it keep that, because nobody else writes meanwhile;     *)
(* whoever does makes the form and the request stale.                      *)
(***************************************************************************)
EXTENDS TenantAdmin, TLAPS

-----------------------------------------------------------------------------
(* A row, and what a user has read of it, is of one system unless it is    *)
(* known not to be.                                                        *)
RowIsHonest == row # NoRow => row.suspect \/ row.tenant.key = row.tenant.url

UsersAreHonest ==
  \A u \in User : user[u].step # "none" => user[u].suspect \/ user[u].key = user[u].url

Underway == {"creating", "updating", "merged", "compared"}

(* What the admin at window w with request s has typed and nobody has      *)
(* saved.                                                                  *)
Unsaved(w, s) ==
  IF s.step = "none" THEN w.touched ELSE IF s.step = "answered" THEN {} ELSE s.touched

(* An up-to-date form differs from the row r in what is not saved, and no  *)
(* url is unsaved without its key.  (An emptied company id stays what it   *)
(* was.)                                                                   *)
FormIsTrue(w, s, r) ==
  w.page = "edit" \/ s.step = "answered" =>
    /\ r # NoRow
    /\ w.form = "fresh" =>
         /\ {"url", "key"} \subseteq Unsaved(w, s) \/ w.shown.url = r.tenant.url
         /\ "company" \in Unsaved(w, s) \/ w.shown.company \in {Empty, r.tenant.company}

(* What a request is to set, and how far it is from the row.               *)
RequestIsTrue(w, s, r) ==
  /\ w.page = "closed" => s.step = "none"
  /\ s.step \in Underway => s.fresh = (w.form = "fresh") /\ s.input \in Input
  /\ s.step \in {"creating", "updating"} /\ s.fresh =>
       w.shown.company = s.input.company
  /\ s.step \in Underway /\ s.fresh =>
       /\ w.shown.url = s.input.url
       /\ s.rekeyed => s.input.key = s.input.url
  /\ s.step = "creating" => s.rekeyed
  /\ s.step \in {"updating", "merged", "compared"} =>
       /\ w.page = "edit"
       /\ s.fresh => (s.rekeyed <=> "key" \in s.touched)
  /\ s.step = "updating" => (s.rekeyed <=> s.input.key # Empty)
  /\ s.step \in {"merged", "compared"} =>
       /\ s.input \in Tenant
       /\ s.fresh =>
            /\ s.rekeyed \/ s.input.key = r.tenant.key
            /\ "company" \in s.touched \/ s.input.company = r.tenant.company
            /\ w.shown.company \in {Empty, s.input.company}
  /\ s.step = "compared" /\ s.fresh =>
       s.changes = Differences(s.input, r.tenant, s.rekeyed)

AdminInv ==
  /\ TypeOK
  /\ RowIsHonest
  /\ UsersAreHonest
  /\ \A a \in Window : FormIsTrue(win[a], upd[a], row) /\ RequestIsTrue(win[a], upd[a], row)

-----------------------------------------------------------------------------
(* Nothing typed, nothing under way: a form and a request that say nothing *)
LEMMA NothingIsTyped ==
  /\ NothingShown \in Shown
  /\ NoUpdate \in UpdateState /\ NoUpdate.step = "none" /\ NoUpdate.fresh = FALSE
  /\ NoUse \in UserState /\ NoUse.step = "none"
BY DEF NothingShown, Shown, NoUpdate, UpdateState, NoUse, UserState

(* A form is a record of the columns it shows.                             *)
LEMMA FormIsTyped ==
  ASSUME NEW page \in {"closed", "new", "edit"}, NEW shown \in Shown,
         NEW form \in {"fresh", "stale", "muddled"}
  PROVE  Form(page, shown, form) \in WindowState
BY DEF Form, WindowState

(* The first state.                                                        *)
LEMMA InitIsTrue == Init => AdminInv
<1> SUFFICES ASSUME Init PROVE AdminInv
  OBVIOUS
<1>1. row \in Row \cup {NoRow} /\ RowIsHonest
  <2>1. CASE row = NoRow
    BY <2>1 DEF RowIsHonest
  <2>2. CASE row # NoRow
    <3>1. PICK t \in Tenant : t.key = t.url /\ row = [tenant |-> t, suspect |-> FALSE]
      BY <2>2 DEF Init
    <3>2. row \in Row /\ row.tenant = t
      BY <3>1 DEF Row
    <3> QED
      BY <3>1, <3>2 DEF RowIsHonest
  <2> QED
    BY <2>1, <2>2
<1>2. /\ writes \in 0 .. MaxWrites
      /\ win \in [Window -> WindowState] /\ upd \in [Window -> UpdateState]
      /\ user \in [User -> UserState]
  BY NothingIsTyped, FormIsTyped, WritesAssumption DEF Init
<1>3. UsersAreHonest
  BY NothingIsTyped DEF Init, UsersAreHonest
<1>4. ASSUME NEW a \in Window
      PROVE  FormIsTrue(win[a], upd[a], row) /\ RequestIsTrue(win[a], upd[a], row)
  BY NothingIsTyped DEF Init, Form, FormIsTrue, RequestIsTrue, Underway
<1> QED
  BY <1>1, <1>2, <1>3, <1>4 DEF AdminInv, TypeOK

(* A step of one window that leaves the row alone.                         *)
LEMMA WindowStep ==
  ASSUME AdminInv, NEW a \in Window, NEW w \in WindowState, NEW s \in UpdateState,
         win' = [win EXCEPT ![a] = w], upd' = [upd EXCEPT ![a] = s],
         UNCHANGED <<row, writes, user>>,
         FormIsTrue(w, s, row), RequestIsTrue(w, s, row)
  PROVE  AdminInv'
<1>1. TypeOK'
  BY DEF AdminInv, TypeOK
<1>2. RowIsHonest' /\ UsersAreHonest'
  BY DEF AdminInv, RowIsHonest, UsersAreHonest
<1>3. ASSUME NEW b \in Window
      PROVE  FormIsTrue(win'[b], upd'[b], row') /\ RequestIsTrue(win'[b], upd'[b], row')
  <2>1. CASE b = a
    <3>1. win'[b] = w /\ upd'[b] = s /\ row' = row
      BY <2>1 DEF AdminInv, TypeOK
    <3> QED
      BY <3>1
  <2>2. CASE b # a
    <3>1. win'[b] = win[b] /\ upd'[b] = upd[b] /\ row' = row
      BY <2>2 DEF AdminInv, TypeOK
    <3> QED
      BY <3>1 DEF AdminInv
  <2> QED
    BY <2>1, <2>2
<1> QED
  BY <1>1, <1>2, <1>3 DEF AdminInv

(* What is known of one window.                                            *)
LEMMA WindowIsTrue ==
  ASSUME AdminInv, NEW a \in Window
  PROVE  /\ win[a] \in WindowState /\ upd[a] \in UpdateState
         /\ FormIsTrue(win[a], upd[a], row) /\ RequestIsTrue(win[a], upd[a], row)
         /\ win = [win EXCEPT ![a] = win[a]] /\ upd = [upd EXCEPT ![a] = upd[a]]
BY DEF AdminInv, TypeOK

-----------------------------------------------------------------------------
(* The form.                                                               *)

(* A page is opened or left: it shows what the row says, nothing or what   *)
(* nobody uses.                                                            *)
LEMMA OpenKeeps ==
  ASSUME AdminInv, NEW a \in Window, OpenNew(a) \/ OpenEdit(a) \/ Leave(a)
  PROVE  AdminInv'
<1>1. /\ upd[a] \in UpdateState /\ RequestIsTrue(win[a], upd[a], row)
      /\ upd' = [upd EXCEPT ![a] = upd[a]] /\ UNCHANGED <<row, writes, user>>
  BY WindowIsTrue DEF OpenNew, OpenEdit, Leave
<1>2. upd[a].step = "none"
  BY <1>1 DEF OpenNew, OpenEdit, Leave, Idle, RequestIsTrue
<1>3. ASSUME NEW page \in {"closed", "new", "edit"}, NEW shown \in Shown,
             NEW form \in {"fresh", "stale", "muddled"},
             win' = [win EXCEPT ![a] = Form(page, shown, form)],
             page = "edit" => row # NoRow,
             page = "edit" /\ form = "fresh" =>
               shown.url = row.tenant.url /\ shown.company = row.tenant.company
      PROVE  AdminInv'
  <2> DEFINE w == Form(page, shown, form)
  <2>1. w \in WindowState /\ w.page = page /\ w.shown = shown /\ w.form = form
    BY FormIsTyped DEF Form
  <2> HIDE DEF w
  <2>2. FormIsTrue(w, upd[a], row) /\ RequestIsTrue(w, upd[a], row)
    BY <1>2, <1>3, <2>1 DEF FormIsTrue, RequestIsTrue, Underway
  <2>3. win' = [win EXCEPT ![a] = w]
    BY <1>3 DEF w
  <2> QED
    BY <1>1, <2>1, <2>2, <2>3, WindowStep
<1>4. CASE OpenNew(a) \/ Leave(a)
  BY <1>3, <1>4, NothingIsTyped DEF OpenNew, Leave
<1>5. CASE OpenEdit(a)
  <2> DEFINE shown == [url |-> row.tenant.url, company |-> row.tenant.company]
  <2>1. row # NoRow /\ row \in Row
    BY <1>5 DEF OpenEdit, AdminInv, TypeOK
  <2>2. shown \in Shown
    BY <2>1 DEF Row, Tenant, Shown
  <2>3. \/ win' = [win EXCEPT ![a] = Form("edit", shown, "fresh")]
        \/ win' = [win EXCEPT ![a] = Form("edit", NothingShown, "muddled")]
    BY <1>5 DEF OpenEdit
  <2>4. shown.url = row.tenant.url /\ shown.company = row.tenant.company
    OBVIOUS
  <2> HIDE DEF shown
  <2>5. CASE win' = [win EXCEPT ![a] = Form("edit", shown, "fresh")]
    BY <1>3, <2>1, <2>2, <2>4, <2>5
  <2>6. CASE win' = [win EXCEPT ![a] = Form("edit", NothingShown, "muddled")]
    BY <1>3, <2>1, <2>6, NothingIsTyped
  <2> QED
    BY <2>3, <2>5, <2>6
<1> QED
  BY <1>4, <1>5

(* The form is sent: what it says is to be saved.                          *)
LEMMA SaveKeeps ==
  ASSUME AdminInv, NEW a \in Window, Save(a)
  PROVE  AdminInv'
<1>1. PICK w : w = win[a]
  OBVIOUS
<1>2. PICK in \in Input :
        LET touched == IF w.form = "fresh" THEN w.touched \cup Typed(w.shown, in) ELSE {}
        IN  /\ w.form = "muddled" \/ Careful(w, in)
            /\ w.page = "new" => in.key # Empty /\ row = NoRow
            /\ upd' = [upd EXCEPT ![a] =
                 [step |-> IF w.page = "new" THEN "creating" ELSE "updating",
                  input |-> in, rekeyed |-> in.key # Empty, touched |-> touched,
                  fresh |-> w.form = "fresh", changes |-> {}]]
            /\ win' = [win EXCEPT ![a] =
                 [@ EXCEPT !.shown = IF w.form = "muddled" THEN NothingShown
                                     ELSE [url |-> in.url, company |-> in.company],
                           !.touched = {}]]
  BY <1>1 DEF Save
<1>3. PICK touched : touched = IF w.form = "fresh" THEN w.touched \cup Typed(w.shown, in) ELSE {}
  OBVIOUS
<1>4. PICK v : v = [w EXCEPT !.shown = IF w.form = "muddled" THEN NothingShown
                                       ELSE [url |-> in.url, company |-> in.company],
                             !.touched = {}]
  OBVIOUS
<1>5. PICK s : s = [step |-> IF w.page = "new" THEN "creating" ELSE "updating",
                    input |-> in, rekeyed |-> in.key # Empty, touched |-> touched,
                    fresh |-> w.form = "fresh", changes |-> {}]
  OBVIOUS
<1>6. /\ win' = [win EXCEPT ![a] = v] /\ upd' = [upd EXCEPT ![a] = s]
      /\ w.form = "muddled" \/ Careful(w, in)
      /\ w.page = "new" => in.key # Empty
      /\ UNCHANGED <<row, writes, user>> /\ upd[a].step = "none" /\ w.page # "closed"
  BY <1>1, <1>2, <1>3, <1>4, <1>5 DEF Save, Idle
<1>7. w \in WindowState /\ FormIsTrue(w, upd[a], row)
  BY <1>1, WindowIsTrue
<1>8. /\ in.url \in Url /\ in.key \in Url \cup {Empty} /\ in.company \in Company \cup {Empty}
      /\ Typed(w.shown, in) \subseteq Columns
  BY DEF Input, Typed, Columns
<1>9. touched \subseteq Columns
  BY <1>3, <1>7, <1>8 DEF WindowState
<1>10. s \in UpdateState
  BY <1>5, <1>9 DEF UpdateState
<1>11. v \in WindowState
  BY <1>4, <1>7, <1>8, NothingIsTyped DEF WindowState, Shown
<1>12. /\ v.form = w.form /\ v.page = w.page
       /\ w.form = "fresh" => v.shown.url = in.url /\ v.shown.company = in.company
  BY <1>4, <1>7 DEF WindowState
<1>13. /\ s.step \in {"creating", "updating"} /\ s.input = in /\ s.touched = touched
       /\ s.rekeyed <=> in.key # Empty
       /\ s.fresh <=> w.form = "fresh"
       /\ s.step = "creating" <=> w.page = "new"
  BY <1>5
<1>14. w.form = "fresh" =>
         /\ in.key = Empty => in.url = w.shown.url /\ "key" \notin touched
         /\ in.key # Empty => in.key = in.url /\ "key" \in touched
         /\ "url" \in touched \/ (in.url = w.shown.url /\ "url" \notin w.touched)
         /\ "company" \in touched \/ (in.company = w.shown.company /\ "company" \notin w.touched)
  <2> SUFFICES ASSUME w.form = "fresh" PROVE
         /\ in.key = Empty => in.url = w.shown.url /\ "key" \notin touched
         /\ in.key # Empty => in.key = in.url /\ "key" \in touched
         /\ "url" \in touched \/ (in.url = w.shown.url /\ "url" \notin w.touched)
         /\ "company" \in touched \/ (in.company = w.shown.company /\ "company" \notin w.touched)
    OBVIOUS
  <2>1. touched = w.touched \cup Typed(w.shown, in) /\ Careful(w, in)
    BY <1>3, <1>6
  <2>2. /\ "key" \in Typed(w.shown, in) <=> in.key # Empty
        /\ "url" \in Typed(w.shown, in) <=> in.url # w.shown.url
        /\ "company" \in Typed(w.shown, in) <=> in.company # w.shown.company
    BY DEF Typed
  <2> QED
    BY <2>1, <2>2 DEF Careful
<1>15. w.page = "edit" /\ w.form = "fresh" =>
         /\ {"url", "key"} \subseteq w.touched \/ w.shown.url = row.tenant.url
         /\ "company" \in w.touched \/ w.shown.company \in {Empty, row.tenant.company}
  BY <1>6, <1>7 DEF FormIsTrue, Unsaved
<1>16. FormIsTrue(v, s, row)
  <2>1. Unsaved(v, s) = touched /\ s.step # "answered"
    BY <1>13 DEF Unsaved
  <2>2. w.page = "edit" => row # NoRow
    BY <1>7 DEF FormIsTrue
  <2>3. ASSUME w.page = "edit", w.form = "fresh"
        PROVE  /\ {"url", "key"} \subseteq touched \/ in.url = row.tenant.url
               /\ "company" \in touched \/ in.company \in {Empty, row.tenant.company}
    <3>1. {"url", "key"} \subseteq touched \/ in.url = row.tenant.url
      <4>1. w.touched \subseteq touched
        BY <1>3, <2>3
      <4>2. {"url", "key"} \subseteq w.touched \/ w.shown.url = row.tenant.url
        BY <1>15, <2>3
      <4>3. CASE in.key = Empty
        <5>1. in.url = w.shown.url /\ "key" \notin touched
          BY <1>14, <2>3, <4>3
        <5> QED
          BY <4>1, <4>2, <5>1
      <4>4. CASE in.key # Empty
        <5>1. "key" \in touched
          BY <1>14, <2>3, <4>4
        <5>2. "url" \in touched \/ (in.url = w.shown.url /\ "url" \notin w.touched)
          BY <1>14, <2>3
        <5> QED
          BY <4>2, <5>1, <5>2
      <4> QED
        BY <4>3, <4>4
    <3>2. "company" \in touched \/ in.company \in {Empty, row.tenant.company}
      <4>1. "company" \in touched \/ (in.company = w.shown.company /\ "company" \notin w.touched)
        BY <1>14, <2>3
      <4>2. "company" \in w.touched \/ w.shown.company \in {Empty, row.tenant.company}
        BY <1>15, <2>3
      <4> QED
        BY <4>1, <4>2, Zenon
    <3> QED
      BY <3>1, <3>2
  <2> QED
    BY <1>12, <2>1, <2>2, <2>3 DEF FormIsTrue
<1>17. RequestIsTrue(v, s, row)
  BY <1>5, <1>6, <1>7, <1>12, <1>13, <1>14 DEF RequestIsTrue, Underway, WindowState
<1> QED
  BY <1>6, <1>10, <1>11, <1>16, <1>17, WindowStep

(* The answer has come: what the form says is what is saved.               *)
LEMMA SavedKeeps ==
  ASSUME AdminInv, NEW a \in Window, Saved(a)
  PROVE  AdminInv'
<1>1. PICK w, s : w = win[a] /\ s = upd[a]
  OBVIOUS
<1>2. /\ w \in WindowState /\ FormIsTrue(w, s, row) /\ s.step = "answered"
      /\ upd' = [upd EXCEPT ![a] = NoUpdate] /\ UNCHANGED <<row, writes, user>>
  BY <1>1, WindowIsTrue DEF Saved
<1>3. PICK v : /\ win' = [win EXCEPT ![a] = v]
               /\ v = Form("edit", NothingShown, "muddled") \/ v = [w EXCEPT !.page = "edit"]
  BY <1>1 DEF Saved
<1>4. /\ v \in WindowState /\ v.page = "edit"
      /\ v.form = "muddled" \/ (v.form = w.form /\ v.shown = w.shown /\ v.touched = w.touched)
  BY <1>2, <1>3, FormIsTyped, NothingIsTyped DEF Form, WindowState
<1>5. FormIsTrue(v, NoUpdate, row)
  BY <1>2, <1>4, NothingIsTyped DEF FormIsTrue, Unsaved
<1>6. RequestIsTrue(v, NoUpdate, row)
  BY <1>4, NothingIsTyped DEF RequestIsTrue, Underway
<1> QED
  BY <1>2, <1>3, <1>4, <1>5, <1>6, NothingIsTyped, WindowStep

(* It has not: what was to be saved is unsaved again.                      *)
LEMMA SaveFailsKeeps ==
  ASSUME AdminInv, NEW a \in Window, SaveFails(a)
  PROVE  AdminInv'
<1>1. PICK w, s : w = win[a] /\ s = upd[a]
  OBVIOUS
<1>2. /\ w \in WindowState /\ s \in UpdateState
      /\ FormIsTrue(w, s, row) /\ RequestIsTrue(w, s, row) /\ s.step # "none"
      /\ upd' = [upd EXCEPT ![a] = NoUpdate] /\ UNCHANGED <<row, writes, user>>
  BY <1>1, WindowIsTrue DEF SaveFails, Idle
<1>3. PICK v : v = [w EXCEPT !.touched = s.touched]
  OBVIOUS
<1>4. win' = [win EXCEPT ![a] = v]
  BY <1>1, <1>3 DEF SaveFails
<1>5. /\ v \in WindowState /\ v.page = w.page /\ v.form = w.form
      /\ v.shown = w.shown /\ v.touched = s.touched
  BY <1>2, <1>3 DEF WindowState, UpdateState
<1>6. FormIsTrue(v, NoUpdate, row)
  BY <1>2, <1>5, NothingIsTyped DEF FormIsTrue, Unsaved
<1>7. RequestIsTrue(v, NoUpdate, row)
  BY <1>5, NothingIsTyped DEF RequestIsTrue, Underway
<1> QED
  BY <1>2, <1>4, <1>5, <1>6, <1>7, NothingIsTyped, WindowStep

-----------------------------------------------------------------------------
(* The service.                                                            *)

(* The request meets the row, which an up-to-date form has seen.           *)
LEMMA FindAndMergeKeeps ==
  ASSUME AdminInv, NEW a \in Window, FindAndMerge(a)
  PROVE  AdminInv'
<1>1. PICK w, s, t : w = win[a] /\ s = upd[a] /\ t = row.tenant
  OBVIOUS
<1>2. /\ w \in WindowState /\ s \in UpdateState
      /\ FormIsTrue(w, s, row) /\ RequestIsTrue(w, s, row) /\ s.step = "updating"
      /\ win' = [win EXCEPT ![a] = w] /\ UNCHANGED <<row, writes, user>>
      /\ row # NoRow /\ row \in Row
  BY <1>1, WindowIsTrue DEF FindAndMerge, AdminInv, TypeOK
<1>3. PICK in : in = Merged(s.input, t)
  OBVIOUS
<1>4. PICK z : z = [s EXCEPT !.step = "merged", !.input = in]
  OBVIOUS
<1>5. upd' = [upd EXCEPT ![a] = z]
  BY <1>1, <1>3, <1>4 DEF FindAndMerge
<1>6. t \in Tenant /\ s.input \in Input
  BY <1>1, <1>2 DEF Row, RequestIsTrue, Underway
<1>7. /\ in \in Tenant /\ in.url = s.input.url
      /\ in.key = IF s.input.key = Empty THEN t.key ELSE s.input.key
      /\ in.company = IF s.input.company = Empty THEN t.company ELSE s.input.company
  BY <1>3, <1>6 DEF Merged, Tenant, Input
<1>8. in \in Input
  BY <1>7 DEF Tenant, Input
<1>9. /\ z \in UpdateState /\ z.step = "merged" /\ z.input = in /\ z.touched = s.touched
      /\ z.rekeyed <=> s.rekeyed
      /\ z.fresh <=> s.fresh
  BY <1>2, <1>4, <1>8 DEF UpdateState
<1>10. FormIsTrue(w, z, row)
  BY <1>2, <1>9 DEF FormIsTrue, Unsaved
<1>11. s.fresh =>
         /\ w.form = "fresh" /\ w.shown.url = s.input.url /\ w.shown.company = s.input.company
         /\ s.rekeyed => s.input.key = s.input.url
         /\ "company" \in s.touched \/ w.shown.company \in {Empty, t.company}
  BY <1>1, <1>2 DEF RequestIsTrue, FormIsTrue, Underway, Unsaved
<1>12. s.rekeyed <=> s.input.key # Empty
  BY <1>2 DEF RequestIsTrue
<1>13. z.fresh =>
         /\ z.rekeyed \/ in.key = t.key
         /\ z.rekeyed => in.key = in.url
         /\ "company" \in z.touched \/ in.company = t.company
         /\ w.shown.company \in {Empty, in.company}
         /\ w.shown.url = in.url
  BY <1>7, <1>9, <1>11, <1>12
<1>14. /\ z.fresh = (w.form = "fresh")
       /\ z.fresh => (z.rekeyed <=> "key" \in z.touched)
       /\ w.page = "edit"
  BY <1>2, <1>9 DEF RequestIsTrue, Underway, UpdateState
<1>15. RequestIsTrue(w, z, row)
  BY <1>1, <1>7, <1>8, <1>9, <1>13, <1>14 DEF RequestIsTrue, Underway
<1> QED
  BY <1>2, <1>5, <1>9, <1>10, <1>15, WindowStep

(* save() reads the row again.                                             *)
LEMMA CompareKeeps ==
  ASSUME AdminInv, NEW a \in Window, Compare(a)
  PROVE  AdminInv'
<1>1. PICK w, s : w = win[a] /\ s = upd[a]
  OBVIOUS
<1>2. /\ w \in WindowState /\ s \in UpdateState
      /\ FormIsTrue(w, s, row) /\ RequestIsTrue(w, s, row) /\ s.step = "merged"
      /\ win' = [win EXCEPT ![a] = w] /\ UNCHANGED <<row, writes, user>>
  BY <1>1, WindowIsTrue DEF Compare
<1>3. PICK d : d = Differences(s.input, row.tenant, s.rekeyed)
  OBVIOUS
<1>4. PICK z : z = [s EXCEPT !.step = "compared", !.changes = d]
  OBVIOUS
<1>5. upd' = [upd EXCEPT ![a] = z]
  BY <1>1, <1>3, <1>4 DEF Compare
<1>6. d \subseteq Columns
  BY <1>3 DEF Differences, Columns
<1>7. /\ z \in UpdateState /\ z.step = "compared" /\ z.input = s.input
      /\ z.touched = s.touched /\ z.changes = d
      /\ z.rekeyed = s.rekeyed /\ z.fresh = s.fresh
  BY <1>2, <1>4, <1>6 DEF UpdateState
<1>8. FormIsTrue(w, z, row)
  BY <1>2, <1>7 DEF FormIsTrue, Unsaved
<1>9. RequestIsTrue(w, z, row)
  BY <1>2, <1>3, <1>7 DEF RequestIsTrue, Underway
<1> QED
  BY <1>2, <1>5, <1>7, <1>8, <1>9, WindowStep

-----------------------------------------------------------------------------
(* A write of the row by window a, which makes every other one stale.      *)
LEMMA WriteStep ==
  ASSUME AdminInv, NEW a \in Window, NEW r \in Row, row' = r, writes' \in 0 .. MaxWrites,
         Outdate(a), UNCHANGED user, r.suspect \/ r.tenant.key = r.tenant.url,
         win[a].form = "fresh" =>
           win[a].shown.url = r.tenant.url /\ win[a].shown.company \in {Empty, r.tenant.company},
         win[a].page # "closed"
  PROVE  AdminInv'
<1>1. r # NoRow
  BY NoneAssumption
<1>2. ASSUME NEW b \in Window
      PROVE  /\ win'[b] \in WindowState /\ upd'[b] \in UpdateState
             /\ FormIsTrue(win'[b], upd'[b], r) /\ RequestIsTrue(win'[b], upd'[b], r)
  <2>1. PICK w, s, v, z : w = win[b] /\ s = upd[b] /\ v = win'[b] /\ z = upd'[b]
    OBVIOUS
  <2>2. /\ w \in WindowState /\ s \in UpdateState
        /\ FormIsTrue(w, s, row) /\ RequestIsTrue(w, s, row)
    BY <2>1, WindowIsTrue
  <2>3. CASE b = a
    <3>1. v = w /\ z = [NoUpdate EXCEPT !.step = "answered", !.touched = s.touched]
      BY <2>1, <2>3 DEF Outdate
    <3>2. z \in UpdateState /\ z.step = "answered"
      BY <2>2, <3>1, NothingIsTyped DEF UpdateState
    <3>3. FormIsTrue(v, z, r)
      BY <1>1, <2>1, <2>3, <3>1, <3>2 DEF FormIsTrue, Unsaved
    <3>4. RequestIsTrue(v, z, r)
      BY <2>1, <2>3, <3>1, <3>2 DEF RequestIsTrue, Underway
    <3> QED
      BY <2>1, <2>2, <3>1, <3>2, <3>3, <3>4
  <2>4. CASE b # a
    <3>1. /\ v = IF w.form # "fresh" THEN w ELSE [w EXCEPT !.form = "stale", !.touched = {}]
          /\ z = [s EXCEPT !.fresh = FALSE, !.touched = {}]
      BY <2>1, <2>4 DEF Outdate
    <3>2. v \in WindowState /\ v.form # "fresh" /\ v.page = w.page
      BY <2>2, <3>1 DEF WindowState
    <3>3. /\ z \in UpdateState /\ z.step = s.step /\ z.input = s.input /\ z.fresh = FALSE
          /\ z.rekeyed = s.rekeyed
      BY <2>2, <3>1 DEF UpdateState
    <3>4. FormIsTrue(v, z, r)
      BY <1>1, <3>2 DEF FormIsTrue
    <3>5. RequestIsTrue(v, z, r)
      BY <2>2, <3>2, <3>3 DEF RequestIsTrue, Underway
    <3> QED
      BY <2>1, <3>2, <3>3, <3>4, <3>5
  <2> QED
    BY <2>3, <2>4
<1>3. win' \in [Window -> WindowState] /\ upd' \in [Window -> UpdateState]
  <2>1. /\ win' = [b \in Window |-> win'[b]]
        /\ upd' = [b \in Window |-> upd'[b]]
    BY DEF Outdate
  <2> QED
    BY <1>2, <2>1
<1>4. TypeOK'
  BY <1>3 DEF AdminInv, TypeOK
<1>5. RowIsHonest' /\ UsersAreHonest'
  BY DEF AdminInv, RowIsHonest, UsersAreHonest
<1> QED
  BY <1>2, <1>4, <1>5 DEF AdminInv

(* A tenant is created.                                                    *)
LEMMA CreateKeeps ==
  ASSUME AdminInv, NEW a \in Window, CreateTenant(a)
  PROVE  AdminInv'
<1>1. PICK w, s : w = win[a] /\ s = upd[a]
  OBVIOUS
<1>2. /\ w \in WindowState /\ s \in UpdateState
      /\ FormIsTrue(w, s, row) /\ RequestIsTrue(w, s, row)
      /\ s.step = "creating" /\ s.input.key # Empty
      /\ writes < MaxWrites /\ writes' = writes + 1 /\ writes \in 0 .. MaxWrites
      /\ Outdate(a) /\ UNCHANGED user
  BY <1>1, WindowIsTrue DEF CreateTenant, AdminInv, TypeOK
<1>3. PICK r : r = [tenant |-> s.input, suspect |-> ~s.fresh]
  OBVIOUS
<1>4. row' = r
  BY <1>1, <1>3 DEF CreateTenant
<1>5. s.input \in Input /\ s.fresh \in BOOLEAN
  BY <1>2 DEF RequestIsTrue, Underway, UpdateState
<1>6. s.input \in Tenant
  BY <1>2, <1>5 DEF Input, Tenant
<1>7. /\ r \in Row /\ r.tenant = s.input
      /\ r.suspect <=> ~s.fresh
  BY <1>3, <1>5, <1>6 DEF Row
<1>8. writes' \in 0 .. MaxWrites
  BY <1>2, WritesAssumption
<1>9. s.fresh => s.input.key = s.input.url
  BY <1>2 DEF RequestIsTrue, Underway
<1>10. w.form = "fresh" => w.shown.url = s.input.url /\ w.shown.company = s.input.company
  BY <1>2 DEF RequestIsTrue, Underway
<1>11. w.page # "closed"
  BY <1>2 DEF RequestIsTrue
<1> QED
  BY <1>1, <1>2, <1>4, <1>7, <1>8, <1>9, <1>10, <1>11, WriteStep

(* A column that is not written is one in which the request agrees with    *)
(* the row.                                                                *)
LEMMA NotWritten ==
  ASSUME NEW in \in Tenant, NEW t \in Tenant, NEW rekeyed \in BOOLEAN, NEW changes,
         changes = Differences(in, t, rekeyed)
  PROVE  /\ rekeyed => "key" \in changes
         /\ \A c \in Columns \ changes : in[c] = t[c]
         /\ \A c \in changes : c \in Columns /\ (in[c] # t[c] \/ (c = "key" /\ rekeyed))
BY DEF Differences, Columns

(* The columns that differ are written: an up-to-date request makes the    *)
(* row what it says.                                                       *)
LEMMA WriteKeeps ==
  ASSUME AdminInv, NEW a \in Window, Write(a)
  PROVE  AdminInv'
<1>1. PICK w, s, t : w = win[a] /\ s = upd[a] /\ t = row.tenant
  OBVIOUS
<1>2. /\ w \in WindowState /\ s \in UpdateState
      /\ FormIsTrue(w, s, row) /\ RequestIsTrue(w, s, row) /\ s.step = "compared"
      /\ win = [win EXCEPT ![a] = w] /\ UNCHANGED user
      /\ writes \in 0 .. MaxWrites /\ RowIsHonest /\ row \in Row \cup {NoRow}
  BY <1>1, WindowIsTrue DEF Write, AdminInv, TypeOK
<1>3. w.page = "edit" /\ row # NoRow /\ s.input \in Tenant
  BY <1>2 DEF RequestIsTrue, FormIsTrue
<1>4. t \in Tenant /\ row \in Row /\ s.rekeyed \in BOOLEAN /\ s.fresh \in BOOLEAN
  BY <1>1, <1>2, <1>3 DEF Row, UpdateState
<1>5. s.fresh => s.changes = Differences(s.input, t, s.rekeyed)
  BY <1>1, <1>2 DEF RequestIsTrue
<1>6. /\ w.form = "fresh" => s.fresh
      /\ s.fresh => /\ w.shown.url = s.input.url
                    /\ w.shown.company \in {Empty, s.input.company}
                    /\ s.rekeyed => s.input.key = s.input.url
                    /\ s.rekeyed \/ s.input.key = t.key
                    /\ s.rekeyed <=> "key" \in s.touched
                    /\ {"url", "key"} \subseteq s.touched \/ s.input.url = t.url
  BY <1>1, <1>2, <1>3 DEF RequestIsTrue, FormIsTrue, Underway, Unsaved
<1>7. CASE s.changes = {} /\ UNCHANGED <<row, writes, win>>
           /\ upd' = [upd EXCEPT ![a] = [NoUpdate EXCEPT !.step = "answered", !.touched = s.touched]]
  <2>1. PICK z : z = [NoUpdate EXCEPT !.step = "answered", !.touched = s.touched]
    OBVIOUS
  <2>2. z \in UpdateState /\ z.step = "answered"
    BY <1>2, <2>1, NothingIsTyped DEF UpdateState
  <2>3. s.fresh => s.input.url = t.url /\ s.input.company = t.company
    BY <1>3, <1>4, <1>5, <1>7, NotWritten DEF Columns
  <2>4. FormIsTrue(w, z, row)
    BY <1>1, <1>3, <1>6, <2>2, <2>3 DEF FormIsTrue, Unsaved
  <2>5. RequestIsTrue(w, z, row)
    BY <1>3, <2>2 DEF RequestIsTrue, Underway
  <2> QED
    BY <1>2, <1>7, <2>1, <2>2, <2>4, <2>5, WindowStep
<1>8. CASE s.changes # {} /\ writes < MaxWrites /\ writes' = writes + 1 /\ Outdate(a)
           /\ row' = [tenant |-> [c \in Columns |->
                                    IF c \in s.changes THEN s.input[c] ELSE row.tenant[c]],
                      suspect |-> ~s.fresh \/ (row.suspect /\ "key" \notin s.changes)]
  <2>1. PICK u : u = [c \in Columns |-> IF c \in s.changes THEN s.input[c] ELSE t[c]]
    OBVIOUS
  <2>2. PICK r : r = [tenant |-> u,
                      suspect |-> ~s.fresh \/ (row.suspect /\ "key" \notin s.changes)]
    OBVIOUS
  <2>3. u \in Tenant
    BY <1>3, <1>4, <2>1 DEF Tenant, Columns
  <2>4. /\ r \in Row /\ r.tenant = u
        /\ r.suspect <=> ~s.fresh \/ (row.suspect /\ "key" \notin s.changes)
    BY <2>2, <2>3 DEF Row
  <2>5. row' = r
    BY <1>1, <1>8, <2>1, <2>2
  <2>6. writes' \in 0 .. MaxWrites
    BY <1>2, <1>8, WritesAssumption
  <2>7. s.fresh => u.url = s.input.url /\ u.key = s.input.key /\ u.company = s.input.company
    <3>1. s.fresh => \A c \in Columns : u[c] = s.input[c]
      BY <1>3, <1>4, <1>5, <2>1, NotWritten
    <3> QED
      BY <3>1 DEF Columns
  <2>8. ASSUME ~r.suspect PROVE u.key = u.url
    <3>1. s.fresh /\ (~row.suspect \/ "key" \in s.changes)
      BY <1>4, <2>4, <2>8
    <3>2. CASE s.rekeyed
      BY <1>6, <2>7, <3>1, <3>2
    <3>3. CASE ~s.rekeyed
      <4>1. s.input.key = t.key /\ s.input.url = t.url
        BY <1>6, <3>1, <3>3
      <4>2. "key" \notin s.changes
        BY <1>3, <1>4, <1>5, <3>1, <3>3, <4>1, NotWritten DEF Tenant
      <4>3. t.key = t.url
        BY <1>1, <1>2, <1>3, <3>1, <4>2 DEF RowIsHonest
      <4> QED
        BY <2>7, <3>1, <4>1, <4>3
    <3> QED
      BY <3>2, <3>3
  <2>9. w.form = "fresh" => w.shown.url = u.url /\ w.shown.company \in {Empty, u.company}
    BY <1>6, <2>7
  <2> QED
    BY <1>1, <1>2, <1>3, <1>8, <2>4, <2>5, <2>6, <2>8, <2>9, WriteStep
<1> QED
  BY <1>1, <1>7, <1>8 DEF Write

-----------------------------------------------------------------------------
(* A user takes what the row says, and keeps it.                           *)
LEMMA UserKeeps ==
  ASSUME AdminInv, NEW u \in User, FindTenant(u) \/ Request(u) \/ EndUse(u)
  PROVE  AdminInv'
<1>1. UNCHANGED <<row, writes, win, upd>>
  BY DEF FindTenant, Request, EndUse
<1>2. PICK x : x = user[u]
  OBVIOUS
<1>3. x \in UserState /\ (x.step # "none" => x.suspect \/ x.key = x.url)
  BY <1>2 DEF AdminInv, TypeOK, UsersAreHonest
<1>4. ASSUME NEW y \in UserState, user' = [user EXCEPT ![u] = y],
             y.step # "none" => y.suspect \/ y.key = y.url
      PROVE  AdminInv'
  <2>1. TypeOK'
    BY <1>1, <1>4 DEF AdminInv, TypeOK
  <2>2. UsersAreHonest'
    BY <1>4 DEF AdminInv, TypeOK, UsersAreHonest
  <2>3. /\ RowIsHonest'
        /\ \A a \in Window : FormIsTrue(win'[a], upd'[a], row') /\ RequestIsTrue(win'[a], upd'[a], row')
    BY <1>1 DEF AdminInv, RowIsHonest
  <2> QED
    BY <2>1, <2>2, <2>3 DEF AdminInv
<1>5. CASE FindTenant(u)
  <2>1. PICK y : y = [step |-> "found", suspect |-> row.suspect,
                      url |-> row.tenant.url, key |-> row.tenant.key]
    OBVIOUS
  <2>2. row \in Row /\ row # NoRow /\ RowIsHonest
    BY <1>5 DEF FindTenant, AdminInv, TypeOK
  <2>3. y \in UserState
    BY <2>1, <2>2 DEF UserState, Row, Tenant
  <2>4. y.suspect \/ y.key = y.url
    BY <2>1, <2>2 DEF RowIsHonest
  <2>5. user' = [user EXCEPT ![u] = y]
    BY <1>5, <2>1 DEF FindTenant
  <2> QED
    BY <1>4, <2>3, <2>4, <2>5
<1>6. CASE Request(u)
  <2>1. PICK y : y = [x EXCEPT !.step = "asked"]
    OBVIOUS
  <2>2. user' = [user EXCEPT ![u] = y] /\ x.step = "found"
    BY <1>2, <1>6, <2>1 DEF Request
  <2>3. y \in UserState /\ y.suspect = x.suspect /\ y.key = x.key /\ y.url = x.url
    BY <1>3, <2>1 DEF UserState
  <2> QED
    BY <1>3, <1>4, <2>2, <2>3
<1>7. CASE EndUse(u)
  BY <1>4, <1>7, NothingIsTyped DEF EndUse
<1> QED
  BY <1>5, <1>6, <1>7

-----------------------------------------------------------------------------
(* AdminInv is inductive.                                                  *)
LEMMA AdminStep == AdminInv /\ [Next]_vars => AdminInv'
<1> SUFFICES ASSUME AdminInv, [Next]_vars PROVE AdminInv'
  OBVIOUS
<1>1. CASE UNCHANGED vars
  BY <1>1 DEF vars, AdminInv, TypeOK, RowIsHonest, UsersAreHonest
<1> QED
  BY <1>1, OpenKeeps, SaveKeeps, SavedKeeps, SaveFailsKeeps, CreateKeeps, FindAndMergeKeeps,
     CompareKeeps, WriteKeeps, UserKeeps DEF Next

(* The invariant holds in every reachable state.                           *)
THEOREM AdminSafety == Spec => []AdminInv
  BY InitIsTrue, AdminStep, PTL DEF Spec

(* Rows, forms, requests and users are what they are taken for.            *)
THEOREM AdminTyping == Spec => []TypeOK
<1>1. AdminInv => TypeOK
  BY DEF AdminInv
<1> QED
  BY <1>1, AdminSafety, PTL

(* No system is asked with a key of another one, but after a save from a   *)
(* stale or muddled form.                                                  *)
THEOREM KeysStayHome == Spec => []KeysGoToTheirSystem
<1>1. AdminInv => KeysGoToTheirSystem
  BY DEF AdminInv, UsersAreHonest, KeysGoToTheirSystem
<1> QED
  BY <1>1, AdminSafety, PTL

(* A request of an up-to-date form writes what its admin typed, no more.   *)
LEMMA WritesWhatWasTyped ==
  ASSUME AdminInv, NEW a \in Window, upd[a].step = "compared", upd[a].fresh, Write(a),
         NEW c \in Columns \ upd[a].touched
  PROVE  row'.tenant[c] = row.tenant[c]
<1>1. PICK w, s, t : w = win[a] /\ s = upd[a] /\ t = row.tenant
  OBVIOUS
<1>2. /\ w \in WindowState /\ s \in UpdateState /\ s.step = "compared" /\ s.fresh
      /\ FormIsTrue(w, s, row) /\ RequestIsTrue(w, s, row)
      /\ row \in Row \cup {NoRow}
  BY <1>1, WindowIsTrue DEF AdminInv, TypeOK
<1>3. row # NoRow /\ s.input \in Tenant
  BY <1>2 DEF RequestIsTrue, FormIsTrue
<1>4. t \in Tenant /\ s.rekeyed \in BOOLEAN
  BY <1>1, <1>2, <1>3 DEF Row, UpdateState
<1>5. s.changes = Differences(s.input, t, s.rekeyed)
  BY <1>1, <1>2 DEF RequestIsTrue
<1>6. /\ "key" \in s.touched \/ (~s.rekeyed /\ s.input.key = t.key)
      /\ "url" \in s.touched \/ s.input.url = t.url
      /\ "company" \in s.touched \/ s.input.company = t.company
  BY <1>1, <1>2 DEF RequestIsTrue, FormIsTrue, Underway, Unsaved
<1>7. c \notin s.changes
  BY <1>1, <1>3, <1>4, <1>5, <1>6, NotWritten DEF Columns
<1>8. CASE UNCHANGED row
  BY <1>8
<1>9. CASE row' = [tenant |-> [d \in Columns |->
                                 IF d \in s.changes THEN s.input[d] ELSE row.tenant[d]],
                   suspect |-> ~s.fresh \/ (row.suspect /\ "key" \notin s.changes)]
  BY <1>7, <1>9
<1> QED
  BY <1>1, <1>8, <1>9 DEF Write

(* Only a write answers a request that has been compared.                  *)
LEMMA OnlyWriteAnswers ==
  ASSUME AdminInv, [Next]_vars, NEW a \in Window,
         upd[a].step = "compared", upd'[a].step = "answered"
  PROVE  Write(a)
<1>0. upd[a] \in UpdateState /\ NoUpdate.step = "none" /\ upd \in [Window -> UpdateState]
  BY WindowIsTrue, NothingIsTyped DEF AdminInv, TypeOK
<1>1. upd'[a] # upd[a]
  OBVIOUS
<1>2. CASE UNCHANGED upd
  BY <1>1, <1>2
<1>3. ASSUME NEW b \in Window, b # a,
             Save(b) \/ Saved(b) \/ SaveFails(b) \/ FindAndMerge(b) \/ Compare(b)
      PROVE  FALSE
  BY <1>0, <1>1, <1>3 DEF Save, Saved, SaveFails, FindAndMerge, Compare
<1>4. ASSUME NEW b \in Window, b # a, Outdate(b) PROVE FALSE
  <2>1. upd'[a] = [upd[a] EXCEPT !.fresh = FALSE, !.touched = {}]
    BY <1>4 DEF Outdate
  <2> QED
    BY <1>0, <2>1 DEF UpdateState
<1>5. ASSUME NEW b \in Window, b # a, Write(b) PROVE FALSE
  BY <1>0, <1>1, <1>4, <1>5 DEF Write
<1>6. ASSUME NEW b \in Window, b # a, CreateTenant(b) PROVE FALSE
  BY <1>4, <1>6 DEF CreateTenant
<1>7. ASSUME Save(a) \/ CreateTenant(a) \/ FindAndMerge(a) \/ Compare(a) \/ Saved(a) PROVE FALSE
  BY <1>7 DEF Save, Idle, CreateTenant, FindAndMerge, Compare, Saved
<1>8. ASSUME SaveFails(a) PROVE FALSE
  BY <1>0, <1>8 DEF SaveFails
<1>9. ASSUME NEW b \in Window, OpenNew(b) \/ OpenEdit(b) \/ Leave(b) PROVE UNCHANGED upd
  BY <1>9 DEF OpenNew, OpenEdit, Leave
<1>10. ASSUME NEW u \in User, FindTenant(u) \/ Request(u) \/ EndUse(u) PROVE UNCHANGED upd
  BY <1>10 DEF FindTenant, Request, EndUse
<1>11. CASE UNCHANGED vars
  BY <1>2, <1>11 DEF vars
<1> QED
  BY <1>2, <1>3, <1>5, <1>6, <1>7, <1>8, <1>9, <1>10, <1>11 DEF Next

(* What an up-to-date form leaves alone, its save leaves alone.            *)
THEOREM StaleFormsAloneUndo == Spec => OnlyStaleFormsUndo
<1>1. AdminInv /\ [Next]_vars =>
        [\A a \in Window :
           upd[a].step = "compared" /\ upd[a].fresh /\ upd'[a].step = "answered" =>
             \A c \in Columns \ upd[a].touched : row'.tenant[c] = row.tenant[c]]_vars
  BY OnlyWriteAnswers, WritesWhatWasTyped
<1> QED
  BY <1>1, AdminSafety, PTL DEF Spec, OnlyStaleFormsUndo
=============================================================================
