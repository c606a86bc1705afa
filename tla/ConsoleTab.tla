----------------------------- MODULE ConsoleTab -----------------------------
(***************************************************************************)
(* One browser tab of the web console, src/web/src: its pages, the query   *)
(* cache they share, the form of a details page, and the mutations that    *)
(* buttons start.  A server action is one or two calls of the Kubernetes   *)
(* API (see WebConsole); here it is executed or refused in one step, and   *)
(* what matters is when its answer arrives and what the tab does with it.  *)
(*                                                                         *)
(* The resources are those of one module of the console, Functions or      *)
(* Agents: their pages differ in the fields only.  A text is what stands   *)
(* in the editable fields.  One text is followed, from its typing on;      *)
(* every other text is "other".                                            *)
(***************************************************************************)

CONSTANTS Resource,  \* names of the resources
          Slot       \* bound: mutations under way at once

(* Pages that are not the details of a resource.  Away is any page of another
   module of the console; some of those list the resources of this one too. *)
List == "list"
Create == "create"
Away == "away"
ASSUME PagesAssumption == Resource \intersect {List, Create, Away} = {}

(* Reported stands for the mutations reported as a success. *)
Reported == "reported"
ASSUME SlotAssumption == Reported \notin Slot

VARIABLES
  store,   \* store[r]: resource r in the API server
  page,    \* the page shown
  editing, \* inEditing of a details page
  text,    \* the text in the form of a details page
  fate,    \* what became of the text that is followed (history)
  query,   \* query[k]: the cached query of the list, and of the details of r
  job      \* job[i]: a mutation under way

tab == <<page, editing, text, fate>>
vars == <<store, tab, query, job>>

Text == {"other", "followed"}
NoText == "none"

Version == [live : BOOLEAN, text : Text]
Absent == [live |-> FALSE, text |-> "other"]
Store == [Resource -> Version]

(* A fetch is asked for, then read by the server action (seen), then answered.
   older and seenOlder are the mutations that wrote after the data, or what was
   seen, had been read (history).  The data of a query that is in error by now
   are hidden: they are still there, but not shown before a fetch has replaced
   them, so the model forgets what they were. *)
Query == [data : SUBSET Store, hidden : BOOLEAN, older : SUBSET (Slot \union {Reported}),
          phase : {"idle", "asked", "read"},
          seen : SUBSET Store, seenOlder : SUBSET (Slot \union {Reported})]

NoQuery == [data |-> {}, hidden |-> FALSE, older |-> {}, phase |-> "idle", seen |-> {}, seenOlder |-> {}]

Cached == Resource \union {List}
NoCards == [r \in Resource |-> Absent]

(* A deletion is asked for on the details page or on a card of the list.  An
   orphan was given up by the tab and may still be executed. *)
Job == [kind : {"none", "create", "save", "delete", "deleteCard"},
        target : Cached, text : Text,
        mounted : BOOLEAN,   \* a save: the page it was started from is still there
        stage : {"sent", "written", "refused", "orphan"},
        wrote : BOOLEAN]     \* history
NoJob == [kind |-> "none", target |-> List, text |-> "other", mounted |-> FALSE,
          stage |-> "sent", wrote |-> FALSE]

TypeOK ==
  /\ store \in Store
  /\ page \in Resource \union {List, Create, Away}
  /\ editing \in BOOLEAN
  /\ text \in Text \union {NoText}
  /\ fate \in {"new", "typed", "saved", "dropped"}
  /\ query \in [Cached -> Query]
  /\ job \in [Slot -> Job]

Init ==
  /\ store = [r \in Resource |-> Absent]
  /\ page = Away
  /\ editing = FALSE
  /\ text = NoText
  /\ fate = "new"
  /\ query = [k \in Cached |-> NoQuery]
  /\ job = [i \in Slot |-> NoJob]

-----------------------------------------------------------------------------
(* People with kubectl, other tabs and operators (external) *)

OthersWrite(r) ==
  /\ \/ store' = [store EXCEPT ![r] = [live |-> TRUE, text |-> "other"]]
     \/ store[r].live /\ store' = [store EXCEPT ![r] = Absent]
  /\ UNCHANGED <<tab, query, job>>

-----------------------------------------------------------------------------
(* Queries: the cache of the query library (external) and the query functions
   of the hooks *)

Asked(q) == [q EXCEPT !.phase = "asked", !.seen = {}, !.seenOlder = {}]

(* A page that is mounted, or regains the focus, has its data fetched; it
   joins a fetch that is already under way. *)
Mounted(q) == IF q.phase = "idle" THEN Asked(q) ELSE q

(* refetch() drops the fetch under way, unless there were no data before. *)
Refetched(q) == IF q.data = {} THEN Mounted(q) ELSE Asked(q)

(* What the list, or the details of r, show of the store *)
View(k) == [r \in Resource |-> IF k = List THEN [live |-> store[r].live, text |-> "other"]
                               ELSE IF k = r THEN store[r] ELSE Absent]

(* The server action reads at some moment. *)
FetchRead(k) ==
  /\ query[k].phase = "asked"
  /\ query' = [query EXCEPT ![k].phase = "read", ![k].seen = {View(k)}]
  /\ UNCHANGED <<store, tab, job>>

Answered(k, data, older) ==
  query' = [query EXCEPT ![k] = [NoQuery EXCEPT !.data = data, !.older = older]]

InError(k) ==
  query' = [query EXCEPT ![k] = IF @.data = {} THEN NoQuery
                                ELSE [NoQuery EXCEPT !.data = {NoCards}, !.hidden = TRUE]]

(* The form of a details page takes its initial values when it is mounted,
   from the data there are by then; later data do not change them. *)
FetchSucceeds(k) ==
  /\ query[k].phase = "read"
  /\ k # List => \A v \in query[k].seen : v[k].live
  /\ Answered(k, query[k].seen, query[k].seenOlder)
  /\ IF page = k /\ k # List /\ text = NoText
     THEN \E v \in query[k].seen : text' = v[k].text
     ELSE UNCHANGED text
  /\ UNCHANGED <<store, page, editing, fate, job>>

(* The answer is not OK, as for details of a resource that is not there. A list
   then counts as empty; details without data are an error. *)
FetchFails(k) ==
  /\ query[k].phase = "read"
  /\ IF k = List THEN Answered(k, {NoCards}, query[k].seenOlder)
                 ELSE InError(k)
  /\ UNCHANGED <<store, tab, job>>

(* There is no answer: the query is repeated, twice at most, or is in error. *)
FetchRejected(k) ==
  /\ query[k].phase # "idle"
  /\ \/ query' = [query EXCEPT ![k] = Asked(@)]
     \/ InError(k)
  /\ UNCHANGED <<store, tab, job>>

Fetch(k) == FetchRead(k) \/ FetchSucceeds(k) \/ FetchFails(k) \/ FetchRejected(k)

(* The window regains the focus. *)
Focus ==
  /\ page \in Cached
  /\ query' = [query EXCEPT ![page] = Mounted(@)]
  /\ UNCHANGED <<store, tab, job>>

-----------------------------------------------------------------------------
(* Pages *)

(* The text in the form is given up: it was typed and never saved. *)
GiveUp(t) == IF t = "followed" /\ fate = "typed" THEN "dropped" ELSE fate

(* The data that are shown for query k, if any *)
Visible(k) == IF query[k].hidden THEN {} ELSE query[k].data

(* What the form on the page of r is filled with when the page is opened *)
InitialText(r) ==
  IF Visible(r) = {} THEN NoText ELSE (CHOOSE v \in Visible(r) : TRUE)[r].text

(* Mutant: the form outlives its page. *)
LeaveForm(p, js) ==
  /\ page # p
  /\ page' = p
  /\ editing' = FALSE
  /\ text' = text
  /\ fate' = GiveUp(text)
  /\ job' = [i \in Slot |-> [js[i] EXCEPT !.mounted = FALSE]]

(* The old page is gone with its form, and the new one is shown.  js are the
   mutations as they are by now. *)
Leave(p, js) ==
  /\ page # p
  /\ page' = p
  /\ editing' = FALSE
  /\ text' = IF p \in Resource THEN InitialText(p) ELSE NoText
  /\ fate' = GiveUp(text)
  /\ job' = [i \in Slot |-> [js[i] EXCEPT !.mounted = FALSE]]

Navigate(p, js) ==
  /\ Leave(p, js)
  /\ query' = IF p \in Cached THEN [query EXCEPT ![p] = Mounted(@)] ELSE query

(* The cards of the list *)
Cards == {r \in Resource : \E v \in Visible(List) : v[r].live}

(* By the menu, a card, or the buttons of the browser.  Among the pages of
   other modules are those that list this one: the options for an Agent's
   tools. *)
GoList == Navigate(List, job) /\ UNCHANGED store
GoCreate == Navigate(Create, job) /\ UNCHANGED store
GoDetails(r) == (page = List => r \in Cards) /\ Navigate(r, job) /\ UNCHANGED store
GoAway ==
  /\ Leave(Away, job)
  /\ query' = query \/ query' = [query EXCEPT ![List] = Mounted(@)]
  /\ UNCHANGED store

(* Whether the details page of r shows its form *)
Shown(r) == page = r /\ Visible(r) # {}

ClickEdit(r) ==
  /\ Shown(r) /\ ~editing
  /\ editing' = TRUE
  /\ UNCHANGED <<store, page, text, fate, query, job>>

TypeText(r) ==
  /\ Shown(r) /\ editing
  /\ \/ text' = "other" /\ fate' = GiveUp(text)
     \/ fate = "new" /\ text' = "followed" /\ fate' = "typed"
  /\ UNCHANGED <<store, page, editing, query, job>>

(* Mutant: Cancel ends the editing and leaves the form alone. *)
CancelOnly(r) ==
  /\ Shown(r) /\ editing
  /\ editing' = FALSE
  /\ fate' = GiveUp(text)
  /\ UNCHANGED <<store, page, text, query, job>>

(* handleCancel: resetFields goes back to the latest data. *)
ClickCancel(r) ==
  /\ Shown(r) /\ editing
  /\ editing' = FALSE
  /\ text' = InitialText(r)
  /\ fate' = GiveUp(text)
  /\ UNCHANGED <<store, page, query, job>>

-----------------------------------------------------------------------------
(* Mutations *)

Start(i, kind, r, txt) ==
  /\ job[i].kind = "none"
  /\ job' = [job EXCEPT ![i] = [NoJob EXCEPT !.kind = kind, !.target = r, !.text = txt,
                                             !.mounted = (kind = "save")]]
  /\ UNCHANGED <<store, page, editing, text, query>>

ClickSubmit(i, r) == page = Create /\ Start(i, "create", r, "other") /\ UNCHANGED fate
ClickDelete(i, r) == page = r /\ ~editing /\ Start(i, "delete", r, "other") /\ UNCHANGED fate
ClickDeleteCard(i, r) ==
  page = List /\ r \in Cards /\ Start(i, "deleteCard", r, "other") /\ UNCHANGED fate
ClickSave(i, r) ==
  /\ Shown(r) /\ editing
  /\ Start(i, "save", r, text)
  /\ fate' = IF text = "followed" /\ fate = "typed" THEN "saved" ELSE fate

(* The query that the callback of a mutation fetches again *)
RefreshedBy(j) == CASE j.kind = "save" -> {j.target} [] j.kind = "deleteCard" -> {List} [] OTHER -> {}

(* What is in the cache, or has been read for it, is now older than mutation i. *)
Outdated(i, q) == [q EXCEPT !.older = IF q.data = {} \/ q.hidden THEN @ ELSE @ \union {i},
                            !.seenOlder = IF q.phase = "read" THEN @ \union {i} ELSE @]

Forget(i, q) == [q EXCEPT !.older = @ \ {i}, !.seenOlder = @ \ {i}]

(* The server action writes, perhaps after the tab has given up waiting. *)
Execute(i) ==
  LET j == job[i]
      r == job[i].target
  IN
  /\ j.kind # "none" /\ j.stage \in {"sent", "orphan"}
  /\ \/ /\ j.kind = "create" /\ ~store[r].live
        /\ store' = [store EXCEPT ![r] = [live |-> TRUE, text |-> "other"]]
     \/ /\ j.kind = "save" /\ store[r].live
        /\ store' = [store EXCEPT ![r] = [live |-> TRUE, text |-> j.text]]
     \/ /\ j.kind \in {"delete", "deleteCard"} /\ store[r].live
        /\ store' = [store EXCEPT ![r] = Absent]
  /\ IF j.stage = "sent"
     THEN /\ job' = [job EXCEPT ![i].stage = "written", ![i].wrote = TRUE]
          /\ query' = [k \in Cached |-> IF k \in RefreshedBy(j) THEN Outdated(i, query[k])
                                                                ELSE query[k]]
     ELSE job' = [job EXCEPT ![i] = NoJob] /\ UNCHANGED query
  /\ UNCHANGED tab

(* The API server or the server action refuses: the resource is there already
   or not there, has changed between two calls, is used, is invalid. *)
Refuse(i) ==
  /\ job[i].kind # "none"
  /\ \/ /\ job[i].stage = "sent"
        /\ job' = [job EXCEPT ![i].stage = "refused"]
     \/ /\ job[i].stage = "orphan"
        /\ job' = [job EXCEPT ![i] = NoJob]
  /\ UNCHANGED <<store, tab, query>>

Done(i) == [job EXCEPT ![i] = NoJob]

AnswerIs(i, stages) == job[i].kind # "none" /\ job[i].stage \in stages

(* Data older than mutation i are from now on older than a reported success. *)
Owing(i, q) ==
  LET told(set) == IF i \in set THEN (set \ {i}) \union {Reported} ELSE set
  IN [q EXCEPT !.older = told(@), !.seenOlder = told(@)]

(* Mutant: refetch({ cancelRefetch: false }). *)
SaveSucceedsJoining(i) ==
  /\ AnswerIs(i, {"written"}) /\ job[i].kind = "save"
  /\ query' = [query EXCEPT ![job[i].target] = Mounted(Owing(i, @))]
  /\ editing' = IF job[i].mounted THEN FALSE ELSE editing
  /\ job' = Done(i)
  /\ UNCHANGED <<store, page, text, fate>>

(* The details are fetched again, and the editing ends on the page that the
   mutation was started from. *)
SaveSucceeds(i) ==
  /\ AnswerIs(i, {"written"}) /\ job[i].kind = "save"
  /\ query' = [query EXCEPT ![job[i].target] = Refetched(Owing(i, @))]
  /\ editing' = IF job[i].mounted THEN FALSE ELSE editing
  /\ job' = Done(i)
  /\ UNCHANGED <<store, page, text, fate>>

(* A card is deleted: the list is fetched again. *)
DeleteCardSucceeds(i) ==
  /\ AnswerIs(i, {"written"}) /\ job[i].kind = "deleteCard"
  /\ query' = [query EXCEPT ![List] = Refetched(Owing(i, @))]
  /\ job' = Done(i)
  /\ UNCHANGED <<store, tab>>

(* After a creation, or a deletion on the details page, the tab goes to the
   list, wherever it is by then. *)
OtherSucceeds(i) ==
  /\ AnswerIs(i, {"written"}) /\ job[i].kind \in {"create", "delete"}
  /\ \/ Navigate(List, Done(i)) /\ UNCHANGED store
     \/ page = List /\ job' = Done(i) /\ UNCHANGED <<store, tab, query>>

Succeed(i) == SaveSucceeds(i) \/ DeleteCardSucceeds(i) \/ OtherSucceeds(i)

(* checkMutateResult shows the reason. *)
ShowRefusal(i) ==
  /\ AnswerIs(i, {"refused"})
  /\ job' = Done(i)
  /\ UNCHANGED <<store, tab, query>>

(* Mutant: a mutation without an answer is sent once more. *)
LoseAnswerAndResend(i) ==
  /\ AnswerIs(i, {"sent", "written", "refused"})
  /\ job' = [job EXCEPT ![i].stage = "sent"]
  /\ UNCHANGED <<store, tab, query>>

(* The API server's answer does not reach the server action ("Failed!" without
   a reason), or the server action's does not reach the tab ("Unknown Error!"). *)
LoseAnswer(i) ==
  /\ AnswerIs(i, {"sent", "written", "refused"})
  /\ job' = IF job[i].stage = "sent"
            THEN [job EXCEPT ![i].stage = "orphan", ![i].mounted = FALSE] ELSE Done(i)
  /\ query' = [k \in Cached |-> Forget(i, query[k])]
  /\ UNCHANGED <<store, tab>>

Proceed(i) == Execute(i) \/ Refuse(i) \/ Succeed(i) \/ ShowRefusal(i) \/ LoseAnswer(i)

-----------------------------------------------------------------------------
User ==
  \/ GoList \/ GoCreate \/ GoAway \/ Focus
  \/ \E r \in Resource :
       \/ GoDetails(r) \/ ClickEdit(r) \/ TypeText(r) \/ ClickCancel(r)
       \/ \E i \in Slot : ClickSubmit(i, r) \/ ClickSave(i, r)
                          \/ ClickDelete(i, r) \/ ClickDeleteCard(i, r)

Next ==
  \/ User
  \/ \E k \in Cached : Fetch(k)
  \/ \E i \in Slot : Proceed(i)
  \/ \E r \in Resource : OthersWrite(r)

Spec == Init /\ [][Next]_vars

-----------------------------------------------------------------------------
(* Invariants *)

(* A mutation whose answer is a success has written, a refused one has not;
   what was written on a page that shows data finds data in the cache later. *)
JobInv ==
  \A i \in Slot :
    /\ job[i].wrote = (job[i].stage = "written")
    /\ job[i].kind # "none" => job[i].target \in Resource
    /\ \A k \in RefreshedBy(job[i]) : query[k].data # {}

(* What is being fetched is never older than a reported success; the data are
   only while a fetch is under way. *)
QueryInv ==
  \A k \in Cached :
    /\ Reported \notin query[k].seenOlder
    /\ query[k].phase = "idle" => Reported \notin query[k].older
    /\ query[k].phase = "read" => query[k].seen # {}

Holds(data) == \E v \in data : \E r \in Resource : v[r].text = "followed"

(* The followed text is nowhere but in the form until it is saved, and not in
   the form before it is typed or after it is given up. *)
TextInv ==
  /\ fate # "saved" => /\ \A r \in Resource : store[r].text # "followed"
                       /\ \A k \in Cached : ~Holds(query[k].data) /\ ~Holds(query[k].seen)
                       /\ \A i \in Slot : job[i].text # "followed"
  /\ fate \in {"new", "dropped"} => text # "followed"

(* A details page that shows its data has a filled form. *)
FilledInv == page \in Resource /\ Visible(page) # {} => text # NoText

IInv == TypeOK /\ JobInv /\ QueryInv /\ TextInv /\ FilledInv

-----------------------------------------------------------------------------
(* Properties *)

(* Once a save, or the deletion of a card, has been reported as a success, its
   query never comes to rest on data from before it, in whatever order the
   answers of fetches under way arrive. *)
RefreshedAfterSuccess ==
  \A k \in Cached : query[k].phase = "idle" => Reported \notin query[k].older

(* What a user typed and gave up, by Cancel, by typing something else or by
   leaving the page, never gets into the API server, whatever is saved later. *)
DroppedTextStaysOut ==
  fate = "dropped" => \A r \in Resource : store[r].text # "followed"

(* A success notice tells of a write; with a refusal there was none, and none
   can follow. *)
NoticesTruthful ==
  [][\A i \in Slot : /\ Succeed(i) => job[i].wrote
                     /\ ShowRefusal(i) => ~job[i].wrote /\ job'[i] = NoJob]_vars
=============================================================================
