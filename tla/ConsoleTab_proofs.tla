------------------------- MODULE ConsoleTab_proofs -------------------------
(***************************************************************************)
(* What a browser tab of the console keeps and reports, and what the form  *)
(* of a new Function submits, for any number of resources, of mutations    *)
(* under way, and of packages, modules and config items.                   *)
(***************************************************************************)
EXTENDS ConsoleTab, FunctionForm, TLAPS

-----------------------------------------------------------------------------
(* The form of a new Function *)

(* A list without packages, and a package without modules *)
LEMMA EmptyType == Empty \in Lists /\ Empty \in Specs
<1>1. {} \in SUBSET Package /\ {} \in SUBSET Module
  OBVIOUS
<1>2. Empty \in [{} -> Specs] /\ Empty \in [{} -> SUBSET Item]
  BY DEF Empty
<1> QED BY <1>1, <1>2 DEF Lists, Specs

(* The module in the form is the one that was chosen for its package. *)
LEMMA FormInductive == FormSpec => [](FormTypeOK /\ FormInv)
<1> USE UnsetAssumption DEF FormTypeOK, FormInv, Form
<1>1. FormInit => FormTypeOK /\ FormInv
  BY EmptyType DEF FormInit, EmptyForm, NonePicked
<1>2. FormTypeOK /\ FormInv /\ [FillForm]_formVars => (FormTypeOK /\ FormInv)'
  <2> SUFFICES ASSUME FormTypeOK, FormInv, [FillForm]_formVars
               PROVE  (FormTypeOK /\ FormInv)'
    OBVIOUS
  <2>1. CASE LoadPackages
    BY <2>1 DEF LoadPackages
  <2>2. ASSUME NEW p \in Package, SelectPackage(p)
        PROVE  (FormTypeOK /\ FormInv)'
    BY <2>2 DEF SelectPackage
  <2>3. ASSUME NEW m \in Module, SelectModule(m)
        PROVE  (FormTypeOK /\ FormInv)'
    <3>1. form.pkg # Unset
      <4>1. DOMAIN packages \subseteq Package
        BY DEF Lists
      <4>2. DOMAIN Empty = {}
        BY DEF Empty
      <4> QED BY <2>3, <4>1, <4>2 DEF SelectModule, ModuleOptions, SpecOf
    <3> QED BY <2>3, <3>1 DEF SelectModule
  <2>4. ASSUME NEW k \in Item, FillItem(k)
        PROVE  (FormTypeOK /\ FormInv)'
    BY <2>4 DEF FillItem
  <2>5. CASE UNCHANGED formVars
    BY <2>5 DEF formVars
  <2> QED
    BY <2>1, <2>2, <2>3, <2>4, <2>5 DEF FillForm
<1> QED
  BY <1>1, <1>2, PTL DEF FormSpec

(* A Function is submitted with the module that was chosen for its package, and
   with no config item that this package's module does not have now, however
   the packages change under the form (FunctionForm/index.tsx:19-52). *)
THEOREM FormConsistent == FormSpec => []SubmissionConsistent
<1>1. FormTypeOK /\ FormInv => SubmissionConsistent
  BY DEF FormInv, SubmissionConsistent, Submittable, SubmittedItems, ConfigFields
<1> QED
  BY <1>1, FormInductive, PTL

-----------------------------------------------------------------------------
(* The operators on queries *)

(* A query is well behaved: QueryInv, for one query. *)
Sound(q) ==
  /\ Reported \notin q.seenOlder
  /\ q.phase = "idle" => Reported \notin q.older
  /\ q.phase = "read" => q.seen # {}

(* It holds the followed text nowhere. *)
Clean(q) == ~Holds(q.data) /\ ~Holds(q.seen)

LEMMA NoQueryIs == NoQuery \in Query /\ Sound(NoQuery) /\ Clean(NoQuery) /\ NoQuery.data = {}
  BY DEF NoQuery, Query, Sound, Clean, Holds

LEMMA NoCardsIs == NoCards \in Store /\ ~Holds({NoCards})
  BY DEF NoCards, Store, Version, Absent, Text, Holds

LEMMA AskedIs ==
  ASSUME NEW q \in Query
  PROVE  /\ Asked(q) \in Query
         /\ Sound(Asked(q))
         /\ Clean(q) => Clean(Asked(q))
         /\ Asked(q).data = q.data /\ Asked(q).hidden = q.hidden
  BY DEF Query, Asked, Sound, Clean, Holds

LEMMA MountedIs ==
  ASSUME NEW q \in Query
  PROVE  /\ Mounted(q) \in Query
         /\ Sound(q) => Sound(Mounted(q))
         /\ Clean(q) => Clean(Mounted(q))
         /\ Mounted(q).data = q.data /\ Mounted(q).hidden = q.hidden
  BY AskedIs DEF Mounted

LEMMA RefetchedIs ==
  ASSUME NEW q \in Query
  PROVE  /\ Refetched(q) \in Query
         /\ q.data # {} => Sound(Refetched(q))
         /\ Clean(q) => Clean(Refetched(q))
         /\ Refetched(q).data = q.data /\ Refetched(q).hidden = q.hidden
  BY AskedIs, MountedIs DEF Refetched

LEMMA OutdatedIs ==
  ASSUME NEW q \in Query, NEW i \in Slot
  PROVE  /\ Outdated(i, q) \in Query
         /\ Sound(q) => Sound(Outdated(i, q))
         /\ Clean(q) => Clean(Outdated(i, q))
         /\ Outdated(i, q).data = q.data /\ Outdated(i, q).hidden = q.hidden
  BY SlotAssumption DEF Query, Outdated, Sound, Clean

LEMMA ForgetIs ==
  ASSUME NEW q \in Query, NEW i \in Slot
  PROVE  /\ Forget(i, q) \in Query
         /\ Sound(q) => Sound(Forget(i, q))
         /\ Clean(q) => Clean(Forget(i, q))
         /\ Forget(i, q).data = q.data /\ Forget(i, q).hidden = q.hidden
  BY DEF Query, Forget, Sound, Clean

LEMMA OwingIs ==
  ASSUME NEW q \in Query, NEW i \in Slot
  PROVE  /\ Owing(i, q) \in Query
         /\ Clean(q) => Clean(Owing(i, q))
         /\ Owing(i, q).data = q.data /\ Owing(i, q).hidden = q.hidden
  BY DEF Query, Owing, Clean

-----------------------------------------------------------------------------
(* A step and the cache *)

(* What every step makes of the cached queries *)
QueriesKept ==
  /\ query' \in [Cached -> Query]
  /\ \A k \in Cached : /\ Sound(query'[k])
                       /\ fate # "saved" => Clean(query'[k])
                       /\ query[k].data # {} => query'[k].data # {}
                       /\ \/ query'[k].data = {} \/ query'[k].hidden
                          \/ Visible(k) # {}
                          \/ k = List \/ FetchSucceeds(k)

LEMMA QueryNow ==
  ASSUME IInv
  PROVE  /\ query \in [Cached -> Query]
         /\ \A k \in Cached : /\ query[k] \in Query
                              /\ Sound(query[k])
                              /\ fate # "saved" => Clean(query[k])
  BY DEF IInv, TypeOK, QueryInv, TextInv, Sound, Clean

(* A step that leaves the cache alone *)
LEMMA SameQueries == ASSUME IInv, UNCHANGED query PROVE QueriesKept
  BY QueryNow DEF QueriesKept, Visible

(* A step that changes one query *)
LEMMA OneQuery ==
  ASSUME IInv, NEW k \in Cached, NEW q \in Query,
         query' = [query EXCEPT ![k] = q],
         Sound(q), fate # "saved" => Clean(q), query[k].data # {} => q.data # {},
         q.data = {} \/ q.hidden \/ Visible(k) # {} \/ k = List \/ FetchSucceeds(k)
  PROVE  QueriesKept
  BY QueryNow DEF QueriesKept, Visible

LEMMA MountKept ==
  ASSUME IInv, NEW k \in Cached, query' = [query EXCEPT ![k] = Mounted(@)]
  PROVE  QueriesKept
<1>1. query' = [query EXCEPT ![k] = Mounted(query[k])]
  OBVIOUS
<1> QED
  BY <1>1, QueryNow, MountedIs, OneQuery DEF Visible

LEMMA NavigateKept ==
  ASSUME IInv, NEW p, NEW js, Navigate(p, js)
  PROVE  QueriesKept
  BY MountKept, SameQueries DEF Navigate

LEMMA ViewIs ==
  ASSUME IInv, NEW k \in Cached
  PROVE  View(k) \in Store /\ (fate # "saved" => ~Holds({View(k)}))
  BY DEF IInv, TypeOK, TextInv, View, Store, Version, Text, Absent, Holds

(* The answer to a fetch, or its failure *)
LEMMA AnswerKept ==
  ASSUME IInv, NEW k \in Cached, NEW data \in SUBSET Store,
         NEW older \in SUBSET (Slot \union {Reported}),
         Answered(k, data, older), Reported \notin older,
         fate # "saved" => ~Holds(data), data # {}, k = List \/ FetchSucceeds(k)
  PROVE  QueriesKept
<1> DEFINE q == [NoQuery EXCEPT !.data = data, !.older = older]
<1>1. q \in Query /\ Sound(q) /\ (fate # "saved" => Clean(q)) /\ q.data # {}
  BY DEF Query, NoQuery, Sound, Clean, Holds
<1>2. query' = [query EXCEPT ![k] = q]
  BY DEF Answered
<1> QED
  BY <1>1, <1>2, OneQuery

LEMMA ErrorKept ==
  ASSUME IInv, NEW k \in Cached, InError(k)
  PROVE  QueriesKept
<1> DEFINE hide == [NoQuery EXCEPT !.data = {NoCards}, !.hidden = TRUE]
           q == IF query[k].data = {} THEN NoQuery ELSE hide
<1>1. hide \in Query /\ Sound(hide) /\ Clean(hide) /\ hide.data # {} /\ hide.hidden
  BY NoCardsIs DEF Query, NoQuery, Sound, Clean, Holds
<1>2. q \in Query /\ Sound(q) /\ Clean(q) /\ (query[k].data # {} => q.data # {})
      /\ (q.data = {} \/ q.hidden)
  BY <1>1, NoQueryIs
<1>3. query' = [query EXCEPT ![k] = q]
  BY QueryNow DEF InError
<1> QED
  BY <1>2, <1>3, OneQuery

LEMMA FetchKept ==
  ASSUME IInv, NEW k \in Cached, Fetch(k)
  PROVE  QueriesKept
<1>1. CASE FetchRead(k)
  <2> DEFINE q == [query[k] EXCEPT !.phase = "read", !.seen = {View(k)}]
  <2>1. q \in Query /\ Sound(q) /\ (fate # "saved" => Clean(q)) /\ q.data = query[k].data
        /\ q.hidden = query[k].hidden
    BY QueryNow, ViewIs DEF Query, Sound, Clean
  <2>2. query' = [query EXCEPT ![k] = q]
    BY <1>1, QueryNow DEF FetchRead
  <2> QED
    BY <2>1, <2>2, OneQuery DEF Visible
<1>2. CASE FetchSucceeds(k)
  <2>1. /\ query[k].seen \in SUBSET Store /\ query[k].seen # {}
        /\ query[k].seenOlder \in SUBSET (Slot \union {Reported})
        /\ Reported \notin query[k].seenOlder
        /\ fate # "saved" => ~Holds(query[k].seen)
    BY <1>2, QueryNow DEF FetchSucceeds, Query, Sound, Clean
  <2> QED
    BY <1>2, <2>1, AnswerKept DEF FetchSucceeds
<1>3. CASE FetchFails(k)
  <2>1. /\ query[k].seenOlder \in SUBSET (Slot \union {Reported})
        /\ Reported \notin query[k].seenOlder
    BY QueryNow DEF Query, Sound
  <2>2. k = List /\ Answered(k, {NoCards}, query[k].seenOlder) => QueriesKept
    BY <2>1, NoCardsIs, AnswerKept
  <2> QED
    BY <1>3, <2>2, ErrorKept DEF FetchFails
<1>4. CASE FetchRejected(k)
  <2>1. query' = [query EXCEPT ![k] = Asked(@)] => query' = [query EXCEPT ![k] = Asked(query[k])]
    OBVIOUS
  <2>2. query' = [query EXCEPT ![k] = Asked(@)] => QueriesKept
    BY <2>1, QueryNow, AskedIs, OneQuery DEF Visible
  <2> QED
    BY <1>4, <2>2, ErrorKept DEF FetchRejected
<1> QED
  BY <1>1, <1>2, <1>3, <1>4 DEF Fetch

LEMMA ExecuteKept ==
  ASSUME IInv, NEW i \in Slot, Execute(i)
  PROVE  QueriesKept
<1>1. CASE UNCHANGED query
  BY <1>1, SameQueries
<1>2. CASE query' = [k \in Cached |-> IF k \in RefreshedBy(job[i]) THEN Outdated(i, query[k])
                                                                ELSE query[k]]
  BY <1>2, QueryNow, OutdatedIs DEF QueriesKept, Visible
<1> QED
  BY <1>1, <1>2 DEF Execute

LEMMA RefetchKept ==
  ASSUME IInv, NEW i \in Slot, NEW k \in RefreshedBy(job[i]), k \in Cached,
         query' = [query EXCEPT ![k] = Refetched(Owing(i, @))]
  PROVE  QueriesKept
<1> DEFINE q == Refetched(Owing(i, query[k]))
<1>1. query[k].data # {}
  BY DEF IInv, JobInv
<1>2. /\ Owing(i, query[k]) \in Query /\ Owing(i, query[k]).data # {}
      /\ Owing(i, query[k]).hidden = query[k].hidden
      /\ Clean(query[k]) => Clean(Owing(i, query[k]))
  BY <1>1, QueryNow, OwingIs
<1>3. q \in Query /\ Sound(q) /\ (Clean(query[k]) => Clean(q)) /\ q.data # {}
      /\ q.hidden = query[k].hidden
  BY <1>2, RefetchedIs
<1>4. query' = [query EXCEPT ![k] = q]
  OBVIOUS
<1> HIDE DEF q
<1> QED
  BY <1>1, <1>3, <1>4, QueryNow, OneQuery DEF Visible

LEMMA ProceedKept ==
  ASSUME IInv, NEW i \in Slot, Proceed(i)
  PROVE  QueriesKept
<1>1. CASE Execute(i)
  BY <1>1, ExecuteKept
<1>2. CASE Refuse(i) \/ ShowRefusal(i)
  BY <1>2, SameQueries DEF Refuse, ShowRefusal
<1>3. CASE SaveSucceeds(i)
  <2>1. job[i].target \in RefreshedBy(job[i]) /\ job[i].target \in Cached
    BY <1>3 DEF SaveSucceeds, RefreshedBy, IInv, TypeOK, Job
  <2> QED
    BY <1>3, <2>1, RefetchKept DEF SaveSucceeds
<1>4. CASE DeleteCardSucceeds(i)
  <2>1. List \in RefreshedBy(job[i]) /\ List \in Cached
    BY <1>4 DEF DeleteCardSucceeds, RefreshedBy, Cached
  <2> QED
    BY <1>4, <2>1, RefetchKept DEF DeleteCardSucceeds
<1>5. CASE OtherSucceeds(i)
  BY <1>5, NavigateKept, SameQueries DEF OtherSucceeds
<1>6. CASE LoseAnswer(i)
  BY <1>6, QueryNow, ForgetIs DEF LoseAnswer, QueriesKept, Visible
<1> QED
  BY <1>1, <1>2, <1>3, <1>4, <1>5, <1>6 DEF Proceed, Succeed

LEMMA UserKept == ASSUME IInv, User PROVE QueriesKept
<1>1. CASE GoList \/ GoCreate
  BY <1>1, NavigateKept DEF GoList, GoCreate
<1>2. CASE GoAway
  <2>1. List \in Cached
    BY DEF Cached
  <2>2. UNCHANGED query => QueriesKept
    BY SameQueries
  <2>3. query' = [query EXCEPT ![List] = Mounted(@)] => QueriesKept
    BY <2>1, MountKept
  <2> QED
    BY <1>2, <2>2, <2>3 DEF GoAway
<1>3. CASE Focus
  BY <1>3, MountKept DEF Focus
<1>4. ASSUME NEW r \in Resource, GoDetails(r)
      PROVE  QueriesKept
  BY <1>4, NavigateKept DEF GoDetails
<1>5. ASSUME NEW r \in Resource, ClickEdit(r) \/ TypeText(r) \/ ClickCancel(r)
      PROVE  QueriesKept
  BY <1>5, SameQueries DEF ClickEdit, TypeText, ClickCancel
<1>6. ASSUME NEW r \in Resource, NEW i \in Slot,
             ClickSubmit(i, r) \/ ClickSave(i, r) \/ ClickDelete(i, r) \/ ClickDeleteCard(i, r)
      PROVE  QueriesKept
  BY <1>6, SameQueries DEF ClickSubmit, ClickSave, ClickDelete, ClickDeleteCard, Start
<1> QED
  BY <1>1, <1>2, <1>3, <1>4, <1>5, <1>6 DEF User

LEMMA NextKept == ASSUME IInv, [Next]_vars PROVE QueriesKept
<1>1. ASSUME NEW r \in Resource, OthersWrite(r)
      PROVE  QueriesKept
  BY <1>1, SameQueries DEF OthersWrite
<1> QED
  BY <1>1, SameQueries, UserKept, FetchKept, ProceedKept DEF Next, vars

-----------------------------------------------------------------------------
(* A step and the mutations *)

(* What holds of mutation j: JobInv, for one mutation. *)
JobOK(j) ==
  /\ j.wrote = (j.stage = "written")
  /\ j.kind # "none" => j.target \in Resource
  /\ \A k \in RefreshedBy(j) : query[k].data # {}

JobsKept ==
  /\ job' \in [Slot -> Job]
  /\ \A i \in Slot : /\ JobOK(job'[i])
                     /\ fate' # "saved" /\ fate # "saved" => job'[i].text # "followed"

LEMMA JobNow ==
  ASSUME IInv
  PROVE  /\ job \in [Slot -> Job]
         /\ \A i \in Slot : /\ job[i] \in Job
                            /\ JobOK(job[i])
                            /\ fate # "saved" => job[i].text # "followed"
<1>1. ASSUME NEW i \in Slot PROVE JobOK(job[i])
  BY Zenon DEF IInv, JobInv, JobOK
<1>2. job \in [Slot -> Job]
  BY DEF IInv, TypeOK
<1>3. ASSUME NEW i \in Slot PROVE job[i] \in Job
  BY <1>2
<1>4. ASSUME NEW i \in Slot PROVE fate # "saved" => job[i].text # "followed"
  BY DEF IInv, TextInv
<1> QED
  BY <1>1, <1>2, <1>3, <1>4, Zenon

LEMMA NoJobIs == NoJob \in Job /\ JobOK(NoJob) /\ NoJob.text # "followed"
  BY DEF NoJob, Job, JobOK, RefreshedBy, Cached, Text

LEMMA SameJobs == ASSUME IInv, UNCHANGED job PROVE JobsKept
  BY JobNow DEF JobsKept

LEMMA OneJob ==
  ASSUME IInv, NEW i \in Slot, NEW j \in Job, job' = [job EXCEPT ![i] = j],
         JobOK(j), fate' # "saved" /\ fate # "saved" => j.text # "followed"
  PROVE  JobsKept
  BY JobNow DEF JobsKept

LEMMA DoneKept == ASSUME IInv, NEW i \in Slot, job' = Done(i) PROVE JobsKept
  BY NoJobIs, OneJob DEF Done

(* A page is left: its mutations stay, and know that it is gone. *)
LEMMA LeaveJobs ==
  ASSUME IInv, NEW js \in [Slot -> Job], NEW p, Leave(p, js),
         \A i \in Slot : JobOK(js[i]) /\ (fate # "saved" => js[i].text # "followed")
  PROVE  JobsKept
<1>1. ASSUME NEW i \in Slot
      PROVE  /\ job'[i] \in Job
             /\ JobOK(job'[i])
             /\ fate # "saved" => job'[i].text # "followed"
  <2> DEFINE j == [js[i] EXCEPT !.mounted = FALSE]
  <2>1. js[i] \in Job
    OBVIOUS
  <2>2. /\ j \in Job /\ j.kind = js[i].kind /\ j.target = js[i].target
        /\ j.text = js[i].text /\ j.stage = js[i].stage /\ j.wrote = js[i].wrote
    BY <2>1 DEF Job
  <2>3. JobOK(j)
    BY <2>2 DEF JobOK, RefreshedBy
  <2>4. job'[i] = j
    BY DEF Leave
  <2> HIDE DEF j
  <2> QED
    BY <2>2, <2>3, <2>4
<1>2. DOMAIN job' = Slot /\ job' = [i \in Slot |-> job'[i]]
  BY DEF Leave
<1> QED
  BY <1>1, <1>2 DEF JobsKept

LEMMA StartKept ==
  ASSUME IInv, NEW i \in Slot, NEW kind \in {"create", "save", "delete", "deleteCard"},
         NEW r \in Resource, NEW txt \in Text, Start(i, kind, r, txt),
         kind = "save" => query[r].data # {},
         kind = "deleteCard" => query[List].data # {},
         fate' # "saved" /\ fate # "saved" => txt # "followed"
  PROVE  JobsKept
<1> DEFINE j == [NoJob EXCEPT !.kind = kind, !.target = r, !.text = txt,
                              !.mounted = (kind = "save")]
<1>1. /\ j \in Job /\ j.kind = kind /\ j.target = r /\ j.text = txt
      /\ j.stage = "sent" /\ j.wrote = FALSE
  BY DEF NoJob, Job, Cached
<1>2. job' = [job EXCEPT ![i] = j]
  BY DEF Start
<1> HIDE DEF j
<1>3. JobOK(j)
  BY <1>1 DEF JobOK, RefreshedBy
<1> QED
  BY <1>1, <1>2, <1>3, OneJob

LEMMA LeaveKept == ASSUME IInv, NEW p, Leave(p, job) PROVE JobsKept
  BY JobNow, LeaveJobs

LEMMA LeaveDoneKept ==
  ASSUME IInv, NEW p, NEW i \in Slot, Leave(p, Done(i))
  PROVE  JobsKept
<1>1. /\ Done(i) \in [Slot -> Job]
      /\ \A k \in Slot : Done(i)[k] = job[k] \/ Done(i)[k] = NoJob
  BY JobNow, NoJobIs DEF Done
<1> QED
  BY <1>1, JobNow, NoJobIs, LeaveJobs

(* A mutation moves to another stage. *)
LEMMA StageKept ==
  ASSUME IInv, NEW i \in Slot, NEW j \in Job, job' = [job EXCEPT ![i] = j],
         j.kind = job[i].kind, j.target = job[i].target, j.text = job[i].text,
         j.wrote = (j.stage = "written")
  PROVE  JobsKept
<1>1. JobOK(j)
  BY JobNow DEF JobOK, RefreshedBy
<1> QED
  BY <1>1, JobNow, OneJob

LEMMA ProceedJobs ==
  ASSUME IInv, NEW i \in Slot, Proceed(i)
  PROVE  JobsKept
<1>0. job[i] \in Job /\ job[i].wrote = (job[i].stage = "written")
  BY JobNow DEF JobOK
<1>1. CASE Execute(i)
  <2>1. CASE job[i].stage = "sent"
    <3> DEFINE j == [job[i] EXCEPT !.stage = "written", !.wrote = TRUE]
    <3>1. /\ j \in Job /\ j.kind = job[i].kind /\ j.target = job[i].target
          /\ j.text = job[i].text /\ j.wrote = (j.stage = "written")
      BY <1>0, <2>1 DEF Job
    <3>2. job' = [job EXCEPT ![i] = j]
      BY <1>1, <2>1 DEF Execute
    <3> HIDE DEF j
    <3> QED
      BY <3>1, <3>2, StageKept
  <2>2. CASE job[i].stage # "sent"
    BY <1>1, <2>2, NoJobIs, OneJob DEF Execute
  <2> QED
    BY <2>1, <2>2
<1>2. CASE Refuse(i)
  <2>1. CASE job[i].stage = "sent" /\ job' = [job EXCEPT ![i].stage = "refused"]
    <3> DEFINE j == [job[i] EXCEPT !.stage = "refused"]
    <3>1. /\ j \in Job /\ j.kind = job[i].kind /\ j.target = job[i].target
          /\ j.text = job[i].text /\ j.wrote = (j.stage = "written")
      BY <1>0, <2>1 DEF Job
    <3>2. job' = [job EXCEPT ![i] = j]
      BY <2>1
    <3> HIDE DEF j
    <3> QED
      BY <3>1, <3>2, StageKept
  <2> QED
    BY <1>2, <2>1, NoJobIs, OneJob DEF Refuse
<1>3. CASE SaveSucceeds(i) \/ DeleteCardSucceeds(i) \/ ShowRefusal(i)
  BY <1>3, DoneKept DEF SaveSucceeds, DeleteCardSucceeds, ShowRefusal
<1>4. CASE OtherSucceeds(i)
  BY <1>4, DoneKept, LeaveDoneKept DEF OtherSucceeds, Navigate
<1>5. CASE LoseAnswer(i)
  <2>1. CASE job[i].stage = "sent"
    <3> DEFINE j == [job[i] EXCEPT !.stage = "orphan", !.mounted = FALSE]
    <3>1. /\ j \in Job /\ j.kind = job[i].kind /\ j.target = job[i].target
          /\ j.text = job[i].text /\ j.wrote = (j.stage = "written")
      BY <1>0, <2>1 DEF Job
    <3>2. job' = [job EXCEPT ![i] = j]
      BY <1>5, <2>1 DEF LoseAnswer
    <3> HIDE DEF j
    <3> QED
      BY <3>1, <3>2, StageKept
  <2> QED
    BY <1>5, <2>1, DoneKept DEF LoseAnswer
<1> QED
  BY <1>1, <1>2, <1>3, <1>4, <1>5 DEF Proceed, Succeed

LEMMA UserJobs == ASSUME IInv, User PROVE JobsKept
<1>1. CASE GoList \/ GoCreate \/ GoAway \/ Focus
  BY <1>1, SameJobs, LeaveKept DEF GoList, GoCreate, GoAway, Focus, Navigate
<1>2. ASSUME NEW r \in Resource, GoDetails(r) \/ ClickEdit(r) \/ TypeText(r) \/ ClickCancel(r)
      PROVE  JobsKept
  BY <1>2, SameJobs, LeaveKept DEF GoDetails, ClickEdit, TypeText, ClickCancel, Navigate
<1>3. ASSUME NEW r \in Resource, NEW i \in Slot,
             ClickSubmit(i, r) \/ ClickDelete(i, r) \/ ClickDeleteCard(i, r)
      PROVE  JobsKept
  <2>1. r \in Cards => query[List].data # {}
    BY DEF Cards, Visible
  <2>2. "other" \in Text /\ "other" # "followed"
    BY DEF Text
  <2> QED
    BY <1>3, <2>1, <2>2, StartKept DEF ClickSubmit, ClickDelete, ClickDeleteCard
<1>4. ASSUME NEW r \in Resource, NEW i \in Slot, ClickSave(i, r)
      PROVE  JobsKept
  <2>1. query[r].data # {}
    BY <1>4 DEF ClickSave, Shown, Visible
  <2>2. text \in Text
    BY <1>4 DEF ClickSave, Shown, IInv, TypeOK, FilledInv
  <2> QED
    BY <1>4, <2>1, <2>2, StartKept DEF ClickSave, IInv, TypeOK, TextInv
<1> QED
  BY <1>1, <1>2, <1>3, <1>4 DEF User

LEMMA NextJobs == ASSUME IInv, [Next]_vars PROVE JobsKept
<1>1. ASSUME NEW r \in Resource, OthersWrite(r)
      PROVE  JobsKept
  BY <1>1, SameJobs DEF OthersWrite
<1>2. ASSUME NEW k \in Cached, Fetch(k)
      PROVE  JobsKept
  BY <1>2, SameJobs DEF Fetch, FetchRead, FetchSucceeds, FetchFails, FetchRejected
<1> QED
  BY <1>1, <1>2, SameJobs, UserJobs, ProceedJobs DEF Next, vars

-----------------------------------------------------------------------------
(* A step and what the user sees *)

TabKept ==
  /\ store' \in Store
  /\ page' \in Resource \union {List, Create, Away}
  /\ editing' \in BOOLEAN
  /\ text' \in Text \union {NoText}
  /\ fate' \in {"new", "typed", "saved", "dropped"}
  /\ fate' # "saved" => fate # "saved" /\ \A r \in Resource : store'[r].text # "followed"
  /\ fate' \in {"new", "dropped"} => text' # "followed"
  /\ page' \in Resource /\ Visible(page') # {} => text' # NoText

LEMMA SameTab == ASSUME IInv, UNCHANGED <<store, tab>> PROVE TabKept
  BY DEF IInv, TypeOK, TextInv, FilledInv, TabKept, tab

LEMMA InitialTextIs ==
  ASSUME IInv, NEW r \in Resource
  PROVE  /\ InitialText(r) \in Text \union {NoText}
         /\ Visible(r) # {} => InitialText(r) # NoText
         /\ fate # "saved" => InitialText(r) # "followed"
<1>1. CASE Visible(r) = {}
  BY <1>1 DEF InitialText, NoText
<1>2. CASE Visible(r) # {}
  <2> DEFINE v == CHOOSE v \in Visible(r) : TRUE
  <2>1. v \in Visible(r)
    BY <1>2
  <2>2. Visible(r) = query[r].data /\ r \in Cached
    BY <1>2 DEF Visible, Cached
  <2>3. v \in Store
    BY <2>1, <2>2, QueryNow DEF Query
  <2>4. v[r].text \in Text /\ (fate # "saved" => v[r].text # "followed")
    BY <2>1, <2>2, <2>3, QueryNow DEF Store, Version, Clean, Holds
  <2>5. InitialText(r) = v[r].text
    BY <1>2 DEF InitialText
  <2> HIDE DEF v
  <2> QED
    BY <2>4, <2>5 DEF Text, NoText
<1> QED
  BY <1>1, <1>2

LEMMA LeaveTab ==
  ASSUME IInv, NEW js, NEW p \in Resource \union {List, Create, Away}, Leave(p, js),
         UNCHANGED store
  PROVE  TabKept
<1>1. /\ text' \in Text \union {NoText}
      /\ p \in Resource /\ Visible(p) # {} => text' # NoText
      /\ fate # "saved" => text' # "followed"
  BY InitialTextIs DEF Leave, NoText
<1>2. fate' = fate \/ (fate = "typed" /\ fate' = "dropped")
  BY DEF Leave, GiveUp
<1> QED
  BY <1>1, <1>2 DEF Leave, IInv, TypeOK, TextInv, TabKept

LEMMA FetchTab == ASSUME IInv, NEW k \in Cached, Fetch(k) PROVE TabKept
<1>1. CASE FetchRead(k) \/ FetchFails(k) \/ FetchRejected(k)
  BY <1>1, SameTab DEF FetchRead, FetchFails, FetchRejected
<1>2. CASE FetchSucceeds(k) /\ page = k /\ k # List /\ text = NoText
  <2>1. PICK v \in query[k].seen : text' = v[k].text
    BY <1>2 DEF FetchSucceeds
  <2>2. v \in Store /\ k \in Resource
    BY <1>2, QueryNow DEF Query, Cached
  <2>3. v[k].text \in Text /\ (fate # "saved" => v[k].text # "followed")
    BY <2>2, QueryNow DEF Store, Version, Clean, Holds
  <2> QED
    BY <1>2, <2>1, <2>3 DEF FetchSucceeds, IInv, TypeOK, TextInv, TabKept, Text, NoText
<1>3. CASE FetchSucceeds(k) /\ ~(page = k /\ k # List /\ text = NoText)
  BY <1>3, SameTab DEF FetchSucceeds, tab
<1> QED
  BY <1>1, <1>2, <1>3 DEF Fetch

(* A page that was filled, or is filled by the answer to its fetch *)
LEMMA FilledByFetch ==
  ASSUME IInv, NEW k \in Resource, FetchSucceeds(k), page' = k
  PROVE  text' # NoText
<1>1. k \in Cached /\ k # List
  BY PagesAssumption DEF Cached
<1>2. CASE text = NoText
  <2>1. PICK v \in query[k].seen : text' = v[k].text
    BY <1>1, <1>2 DEF FetchSucceeds
  <2>2. v \in Store
    BY <1>1, QueryNow DEF Query
  <2> QED
    BY <2>1, <2>2 DEF Store, Version, Text, NoText
<1>3. CASE text # NoText
  BY <1>3 DEF FetchSucceeds
<1> QED
  BY <1>2, <1>3

LEMMA UserTab == ASSUME IInv, User PROVE TabKept
<1>1. CASE GoList \/ GoCreate \/ GoAway \/ Focus
  BY <1>1, SameTab, LeaveTab DEF GoList, GoCreate, GoAway, Focus, Navigate
<1>2. ASSUME NEW r \in Resource, GoDetails(r)
      PROVE  TabKept
  BY <1>2, LeaveTab DEF GoDetails, Navigate
<1>3. ASSUME NEW r \in Resource, ClickEdit(r)
      PROVE  TabKept
  BY <1>3 DEF ClickEdit, IInv, TypeOK, TextInv, FilledInv, TabKept
<1>4. ASSUME NEW r \in Resource, TypeText(r)
      PROVE  TabKept
  BY <1>4 DEF TypeText, GiveUp, IInv, TypeOK, TextInv, TabKept, Text, NoText
<1>5. ASSUME NEW r \in Resource, ClickCancel(r)
      PROVE  TabKept
  <2>1. fate' = fate \/ (fate = "typed" /\ fate' = "dropped")
    BY <1>5 DEF ClickCancel, GiveUp
  <2> QED
    BY <1>5, <2>1, InitialTextIs DEF ClickCancel, Shown, IInv, TypeOK, TextInv, TabKept
<1>6. ASSUME NEW r \in Resource, NEW i \in Slot,
             ClickSubmit(i, r) \/ ClickDelete(i, r) \/ ClickDeleteCard(i, r)
      PROVE  TabKept
  BY <1>6, SameTab DEF ClickSubmit, ClickDelete, ClickDeleteCard, Start, tab
<1>7. ASSUME NEW r \in Resource, NEW i \in Slot, ClickSave(i, r)
      PROVE  TabKept
  BY <1>7 DEF ClickSave, Start, IInv, TypeOK, TextInv, FilledInv, TabKept
<1> QED
  BY <1>1, <1>2, <1>3, <1>4, <1>5, <1>6, <1>7 DEF User

(* A resource is written. *)
LEMMA WriteStore ==
  ASSUME IInv, NEW r \in Resource, NEW w \in Version, store' = [store EXCEPT ![r] = w],
         fate # "saved" => w.text # "followed"
  PROVE  store' \in Store /\ (fate # "saved" => \A q \in Resource : store'[q].text # "followed")
  BY DEF IInv, TypeOK, TextInv, Store

LEMMA VersionsAre ==
  /\ \A txt \in Text : [live |-> TRUE, text |-> txt] \in Version
  /\ "other" \in Text /\ Absent \in Version /\ Absent.text # "followed"
  BY DEF Version, Text, Absent

LEMMA ProceedTab == ASSUME IInv, NEW i \in Slot, Proceed(i) PROVE TabKept
<1>1. CASE Execute(i)
  <2>1. job[i].target \in Resource /\ job[i].text \in Text
        /\ (fate # "saved" => job[i].text # "followed")
    BY <1>1, JobNow DEF Execute, JobOK, Job
  <2>2. store' \in Store /\ (fate # "saved" => \A r \in Resource : store'[r].text # "followed")
    <3>1. \E w \in Version : /\ store' = [store EXCEPT ![job[i].target] = w]
                             /\ fate # "saved" => w.text # "followed"
      BY <1>1, <2>1, VersionsAre DEF Execute
    <3> QED
      BY <2>1, <3>1, WriteStore
  <2> QED
    BY <1>1, <2>2 DEF Execute, tab, IInv, TypeOK, TextInv, FilledInv, TabKept
<1>2. CASE Refuse(i) \/ DeleteCardSucceeds(i) \/ ShowRefusal(i) \/ LoseAnswer(i)
  BY <1>2, SameTab DEF Refuse, DeleteCardSucceeds, ShowRefusal, LoseAnswer
<1>3. CASE SaveSucceeds(i)
  BY <1>3 DEF SaveSucceeds, IInv, TypeOK, TextInv, FilledInv, TabKept
<1>4. CASE OtherSucceeds(i)
  BY <1>4, SameTab, LeaveTab DEF OtherSucceeds, Navigate
<1> QED
  BY <1>1, <1>2, <1>3, <1>4 DEF Proceed, Succeed

LEMMA NextTab == ASSUME IInv, [Next]_vars PROVE TabKept
<1>1. ASSUME NEW r \in Resource, OthersWrite(r)
      PROVE  TabKept
  <2>1. store' \in Store /\ (fate # "saved" => \A q \in Resource : store'[q].text # "followed")
    BY <1>1, VersionsAre, WriteStore DEF OthersWrite
  <2> QED
    BY <1>1, <2>1 DEF OthersWrite, tab, IInv, TypeOK, TextInv, FilledInv, TabKept
<1>2. CASE UNCHANGED vars
  BY <1>2, SameTab DEF vars
<1> QED
  BY <1>1, <1>2, UserTab, FetchTab, ProceedTab DEF Next

-----------------------------------------------------------------------------
(* The invariant *)

LEMMA InitInv == Init => IInv
<1> SUFFICES ASSUME Init PROVE IInv
  OBVIOUS
<1>1. TypeOK
  BY NoQueryIs, NoJobIs DEF Init, TypeOK, Store, Version, Absent, Text
<1>2. JobInv
  BY DEF Init, JobInv, NoJob, RefreshedBy
<1>3. QueryInv
  BY DEF Init, QueryInv, NoQuery
<1>4. TextInv
  BY NoQueryIs, NoJobIs DEF Init, TextInv, Clean, Absent, NoText
<1>5. FilledInv
  BY PagesAssumption DEF Init, FilledInv
<1> QED
  BY <1>1, <1>2, <1>3, <1>4, <1>5 DEF IInv

(* The invariant is kept by every step: a mutation finds data in the cache, a
   fetch never answers with what is older than a reported success, and the
   followed text is nowhere but in the form until it is saved. *)
LEMMA NextInv == IInv /\ [Next]_vars => IInv'
<1> SUFFICES ASSUME IInv, [Next]_vars PROVE IInv'
  OBVIOUS
<1>1. QueriesKept /\ JobsKept /\ TabKept
  BY NextKept, NextJobs, NextTab
<1>2. TypeOK'
  BY <1>1 DEF TypeOK, QueriesKept, JobsKept, TabKept
<1>3. JobInv'
  <2> SUFFICES ASSUME NEW i \in Slot
               PROVE  /\ job'[i].wrote = (job'[i].stage = "written")
                      /\ job'[i].kind # "none" => job'[i].target \in Resource
                      /\ \A k \in RefreshedBy(job'[i]) : query'[k].data # {}
    BY DEF JobInv, RefreshedBy
  <2>1. JobOK(job'[i]) /\ job'[i] \in Job
    BY <1>1 DEF JobsKept
  <2>2. RefreshedBy(job'[i]) \subseteq Cached
    BY <2>1 DEF RefreshedBy, Job, Cached
  <2>3. \A k \in RefreshedBy(job'[i]) : query'[k].data # {}
    BY <1>1, <2>1, <2>2 DEF JobOK, QueriesKept
  <2> QED
    BY <2>1, <2>3, Zenon DEF JobOK
<1>4. QueryInv'
  BY <1>1 DEF QueryInv, QueriesKept, Sound
<1>5. TextInv'
  BY <1>1 DEF TextInv, QueriesKept, JobsKept, TabKept, Clean, Holds
<1>6. FilledInv'
  <2> SUFFICES ASSUME page' \in Resource, query'[page'].data # {}, ~query'[page'].hidden
               PROVE  text' # NoText
    BY DEF FilledInv, Visible
  <2>1. page' \in Cached /\ page' # List
    BY PagesAssumption DEF Cached
  <2>2. Visible(page') # {} \/ FetchSucceeds(page')
    BY <1>1, <2>1 DEF QueriesKept
  <2> QED
    BY <1>1, <2>2, FilledByFetch DEF TabKept
<1> QED
  BY <1>2, <1>3, <1>4, <1>5, <1>6 DEF IInv

THEOREM TabInvariant == Spec => []IInv
  BY InitInv, NextInv, PTL DEF Spec

(* Once a save or the deletion of a card is reported as a success, its query
   comes to rest on data read after it only. *)
THEOREM Refreshed == Spec => []RefreshedAfterSuccess
<1>1. IInv => RefreshedAfterSuccess
  BY DEF IInv, QueryInv, RefreshedAfterSuccess
<1> QED
  BY <1>1, TabInvariant, PTL

(* Text that was given up is never written. *)
THEOREM DroppedStaysOut == Spec => []DroppedTextStaysOut
<1>1. IInv => DroppedTextStaysOut
  BY DEF IInv, TextInv, DroppedTextStaysOut
<1> QED
  BY <1>1, TabInvariant, PTL

(* Success is reported of writes only, and a refusal of what is not written
   and never will be. *)
THEOREM Notices == Spec => NoticesTruthful
<1>1. ASSUME IInv, NEW i \in Slot
      PROVE  /\ Succeed(i) => job[i].wrote
             /\ ShowRefusal(i) => ~job[i].wrote /\ job'[i] = NoJob
  <2>1. job[i].wrote = (job[i].stage = "written") /\ job \in [Slot -> Job]
    BY <1>1 DEF IInv, JobInv, TypeOK
  <2> QED
    BY <2>1 DEF Succeed, SaveSucceeds, DeleteCardSucceeds, OtherSucceeds, ShowRefusal,
                AnswerIs, Done
<1>2. IInv => [\A i \in Slot : /\ Succeed(i) => job[i].wrote
                               /\ ShowRefusal(i) => ~job[i].wrote /\ job'[i] = NoJob]_vars
  BY <1>1
<1> QED
  BY <1>2, TabInvariant, PTL DEF NoticesTruthful
=============================================================================
