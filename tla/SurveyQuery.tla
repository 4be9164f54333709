------------------------------ MODULE SurveyQuery ------------------------------
(***************************************************************************)
(* Lists that a client reads page by page while the documents change: the  *)
(* surveys of GET /surveys, /creator/surveys and /admin/surveys, the       *)
(* responses of GET /survey-responses, and the scores of GET /scores.      *)
(* Each page is a query of its own with an offset, "the number of results  *)
(* previously loaded".                                                     *)
(***************************************************************************)
EXTENDS Integers, SequencesExt, Documents

CONSTANTS
  SurveyIds, ResponseIds, ScoreIds,
  Drafts,     \* what surveys are created with, and changed to
  Queries,    \* the lists that the client may ask for
  NoDate,     \* no start_date, end_date or bound on them
  Standings,  \* the scores that a user may have
  Age,        \* the time when the client asks for the first page
  LastTime    \* bound on the changes to the documents

Dates == Nat \cup {NoDate}

\* The parts of a model.Survey that a query looks at.
Draft == [public : BOOLEAN, archived : BOOLEAN, start : Dates, end : Dates,
          estimate : Nat]  \* estimated_completion_time

\* The parameters of a query.  The filters by id, type, event and creator only
\* decide which surveys there are.
Answers == {"any", "yes", "no"}
SurveyQueryOf(sorts) ==
  [public : Answers, archived : Answers, completed : Answers,
   startAfter : Dates, startBefore : Dates, endAfter : Dates, endBefore : Dates,
   of : {"surveys"}, sortByDateCreated : sorts, limit : Nat]

ClientQuery == SurveyQueryOf({FALSE})
AdminQuery  == SurveyQueryOf({TRUE})

UnfilteredQueryOf(kind) ==
  [public : {"any"}, archived : {"any"}, completed : {"any"},
   startAfter : {NoDate}, startBefore : {NoDate}, endAfter : {NoDate}, endBefore : {NoDate},
   of : {kind}, sortByDateCreated : {FALSE}, limit : Nat]

\* The user's own responses, and the scores of all users.
ResponseQuery == UnfilteredQueryOf("responses")
ScoreQuery    == UnfilteredQueryOf("scores")

\* A model.Score; named: with an external_profile_id.
Score == [points : Int, named : BOOLEAN]

Query == ClientQuery \cup AdminQuery \cup ResponseQuery \cup ScoreQuery

ASSUME QueryAssumption ==
  /\ Drafts \subseteq Draft /\ Queries \subseteq Query
  /\ Age \in Nat /\ LastTime \in Nat /\ Age <= LastTime
  /\ Standings \subseteq Score
  /\ SurveyIds \cap ResponseIds = {}
  /\ IsFiniteSet(SurveyIds) /\ IsFiniteSet(ResponseIds) /\ IsFiniteSet(ScoreIds)

VARIABLES
  surveys,    \* collection surveys: a draft, and when it was created
  responses,  \* the user's part of survey_responses: a survey, and when
  scores,     \* collection scores
  now,        \* the time, which is the number of changes
  query,      \* the list that is being read
  seen,       \* its results so far, each with the sort key that it had then
  ended,      \* whether the last page has been read
  expected,   \* what matched at the start, but for scores that have changed since
  changes,    \* the kinds of change since then
  tied        \* whether a page had to order two documents with equal keys

data == <<surveys, responses, scores, now>>
list == <<query, seen, ended, tied>>
vars == <<data, list, expected, changes>>

Survey == [draft : Drafts, created : 1..LastTime]
Response == [survey : SurveyIds, created : 1..LastTime]

Keys == Int \X Int \X Int
Ids  == SurveyIds \cup ResponseIds \cup ScoreIds

\* What the client has got: a document, and its sort key at the time.
Result == [id : Ids, key : Keys]

TypeOK ==
  /\ surveys \in [SurveyIds -> Survey \cup {Unborn, Gone}]
  /\ responses \in [ResponseIds -> Response \cup {Unborn, Gone}]
  /\ scores \in [ScoreIds -> Standings \cup {Unborn}]
  /\ now \in Age..LastTime
  /\ query \in Queries
  /\ seen \in Seq(Result)
  /\ ended \in BOOLEAN /\ tied \in BOOLEAN
  /\ expected \subseteq Ids
  /\ changes \subseteq {"create", "update", "delete", "answer", "unanswer", "gain", "loss"}
-------------------------------------------------------------------------------
(* The query.                                                              *)

\* public, archived, completed: nil, true, or false.
Wanted(filter, value) == filter = "any" \/ (filter = "yes") = value

\* starts_after and the like let pass what has no date.
NotBefore(date, bound) == NoDate \in {date, bound} \/ date >= bound

\* $lookup: the user has a response to the survey.
Completed(s) == \E r \in Stored(responses) : responses[r].survey = s

MatchingSurveys(q) ==
  {s \in Stored(surveys) :
     LET draft == surveys[s].draft
     IN  /\ Wanted(q.public, draft.public) /\ Wanted(q.archived, draft.archived)
         /\ Wanted(q.completed, Completed(s))
         /\ NotBefore(draft.start, q.startAfter) /\ NotBefore(q.startBefore, draft.start)
         /\ NotBefore(draft.end, q.endAfter) /\ NotBefore(q.endBefore, draft.end)}

\* Scores with points and a profile; 0 stands for the others.
Standing(score) == IF score # Unborn /\ score.named /\ score.points > 0 THEN score.points ELSE 0

Matching(q) ==
  CASE q.of = "surveys"   -> MatchingSurveys(q)
    [] q.of = "responses" -> Stored(responses)
    [] q.of = "scores"    -> {x \in ScoreIds : Standing(scores[x]) # 0}

\* In the order of the database nothing comes before any date.
Rank(date) == IF date = NoDate THEN 0 ELSE date

\* The sort of a list that is not of public surveys only; a filter by end_date
\* replaces the sort by start_date.
DateKey(q, draft) ==
  IF q.sortByDateCreated           THEN -Rank(draft.start)
  ELSE IF q.endBefore # NoDate     THEN -Rank(draft.end)
  ELSE IF q.endAfter # NoDate      THEN Rank(draft.end)
  ELSE IF q.startBefore # NoDate   THEN -Rank(draft.start)
  ELSE IF q.startAfter # NoDate    THEN Rank(draft.start)
  ELSE 0

\* The place of a survey: the facets of a list of public surveys one after the
\* other, each in an order of its own.
SurveyKey(q, s) ==
  LET draft == surveys[s].draft
      age   == -surveys[s].created
  IN  IF q.public # "yes"          THEN <<0, DateKey(q, draft), 0>>
      ELSE IF Completed(s)         THEN <<3, -draft.estimate, age>>
      ELSE IF draft.end = NoDate   THEN <<2, -Rank(draft.start), age>>
      ELSE <<1, draft.end, 0>>

\* Responses come newest first, scores with the highest first.
Key(q, id) ==
  CASE q.of = "surveys"   -> SurveyKey(q, id)
    [] q.of = "responses" -> <<0, -responses[id].created, 0>>
    [] q.of = "scores"    -> <<0, -scores[id].points, 0>>

Precedes(a, b) == \E i \in 1..3 : a[i] < b[i] /\ \A j \in 1..(i - 1) : a[j] = b[j]

\* A mistake: the surveys come in the order of the index.
Unsorted(q) == SetToSeqs(Matching(q))

\* The orders in which the database may return what matches: documents with equal
\* keys come in any order, which may be another one for the next page.
Sorted(q) ==
  {p \in SetToSeqs(Matching(q)) :
     \A j \in DOMAIN p : \A i \in 1..(j - 1) : ~Precedes(Key(q, p[j]), Key(q, p[i]))}

Upto(p, end) == IF end < Len(p) THEN end ELSE Len(p)

\* Mistakes: one result too many is skipped, or one too few.
SkipsOneMore(p, offset, limit) ==
  SubSeq(p, offset + 2, IF limit = 0 THEN Len(p) ELSE Upto(p, offset + 1 + limit))
SkipsOneLess(p, offset, limit) ==
  SubSeq(p, IF offset = 0 THEN 1 ELSE offset,
         IF limit = 0 THEN Len(p) ELSE Upto(p, offset + limit))

\* $skip and $limit; a limit of 0 is no limit.
Page(p, offset, limit) ==
  SubSeq(p, offset + 1, IF limit = 0 THEN Len(p) ELSE Upto(p, offset + limit))
-------------------------------------------------------------------------------
(* The client.                                                             *)

\* No two documents are stored at the same time.
OneByOne(collection) ==
  \A x, y \in Stored(collection) : x # y => collection[x].created # collection[y].created

\* The client asks for a list when the database holds any documents; those that the
\* list does not look at are left out.
Init ==
  /\ query \in Queries
  /\ scores \in [ScoreIds -> {Unborn} \cup IF query.of = "scores" THEN Standings ELSE {}]
  /\ surveys \in [SurveyIds -> {Unborn} \cup
       IF query.of = "scores" THEN {} ELSE [draft : Drafts, created : 1..Age]]
  /\ OneByOne(surveys)
  /\ responses \in [ResponseIds -> [survey : Stored(surveys), created : 1..Age] \cup {Unborn}]
  /\ OneByOne(responses)
  /\ now = Age
  /\ expected = Matching(query)
  /\ seen = <<>> /\ ended = FALSE /\ tied = FALSE
  /\ changes = {}

\* The client asks again until a page is not full.
NextPage ==
  /\ ~ended
  /\ \E p \in Sorted(query) :
       LET page == Page(p, Len(seen), query.limit)
       IN  /\ seen' = seen \o [i \in DOMAIN page |-> [id |-> page[i], key |-> Key(query, page[i])]]
           /\ ended' = (query.limit = 0 \/ Len(page) < query.limit)
  /\ tied' = (tied \/ \E x, y \in Matching(query) : x # y /\ Key(query, x) = Key(query, y))
  /\ UNCHANGED <<data, query, expected, changes>>
-------------------------------------------------------------------------------
(* Meanwhile.  What happens after the last page does not matter.           *)

Changed(kind) ==
  /\ ~ended
  /\ query.of = "scores" <=> kind \in {"gain", "loss"}
  /\ now < LastTime /\ now' = now + 1
  /\ changes' = changes \cup {kind}
  /\ UNCHANGED list

CreateSurvey(s) ==
  /\ Changed("create")
  /\ surveys[s] = Unborn
  /\ \E draft \in Drafts : surveys' = [surveys EXCEPT ![s] = [draft |-> draft, created |-> now']]
  /\ UNCHANGED <<responses, scores, expected>>

\* A mistake: an update replaces the document and leaves date_created at zero.
Replaced(survey, draft) == [draft |-> draft, created |-> 0]

\* UpdateSurvey leaves date_created alone.
Updated(survey, draft) == [survey EXCEPT !.draft = draft]

UpdateSurvey(s) ==
  /\ Changed("update")
  /\ s \in Stored(surveys)
  /\ \E draft \in Drafts : surveys' = [surveys EXCEPT ![s] = Updated(@, draft)]
  /\ UNCHANGED <<responses, scores, expected>>

DeleteSurvey(s) ==
  /\ Changed("delete")
  /\ s \in Stored(surveys)
  /\ surveys' = [surveys EXCEPT ![s] = Gone]
  /\ UNCHANGED <<responses, scores, expected>>

CreateSurveyResponse(r) ==
  /\ Changed("answer")
  /\ responses[r] = Unborn
  /\ \E s \in Stored(surveys) :
       responses' = [responses EXCEPT ![r] = [survey |-> s, created |-> now']]
  /\ UNCHANGED <<surveys, scores, expected>>

DeleteSurveyResponses(gone) ==
  /\ Changed("unanswer")
  /\ gone # {}
  /\ responses' = [r \in ResponseIds |-> IF r \in gone THEN Gone ELSE responses[r]]
  /\ UNCHANGED <<surveys, scores, expected>>

\* CreateScore and UpdateScore of the storage: a score moves up the list, or into it,
\* or down and out of it.
ChangeScore(x) ==
  /\ \E score \in Standings :
       /\ scores' = [scores EXCEPT ![x] = score]
       /\ \/ Standing(score) > Standing(scores[x]) /\ Changed("gain")
          \/ Standing(score) < Standing(scores[x]) /\ Changed("loss")
  /\ expected' = expected \ {x}
  /\ UNCHANGED <<surveys, responses>>

Next ==
  \/ NextPage
  \/ \E x \in ScoreIds : ChangeScore(x)
  \/ \E s \in SurveyIds : CreateSurvey(s) \/ UpdateSurvey(s) \/ DeleteSurvey(s)
  \/ \E r \in ResponseIds : CreateSurveyResponse(r)
  \/ \E gone \in SUBSET Stored(responses) : DeleteSurveyResponses(gone)

Spec == Init /\ [][Next]_vars
-------------------------------------------------------------------------------
(* Properties.                                                             *)

\* The changes that can bring a document into a list, or towards its start.
Inserts(q) ==
  CASE q.of = "scores"      -> {"gain"}
    [] q.of = "responses"   -> {"answer"}
    [] q.completed = "yes"  -> {"create", "answer"}
    [] q.completed = "no"   -> {"create", "unanswer"}
    [] OTHER                -> {"create"}

\* Those that can take one out of a list, or towards its end.
Removes(q) ==
  CASE q.of = "scores"     -> {"loss"}
    [] q.of = "responses"  -> {"unanswer"}
    [] q.completed = "yes" -> {"delete", "unanswer"}
    [] OTHER               -> {"delete", "answer"}

\* Surveys have nothing to do with the list of the responses to them.
Neutral(q) == IF q.of = "responses" THEN {"create", "update", "delete"} ELSE {}

Listed(id) == \E i \in DOMAIN seen : seen[i].id = id

\* However many documents are stored between two pages, a client that has read all
\* pages has got every document that matched when it began, if no two documents
\* had to be ordered that the sort does not tell apart.
NothingMissed ==
  ended /\ ~tied /\ changes \subseteq Inserts(query) \cup Neutral(query)
    => \A id \in expected : Listed(id)

\* While surveys are deleted, or answered by the user who reads the list, no two
\* pages show the same document, but for one that was answered after it was shown
\* and has moved to the completed surveys.
NothingTwice ==
  ~tied /\ changes \subseteq Removes(query) \cup Neutral(query)
    => \A i, j \in DOMAIN seen :
         i # j /\ seen[i].id = seen[j].id => seen[i].key # seen[j].key

\* While surveys are deleted or answered, all pages together are in the order of
\* the list: no page shows what belongs before the pages that have been read.
PagesInOrder ==
  changes \subseteq Removes(query) \cup Neutral(query)
    => \A i, j \in DOMAIN seen : i < j => ~Precedes(seen[j].key, seen[i].key)
===============================================================================
