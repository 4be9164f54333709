-------------------------------- MODULE UserData --------------------------------
(***************************************************************************)
(* What a user's surveys, responses and score have to do with each other:  *)
(* GET /user-data, which two goroutines read from two collections at two   *)
(* moments (core/app_shared.go), and the type of a survey, which an update *)
(* may change, while each response keeps a copy of its survey and the      *)
(* score counts those to fashion quizzes (core/app_client.go).  The users  *)
(* answer one survey at a time; Scores has answers at the same time.       *)
(***************************************************************************)
EXTENDS Naturals, Documents

CONSTANTS
  Users,
  Me,          \* the user who reads, and whose score is looked at
  SurveyIds, ResponseIds,
  Quiz,        \* the type "fashion_quiz"
  UserType,    \* the type "user"
  NoType,      \* an empty type
  NoAnswer,    \* no response is being stored
  NoScore,     \* the user has no score yet
  NotRead,     \* a goroutine has not finished
  MaxWrites,   \* bound on the changes to surveys and responses
  MaxReads     \* bound on the requests for the user's data

Types == {Quiz, UserType}

\* The parts of a model.Survey and a model.SurveyResponse that matter here; type is
\* that of the response's copy of its survey.
Survey   == [creator : Users, type : Types]
Response == [user : Users, survey : SurveyIds, type : Types]

\* Documents as GET /user-data has them, and what a goroutine of it reads.
Document == (SurveyIds \X Survey) \cup (ResponseIds \X Response)
Reading  == [docs : SUBSET Document, failed : BOOLEAN]

ASSUME UserDataAssumption ==
  /\ Me \in Users
  /\ Quiz # UserType
  /\ MaxWrites \in Nat /\ MaxReads \in Nat
  /\ {Unborn, Gone} \cap (Survey \cup Response) = {}
  /\ NoAnswer \notin Response /\ \A ids \in SUBSET ResponseIds : ids # NoScore
  /\ NotRead \notin Reading

VARIABLES
  surveys, responses,
  writing,   \* the response that is being stored
  counted,   \* the responses that the score of Me counts
  reading,   \* where the request for the user's data is
  got,       \* what its goroutines have read
  writes, reads,
  \* For the properties only:
  kept,      \* the user's documents that have not changed since the request arrived
  had,       \* the user's documents at some time since then
  uncounted  \* responses to quizzes whose request failed before the score was stored

userDataVars ==
  <<surveys, responses, writing, counted, reading, got, writes, reads, kept, had, uncounted>>

Sources == {"surveys", "responses"}

\* The documents of a user, as an array of GET /user-data has them.
MySurveys(collection)   == {<<id, collection[id]>> : id \in
                             {s \in Stored(collection) : collection[s].creator = Me}}
MyResponses(collection) == {<<id, collection[id]>> : id \in
                             {r \in Stored(collection) : collection[r].user = Me}}
Mine(ss, rs) == MySurveys(ss) \cup MyResponses(rs)

UserDataTypeOK ==
  /\ surveys \in [SurveyIds -> Survey \cup {Unborn, Gone}]
  /\ responses \in [ResponseIds -> Response \cup {Unborn, Gone}]
  /\ writing \in Response \cup {NoAnswer}
  /\ counted = NoScore \/ counted \subseteq ResponseIds
  /\ reading \in {"idle", "at work", "answered", "refused"}
  /\ got \in [Sources -> Reading \cup {NotRead}]
  /\ kept \subseteq had /\ had \subseteq Document
  /\ uncounted \subseteq ResponseIds
  /\ writes \in 0..MaxWrites /\ reads \in 0..MaxReads

UserDataInit ==
  /\ surveys \in [SurveyIds -> Survey \cup {Unborn}]
  /\ responses = [r \in ResponseIds |-> Unborn]
  /\ writing = NoAnswer /\ counted = NoScore /\ uncounted = {}
  /\ reading = "idle" /\ got = [x \in Sources |-> NotRead]
  /\ kept = {} /\ had = {}
  /\ writes = 0 /\ reads = 0
-------------------------------------------------------------------------------
(* GET /user-data.                                                         *)

Unwritten == UNCHANGED <<surveys, responses, writing, counted, writes, uncounted>>

AskForData ==
  /\ reading # "at work"
  /\ reads < MaxReads /\ reads' = reads + 1
  /\ reading' = "at work" /\ got' = [x \in Sources |-> NotRead]
  /\ kept' = Mine(surveys, responses) /\ had' = kept'
  /\ Unwritten

Read(x, found) ==
  /\ reading = "at work" /\ got[x] = NotRead
  /\ got' = [got EXCEPT ![x] = found]
  /\ UNCHANGED <<reading, kept, had, reads>>
  /\ Unwritten

\* A mistake: the filter leaves out the creator.
AnyCreator == {<<s, surveys[s]>> : s \in Stored(surveys)}

\* The filter of GetSurveysLight.
OfCreator == MySurveys(surveys)

ReadSurveys   == Read("surveys", [docs |-> OfCreator, failed |-> FALSE])
ReadResponses == Read("responses", [docs |-> MyResponses(responses), failed |-> FALSE])
ReadFails(x)  == Read(x, [docs |-> {}, failed |-> TRUE])

\* A mistake: the error of the goroutine that reads the responses is dropped.
SurveysErrorOnly == got["surveys"].failed

\* surveysErr and responsesErr, both looked at after the wait.
AnyError == \E x \in Sources : got[x].failed

\* wg.Wait, and what getUserData does then.
Join ==
  /\ reading = "at work" /\ \A x \in Sources : got[x] # NotRead
  /\ reading' = IF AnyError THEN "refused" ELSE "answered"
  /\ UNCHANGED <<got, kept, had, reads>>
  /\ Unwritten
-------------------------------------------------------------------------------
(* Meanwhile.                                                              *)

\* Surveys and responses change, which the request may see or not.
Written ==
  /\ writes < MaxWrites /\ writes' = writes + 1
  /\ IF reading = "at work"
     THEN /\ kept' = kept \cap Mine(surveys', responses')
          /\ had' = had \cup Mine(surveys', responses')
     ELSE UNCHANGED <<kept, had>>
  /\ UNCHANGED <<reading, got, reads>>

\* The client API stores every survey as one of the type "user", and the admin API
\* one without a type.
TypeFor(api, type) == IF api = "client" \/ type = NoType THEN UserType ELSE type

CreateSurvey(s, creator, api, type) ==
  /\ s \in Free(surveys)
  /\ surveys' = [surveys EXCEPT ![s] = [creator |-> creator, type |-> TypeFor(api, type)]]
  /\ UNCHANGED <<responses, writing, counted, uncounted>>
  /\ Written

\* The $set of UpdateSurvey, for those whom Surveys lets update s.
UpdateSurvey(s, api, type) ==
  /\ s \in Stored(surveys)
  /\ surveys' = [surveys EXCEPT ![s].type = TypeFor(api, type)]
  /\ UNCHANGED <<responses, writing, counted, uncounted>>
  /\ Written

DeleteSurvey(s) ==
  /\ s \in Stored(surveys)
  /\ surveys' = [surveys EXCEPT ![s] = Gone]
  /\ UNCHANGED <<responses, writing, counted, uncounted>>
  /\ Written

\* createSurveyResponse reads the survey, and may then wait for the calendar.
BeginAnswer(u, s) ==
  /\ writing = NoAnswer
  /\ s \in Stored(surveys)
  /\ writing' = [user |-> u, survey |-> s, type |-> surveys[s].type]
  /\ UNCHANGED <<surveys, responses, counted, uncounted, writes, reading, got, reads, kept, had>>

\* A mistake: CreateScore goes by the type that each survey has now.
QuizzesNow(collection) ==
  {r \in Stored(collection) : /\ collection[r].user = Me
                              /\ collection[r].survey \in Stored(surveys)
                              /\ surveys[collection[r].survey].type = Quiz}

\* The responses that CreateScore replays: by survey.type, the type in their copy.
QuizAnswers(collection) ==
  {r \in Stored(collection) : collection[r].user = Me /\ collection[r].type = Quiz}

\* The score of Me when it has r as well, or if there is none, all that is stored.
CountedWith(r) == IF counted = NoScore THEN QuizAnswers(responses') ELSE counted \cup {r}

\* CreateSurveyResponse, and the score unless the request fails before it is stored.
StoreAnswer(r) ==
  /\ writing # NoAnswer
  /\ r \in Free(responses)
  /\ responses' = [responses EXCEPT ![r] = writing]
  /\ writing' = NoAnswer
  /\ \/ /\ writing.user = Me /\ writing.type = Quiz
        /\ counted' = CountedWith(r)
        /\ UNCHANGED uncounted
     \/ /\ writing.user = Me /\ writing.type = Quiz
        /\ uncounted' = IF counted = NoScore THEN uncounted ELSE uncounted \cup {r}
        /\ UNCHANGED counted
     \/ /\ writing.user # Me \/ writing.type # Quiz
        /\ UNCHANGED <<counted, uncounted>>
  /\ UNCHANGED surveys
  /\ Written

\* GET /score creates a score that is missing.
GetScore ==
  /\ counted = NoScore
  /\ counted' = QuizAnswers(responses)
  /\ UNCHANGED <<surveys, responses, writing, uncounted, writes, reading, got, reads, kept, had>>

\* DELETE /survey-responses, with and without filters by survey and by type; the
\* score stays as it is.
DeleteSurveyResponses(u, ids, types) ==
  LET gone == {r \in Stored(responses) : /\ responses[r].user = u
                                         /\ responses[r].survey \in ids
                                         /\ responses[r].type \in types}
  IN  /\ gone # {}
      /\ responses' = [r \in ResponseIds |-> IF r \in gone THEN Gone ELSE responses[r]]
      /\ UNCHANGED <<surveys, writing, counted, uncounted>>
      /\ Written
-------------------------------------------------------------------------------
UserDataNext ==
  \/ AskForData \/ ReadSurveys \/ ReadResponses \/ Join \/ GetScore
  \/ \E x \in Sources : ReadFails(x)
  \/ \E s \in SurveyIds :
       \/ DeleteSurvey(s)
       \/ \E u \in Users : BeginAnswer(u, s)
       \/ \E api \in {"client", "admin"}, type \in Types \cup {NoType} :
            UpdateSurvey(s, api, type) \/ \E u \in Users : CreateSurvey(s, u, api, type)
  \/ \E r \in ResponseIds : StoreAnswer(r)
  \/ \E u \in Users, ids \in SUBSET SurveyIds, types \in SUBSET Types :
       DeleteSurveyResponses(u, ids, types)

UserDataSpec == UserDataInit /\ [][UserDataNext]_userDataVars
-------------------------------------------------------------------------------
(* Properties.                                                             *)

Data == got["surveys"].docs \cup got["responses"].docs

\* The data of a user has every document of the user that did not change while the
\* request was at work, and none, and no version of one, that the user did not have
\* in that time, though the two collections are read at different moments and each
\* reading may fail.
DataIsCurrent == reading = "answered" => kept \subseteq Data /\ Data \subseteq had

\* The score counts, of the responses still stored, those that were given to a
\* fashion quiz and no others, whatever an update has made of the survey's type
\* before the response was stored or since, and whether the score was kept up to
\* date or made from the stored responses.
ScoreFollowsCopies ==
  counted # NoScore =>
    counted \cap Stored(responses) =
      {r \in Stored(responses) : responses[r].user = Me /\ responses[r].type = Quiz} \ uncounted
===============================================================================
