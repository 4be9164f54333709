-------------------------------- MODULE Scores --------------------------------
(***************************************************************************)
(* The leaderboard score of each user, as the request handlers maintain    *)
(* it: POST /survey-responses (CreateSurveyResponse) stores a response     *)
(* and then reads, changes and writes back the user's score document;      *)
(* GET /score (GetScore) creates the score by replaying all stored         *)
(* responses, or stores the profile id the client sent.  Every storage     *)
(* call is a step of its own, nothing joins them in a transaction, and     *)
(* any number of handlers run at once.                                     *)
(*                                                                         *)
(* A score document is abstracted to what its counters cannot show: how    *)
(* many times each response has been added to it.  A response is named by  *)
(* the request that made it (its ID is a fresh uuid).  What adding one     *)
(* response does to the numbers is module ScoreRules.                      *)
(***************************************************************************)
EXTENDS Naturals, FiniteSets

CONSTANTS
  Users,        \* users of one organisation and application
  Requests,     \* the requests served; a POST names the response it stores
  ProfileIds,   \* external profile ids, other than the empty one
  NoProfile,    \* the empty external profile id
  Absent,       \* no "external_profile_id" among the response's properties
  NoScore,      \* no score document
  Forms,        \* the contents of a request
  OneAtATime,   \* TRUE if each user waits for an answer before sending again
  MaxFaults     \* bound on failed storage calls and restarts

ASSUME ConstantsAssumption ==
  /\ OneAtATime \in BOOLEAN
  /\ MaxFaults \in Nat
  /\ IsFiniteSet(Requests)
  /\ NoProfile \notin ProfileIds /\ Absent \notin ProfileIds \cup {NoProfile}
  /\ NoScore \notin [profile : ProfileIds \cup {NoProfile},
                     counted : [Requests -> Nat]]
  /\ Forms \subseteq [user : Users, kind : {"post", "get"},
                      quiz : BOOLEAN,    \* is the survey a fashion quiz
                      stats : BOOLEAN,   \* did the client send SurveyStats
                      profile : ProfileIds \cup {NoProfile, Absent}]

VARIABLES
  pc,         \* where each request is
  form,       \* what each request carries, once it has started
  date,       \* the order of arrival: date_created of the response of a POST
  draft,      \* the score document each request is about to write
  responses,  \* collection survey_responses
  scores,     \* collection scores: at most one document per user
  faults      \* faults so far

vars == <<pc, form, date, draft, responses, scores, faults>>

Score == [profile : ProfileIds \cup {NoProfile}, counted : [Requests -> Nat]]

Working == {"insert", "getScore", "rebuild", "create", "update"}
Ended   == {"ok", "failed", "panicked", "crashed"}

TypeOK ==
  /\ pc \in [Requests -> {"idle"} \cup Working \cup Ended]
  /\ form \in [Requests -> Forms \cup {Absent}]
  /\ \A r \in Requests : pc[r] # "idle" => form[r] \in Forms
  /\ date \in [Requests -> Nat]
  /\ draft \in [Requests -> Score \cup {NoScore}]
  /\ \A r \in Requests : pc[r] \in {"create", "update"} => draft[r] \in Score
  /\ responses \subseteq Requests
  /\ \A r \in responses : pc[r] # "idle"
  /\ scores \in [Users -> Score \cup {NoScore}]
  /\ faults \in 0..MaxFaults

InFlight(u) == {r \in Requests : pc[r] \in Working /\ form[r].user = u}
IsPost(r)   == form[r].kind = "post"
-------------------------------------------------------------------------------
(* What the handlers compute from the documents they have read.            *)

\* A mistake: the filter on user_id is left out.
QuizResponsesOfAll(u) == {q \in responses : form[q].quiz}

\* The filter of GetSurveyResponses: the user's responses to fashion quizzes.
QuizResponses(u) ==
  {q \in responses : form[q].user = u /\ form[q].quiz}

\* Mistakes in UpdateScore: no test that the property exists, or a default of "".
AddResponseUntested(score, r) ==
  [score EXCEPT !.profile = form[r].profile, !.counted[r] = @ + 1]
AddResponseClearing(score, r) ==
  [profile |-> IF form[r].profile = Absent THEN NoProfile ELSE form[r].profile,
   counted |-> [score.counted EXCEPT ![r] = @ + 1]]

\* UpdateScore: add response r to a score document held in memory.
AddResponse(score, r) ==
  [profile |-> IF form[r].profile = Absent THEN score.profile
                                           ELSE form[r].profile,
   counted |-> [score.counted EXCEPT ![r] = @ + 1]]

\* CreateScore applies UpdateScore from the newest response to the oldest:
\* the oldest one that names a profile has the last word.
RebuiltProfiles(found, given) ==
  LET naming == {q \in found : form[q].profile # Absent}
  IN  IF naming = {} THEN {given}
      ELSE {form[q].profile : q \in {o \in naming :
                                       \A p \in naming : date[o] <= date[p]}}

\* A mistake: the loop starts at 1, so the newest response is left out.
RebuiltSkipsNewest(found, given) ==
  LET older == {q \in found : \E p \in found : date[q] < date[p]}
  IN  {[profile |-> given, counted |-> [q \in Requests |-> IF q \in older THEN 1 ELSE 0]]}

\* The score documents CreateScore may build from the responses it found.
Rebuilt(found, given) ==
  {[profile |-> id, counted |-> [q \in Requests |-> IF q \in found THEN 1 ELSE 0]] :
     id \in RebuiltProfiles(found, given)}

\* GetScore stores the client's profile id in a score that has none.
MissesProfile(score, r) ==
  score.profile = NoProfile /\ form[r].profile \in ProfileIds

WithProfile(score, r) == [score EXCEPT !.profile = form[r].profile]

HasScore(u) == scores[u] # NoScore

\* A mistake: the index is not unique, so a second insert replaces the score.
InsertableAlways(u) == TRUE

\* The unique index on (org_id, app_id, user_id) of collection scores.
Insertable(u) == ~ HasScore(u)

\* A mistake: the handler tries again after a failed call.
AfterErrorRetry(r) == "getScore"

\* Where an error of a storage call takes the request: the error is returned.
AfterError(r) == "failed"
-------------------------------------------------------------------------------
Init ==
  /\ pc = [r \in Requests |-> "idle"]
  /\ form = [r \in Requests |-> Absent]
  /\ date = [r \in Requests |-> 0]
  /\ draft = [r \in Requests |-> NoScore]
  /\ responses = {}
  /\ scores = [u \in Users |-> NoScore]
  /\ faults = 0

\* The request goes on to its next storage call, with a document to write or none.
GoOn(r, label, score) ==
  /\ pc' = [pc EXCEPT ![r] = label]
  /\ draft' = [draft EXCEPT ![r] = score]

\* The request ends, and what it held in memory is gone.
End(r, label) == GoOn(r, label, NoScore)

\* A request arrives.  A response gets its date_created now, before it is stored.
Start(r, f) ==
  /\ pc[r] = "idle"
  /\ OneAtATime => InFlight(f.user) = {}
  /\ form' = [form EXCEPT ![r] = f]
  /\ date' = [date EXCEPT ![r] = Cardinality({q \in Requests : pc[q] # "idle"})]
  /\ GoOn(r, IF f.kind = "post" THEN "insert" ELSE "getScore", NoScore)
  /\ UNCHANGED <<responses, scores, faults>>

\* CreateSurveyResponse finds no survey, or the user did not attend its event.
Reject(r) ==
  /\ pc[r] = "insert"
  /\ End(r, "failed")
  /\ UNCHANGED <<form, date, responses, scores, faults>>

InsertResponse(r) ==
  /\ pc[r] = "insert"
  /\ responses' = responses \cup {r}
  /\ GoOn(r, IF form[r].quiz THEN "getScore" ELSE "ok", NoScore)
  /\ UNCHANGED <<form, date, scores, faults>>

\* storage.GetScore finds no document: both handlers go on to CreateScore.
FindNoScore(r) ==
  /\ pc[r] = "getScore"
  /\ ~ HasScore(form[r].user)
  /\ GoOn(r, "rebuild", NoScore)
  /\ UNCHANGED <<form, date, responses, scores, faults>>

\* POST: storage.GetScore finds the document and UpdateScore changes the copy;
\* it dereferences SurveyStats, and panics if the client sent none.
FindScoreToUpdate(r) ==
  LET score == scores[form[r].user]
  IN  /\ pc[r] = "getScore" /\ IsPost(r)
      /\ HasScore(form[r].user)
      /\ IF form[r].stats
         THEN GoOn(r, "update", AddResponse(score, r))
         ELSE End(r, "panicked")
      /\ UNCHANGED <<form, date, responses, scores, faults>>

\* GET: the document is found, and written back if it lacks the profile id.
FindScoreToShow(r) ==
  LET score == scores[form[r].user]
  IN  /\ pc[r] = "getScore" /\ ~ IsPost(r)
      /\ HasScore(form[r].user)
      /\ IF MissesProfile(score, r)
         THEN GoOn(r, "update", WithProfile(score, r))
         ELSE End(r, "ok")
      /\ UNCHANGED <<form, date, responses, scores, faults>>

\* CreateScore reads the user's responses and adds them all to an empty score.
Rebuild(r) ==
  LET found == QuizResponses(form[r].user)
      given == IF IsPost(r) \/ form[r].profile = Absent THEN NoProfile
                                                        ELSE form[r].profile
  IN  /\ pc[r] = "rebuild"
      /\ IF \A q \in found : form[q].stats
         THEN \E score \in Rebuilt(found, given) : GoOn(r, "create", score)
         ELSE End(r, "panicked")
      /\ UNCHANGED <<form, date, responses, scores, faults>>

\* storage.CreateScore: the insert succeeds only if the user has no score yet.
\* GET then goes on to store the profile id if replay has cleared it.
CreateScore(r) ==
  /\ pc[r] = "create"
  /\ IF ~ Insertable(form[r].user)
     THEN End(r, AfterError(r)) /\ UNCHANGED scores
     ELSE /\ scores' = [scores EXCEPT ![form[r].user] = draft[r]]
          /\ IF ~ IsPost(r) /\ MissesProfile(draft[r], r)
             THEN GoOn(r, "update", WithProfile(draft[r], r))
             ELSE End(r, "ok")
  /\ UNCHANGED <<form, date, responses, faults>>

\* storage.UpdateScore sets every field of the document to the copy's value;
\* a write that modifies nothing (ModifiedCount 0) is reported as an error.
UpdateScore(r) ==
  /\ pc[r] = "update"
  /\ scores' = [scores EXCEPT ![form[r].user] = draft[r]]
  /\ End(r, IF draft[r] = scores[form[r].user] THEN AfterError(r) ELSE "ok")
  /\ UNCHANGED <<form, date, responses, faults>>

\* DELETE /survey-responses: one DeleteMany.  The score is left as it is.
DeleteResponses(u, chosen) ==
  /\ OneAtATime => InFlight(u) = {}
  /\ chosen # {} /\ chosen \subseteq {q \in responses : form[q].user = u}
  /\ responses' = responses \ chosen
  /\ UNCHANGED <<pc, form, date, draft, scores, faults>>
-------------------------------------------------------------------------------
(* Faults: a storage call that returns an error, applied or not, and the   *)
(* end of the process.                                                     *)

Spend == faults < MaxFaults /\ faults' = faults + 1

\* Any error of storage.GetScore is taken to mean that there is no score.
ReadScoreFails(r) ==
  /\ Spend
  /\ pc[r] = "getScore"
  /\ GoOn(r, "rebuild", NoScore)
  /\ UNCHANGED <<form, date, responses, scores>>

\* Any other storage call that fails ends the request; the write it asked for
\* may have been made all the same.
CallFails(r) ==
  /\ Spend
  /\ pc[r] \in {"insert", "rebuild", "create", "update"}
  /\ End(r, AfterError(r))
  /\ responses' \in {responses} \cup
       (IF pc[r] = "insert" THEN {responses \cup {r}} ELSE {})
  /\ scores' \in {scores} \cup
       (IF \/ pc[r] = "update"
           \/ pc[r] = "create" /\ Insertable(form[r].user)
        THEN {[scores EXCEPT ![form[r].user] = draft[r]]} ELSE {})
  /\ UNCHANGED <<form, date>>

\* The process stops: what was in flight is gone, what was stored remains.
Restart ==
  /\ Spend
  /\ \E r \in Requests : pc[r] \in Working
  /\ pc' = [r \in Requests |-> IF pc[r] \in Working THEN "crashed" ELSE pc[r]]
  /\ draft' = [r \in Requests |-> NoScore]
  /\ UNCHANGED <<form, date, responses, scores>>

Step(r) ==
  \/ Reject(r) \/ InsertResponse(r)
  \/ FindNoScore(r) \/ FindScoreToUpdate(r) \/ FindScoreToShow(r)
  \/ Rebuild(r) \/ CreateScore(r) \/ UpdateScore(r)
  \/ ReadScoreFails(r) \/ CallFails(r)

Next ==
  \/ \E r \in Requests : (\E f \in Forms : Start(r, f)) \/ Step(r)
  \/ \E u \in Users : \E chosen \in SUBSET responses : DeleteResponses(u, chosen)
  \/ Restart

Spec == Init /\ [][Next]_vars
-------------------------------------------------------------------------------
(* Properties.                                                             *)

Counts(u, r) == IF HasScore(u) THEN scores[u].counted[r] ELSE 0

\* A quiz response whose POST was answered with success.
AckedQuiz(r) == pc[r] = "ok" /\ IsPost(r) /\ form[r].quiz

\* However handlers interleave and fail, no response is added to a score more
\* than twice: once by the one replay whose insert wins, once by its own POST.
AtMostTwice == \A u \in Users, r \in Requests : Counts(u, r) <= 2

\* A score counts only the user's own fashion-quiz responses that have stats.
OwnQuizzesOnly ==
  \A u \in Users, r \in Requests :
    Counts(u, r) > 0 => /\ form[r] \in Forms /\ form[r].user = u
                        /\ IsPost(r) /\ form[r].quiz /\ form[r].stats

\* A POST that answers with success for a response that is still stored leaves
\* that response in the score document, whatever path it took to get there.
CountedWhenAcked ==
  [][\A r \in Requests :
       (~ AckedQuiz(r) /\ AckedQuiz(r)' /\ r \in responses')
         => Counts(form[r].user, r)' > 0]_vars

\* No response is added twice ("accumulated scores").  Holds when each user
\* sends one request at a time, even with failed calls and restarts.
NeverTwice == \A u \in Users, r \in Requests : Counts(u, r) <= 1

\* A quiz response answered with success is in the score, exactly once, for good.
AckedCountedOnce ==
  \A r \in Requests : AckedQuiz(r) => Counts(form[r].user, r) = 1

\* What has been added to a score is never taken out of it again.
NothingForgotten ==
  [][\A u \in Users, r \in Requests : Counts(u, r)' >= Counts(u, r)]_vars

\* "Score object maintains data of accumulated scores from surveys" (scores.go:34):
\* a stored quiz response whose POST succeeded has been added to the score, once.
\* It fails as soon as a user has two requests at work: one handler overwrites
\* what the other added, or adds what a replay had already found.
ScoreAccumulates ==
  \A r \in responses : AckedQuiz(r) => Counts(form[r].user, r) = 1

\* A score's profile id changes only to one that a response of the user names.
ProfileKept ==
  [][\A u \in Users :
       (HasScore(u) /\ scores[u].profile # NoProfile)
         => \/ scores'[u].profile = scores[u].profile
            \/ \E r \in InFlight(u) : IsPost(r) /\ form[r].profile = scores'[u].profile]_vars

\* Seen from outside, one-request-at-a-time handlers keep a tally of quizzes.
Tally == INSTANCE ScoreTally WITH
           Quizzes <- Requests,
           tally <- [u \in Users |-> {r \in Requests : Counts(u, r) = 1}],
           acked <- {r \in Requests : AckedQuiz(r)}
KeepsTally == Tally!Spec
===============================================================================
