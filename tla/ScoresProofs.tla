----------------------------- MODULE ScoresProofs -----------------------------
(***************************************************************************)
(* Proofs about module Scores, for every value of its constants.           *)
(***************************************************************************)
EXTENDS Scores, FiniteSetTheorems, TLAPS

\* A score document is a record, and not the mark of a missing one.
LEMMA ScoreShape ==
  ASSUME NEW s \in Score
  PROVE  /\ s.profile \in ProfileIds \cup {NoProfile}
         /\ s.counted \in [Requests -> Nat]
         /\ s # NoScore
BY ConstantsAssumption DEF Score

\* Adding a response to a score document gives a score document.
LEMMA AddResponseType ==
  ASSUME TypeOK, NEW r \in Requests, form[r] \in Forms, NEW s \in Score
  PROVE  AddResponse(s, r) \in Score
BY ScoreShape, ConstantsAssumption DEF AddResponse, Score

\* So does storing the profile id of a GET.
LEMMA WithProfileType ==
  ASSUME NEW r \in Requests, NEW s \in Score, MissesProfile(s, r)
  PROVE  WithProfile(s, r) \in Score
BY ScoreShape DEF WithProfile, MissesProfile, Score

\* And so does the replay of a user's stored responses.
LEMMA RebuiltType ==
  ASSUME TypeOK, NEW u \in Users, NEW given \in ProfileIds \cup {NoProfile},
         NEW s \in Rebuilt(QuizResponses(u), given)
  PROVE  s \in Score
<1>1. \A q \in QuizResponses(u) : form[q] \in Forms
  BY DEF QuizResponses, TypeOK
<1>2. RebuiltProfiles(QuizResponses(u), given) \subseteq ProfileIds \cup {NoProfile}
  BY <1>1, ConstantsAssumption DEF RebuiltProfiles
<1>3. [q \in Requests |-> IF q \in QuizResponses(u) THEN 1 ELSE 0] \in [Requests -> Nat]
  OBVIOUS
<1> QED
  BY <1>2, <1>3 DEF Rebuilt, Score

\* The order of arrival is a number.
LEMMA DateType ==
  Cardinality({q \in Requests : pc[q] # "idle"}) \in Nat
BY FS_Subset, FS_CardinalityType, ConstantsAssumption

\* The state of the score handlers always has its type.
THEOREM TypeCorrect == Spec => []TypeOK
<1>1. Init => TypeOK
  BY ConstantsAssumption DEF Init, TypeOK, Working, Ended
<1>2. TypeOK /\ [Next]_vars => TypeOK'
  <2> SUFFICES ASSUME TypeOK, [Next]_vars PROVE TypeOK'
    OBVIOUS
  <2> USE DEF TypeOK, Working, Ended
  <2>1. ASSUME NEW r \in Requests, NEW f \in Forms, Start(r, f) PROVE TypeOK'
    BY <2>1, DateType DEF Start, GoOn
  <2>2. ASSUME NEW r \in Requests, Reject(r) PROVE TypeOK'
    BY <2>2 DEF Reject, End, GoOn
  <2>3. ASSUME NEW r \in Requests, InsertResponse(r) PROVE TypeOK'
    BY <2>3 DEF InsertResponse, GoOn
  <2>4. ASSUME NEW r \in Requests, FindNoScore(r) PROVE TypeOK'
    BY <2>4 DEF FindNoScore, GoOn
  <2>5. ASSUME NEW r \in Requests, FindScoreToUpdate(r) PROVE TypeOK'
    <3>1. form[r] \in Forms /\ scores[form[r].user] \in Score
      BY <2>5, ConstantsAssumption DEF FindScoreToUpdate, HasScore
    <3>2. AddResponse(scores[form[r].user], r) \in Score
      BY <3>1, AddResponseType
    <3> QED BY <2>5, <3>2 DEF FindScoreToUpdate, GoOn, End
  <2>6. ASSUME NEW r \in Requests, FindScoreToShow(r) PROVE TypeOK'
    <3>1. form[r] \in Forms /\ scores[form[r].user] \in Score
      BY <2>6, ConstantsAssumption DEF FindScoreToShow, HasScore
    <3>2. MissesProfile(scores[form[r].user], r)
            => WithProfile(scores[form[r].user], r) \in Score
      BY <3>1, WithProfileType
    <3> QED BY <2>6, <3>2 DEF FindScoreToShow, GoOn, End
  <2>7. ASSUME NEW r \in Requests, Rebuild(r) PROVE TypeOK'
    <3> DEFINE u == form[r].user
               given == IF IsPost(r) \/ form[r].profile = Absent THEN NoProfile
                                                                 ELSE form[r].profile
    <3>1. form[r] \in Forms /\ u \in Users /\ given \in ProfileIds \cup {NoProfile}
      BY <2>7, ConstantsAssumption DEF Rebuild
    <3>2. \A s \in Rebuilt(QuizResponses(u), given) : s \in Score
      BY <3>1, RebuiltType
    <3> QED BY <2>7, <3>2 DEF Rebuild, GoOn, End
  <2>8. ASSUME NEW r \in Requests, CreateScore(r) PROVE TypeOK'
    <3>1. form[r].user \in Users
      BY <2>8, ConstantsAssumption DEF CreateScore
    <3>2. draft[r] \in Score
      BY <2>8 DEF CreateScore
    <3>3. MissesProfile(draft[r], r) => WithProfile(draft[r], r) \in Score
      BY <3>2, WithProfileType
    <3> QED
      BY <2>8, <3>1, <3>2, <3>3 DEF CreateScore, GoOn, End, AfterError
  <2>9. ASSUME NEW r \in Requests, UpdateScore(r) PROVE TypeOK'
    BY <2>9 DEF UpdateScore, GoOn, End, AfterError
  <2>10. ASSUME NEW r \in Requests, ReadScoreFails(r) PROVE TypeOK'
    BY <2>10, ConstantsAssumption DEF ReadScoreFails, GoOn, Spend
  <2>11. ASSUME NEW r \in Requests, CallFails(r) PROVE TypeOK'
    BY <2>11, ConstantsAssumption DEF CallFails, GoOn, End, AfterError, Spend
  <2>12. ASSUME NEW u \in Users, NEW chosen \in SUBSET responses,
                DeleteResponses(u, chosen)
         PROVE TypeOK'
    BY <2>12 DEF DeleteResponses
  <2>13. CASE Restart
    BY <2>13, ConstantsAssumption DEF Restart, Spend
  <2>14. CASE UNCHANGED vars
    BY <2>14 DEF vars
  <2> QED
    BY <2>1, <2>2, <2>3, <2>4, <2>5, <2>6, <2>7, <2>8, <2>9, <2>10, <2>11, <2>12,
       <2>13, <2>14 DEF Next, Step
<1> QED
  BY <1>1, <1>2, PTL DEF Spec

-------------------------------------------------------------------------------
(* Where the documents of a step come from.                                *)

\* Requests keep their contents, and move along the handlers' control flow.
Moves(r) ==
  \/ pc'[r] = pc[r]
  \/ /\ pc[r] = "idle" /\ pc'[r] = IF IsPost(r)' THEN "insert" ELSE "getScore"
     /\ OneAtATime => InFlight(form'[r].user) = {}
     /\ \A q \in Requests \ {r} : pc'[q] = pc[q]
  \/ /\ pc[r] = "insert" /\ pc'[r] = "getScore"
     /\ form[r].quiz /\ r \in responses'
  \/ pc[r] = "insert" /\ pc'[r] = "ok" /\ ~ form[r].quiz
  \/ pc[r] = "getScore" /\ pc'[r] \in {"rebuild", "update"}
  \/ pc[r] = "getScore" /\ pc'[r] = "ok" /\ ~ IsPost(r)
  \/ pc[r] = "rebuild" /\ pc'[r] = "create"
  \/ pc[r] = "create" /\ pc'[r] = "update" /\ ~ IsPost(r)
  \/ /\ pc[r] \in {"create", "update"} /\ pc'[r] = "ok"
     /\ scores'[form[r].user] = draft[r]
  \/ pc[r] \in Working /\ pc'[r] \in {"failed", "panicked", "crashed"}

\* In every step a request stays or goes on along Moves, with the form it came with.
LEMMA ControlFlow ==
  ASSUME TypeOK, [Next]_vars, NEW r \in Requests
  PROVE  Moves(r) /\ (pc[r] # "idle" => form'[r] = form[r])
<1> USE ConstantsAssumption DEF TypeOK, Working, Ended, GoOn, End, IsPost
<1> DEFINE Stays(q) == pc'[q] = pc[q] /\ form'[q] = form[q]
<1>1. ASSUME NEW q \in Requests, NEW f \in Forms, Start(q, f)
      PROVE  Moves(r) /\ (pc[r] # "idle" => form'[r] = form[r])
  BY <1>1 DEF Start, Moves
<1>2. ASSUME NEW q \in Requests, Step(q), q # r
      PROVE  Stays(r)
  BY <1>2 DEF Step, Reject, InsertResponse, FindNoScore, FindScoreToUpdate,
     FindScoreToShow, Rebuild, CreateScore, UpdateScore, ReadScoreFails, CallFails
<1>3. ASSUME Step(r)
      PROVE  Moves(r) /\ form' = form
  <2>1. CASE CreateScore(r) \/ UpdateScore(r)
    BY <2>1 DEF CreateScore, UpdateScore, AfterError, Moves
  <2>2. CASE CallFails(r) \/ ReadScoreFails(r)
    BY <2>2 DEF CallFails, ReadScoreFails, AfterError, Moves
  <2>3. CASE \/ Reject(r) \/ InsertResponse(r) \/ FindNoScore(r)
             \/ FindScoreToUpdate(r) \/ FindScoreToShow(r) \/ Rebuild(r)
    BY <2>3 DEF Reject, InsertResponse, FindNoScore, FindScoreToUpdate,
       FindScoreToShow, Rebuild, Moves
  <2> QED BY <1>3, <2>1, <2>2, <2>3 DEF Step
<1>4. CASE Restart
  BY <1>4 DEF Restart, Moves
<1>5. CASE UNCHANGED vars \/ \E u \in Users : \E chosen \in SUBSET responses :
                               DeleteResponses(u, chosen)
  BY <1>5 DEF vars, DeleteResponses, Moves
<1> QED
  BY <1>1, <1>2, <1>3, <1>4, <1>5 DEF Next, Moves

\* The collection of responses gains those of requests that insert them, and,
\* one request at a time, keeps those of requests at work.
LEMMA ResponseMoves ==
  ASSUME TypeOK, [Next]_vars, NEW r \in Requests
  PROVE  /\ (r \in responses' \ responses) => pc[r] = "insert"
         /\ (OneAtATime /\ r \in responses /\ pc[r] \in Working) => r \in responses'
<1>1. ASSUME NEW u \in Users, NEW chosen \in SUBSET responses,
             DeleteResponses(u, chosen)
      PROVE  /\ r \notin responses' \ responses
             /\ (OneAtATime /\ r \in responses /\ pc[r] \in Working) => r \in responses'
  BY <1>1 DEF DeleteResponses, InFlight
<1> QED
  BY <1>1 DEF Next, Step, Start, Reject, InsertResponse, FindNoScore, FindScoreToUpdate,
     FindScoreToShow, Rebuild, CreateScore, UpdateScore, ReadScoreFails, CallFails,
     Restart, vars

\* A document a request did not hold before comes from one of four places.
DraftOrigin(r) ==
  LET u == form[r].user
  IN  \/ draft'[r] = draft[r] /\ pc'[r] = pc[r]
      \/ /\ pc[r] = "create" /\ pc'[r] = "update" /\ ~ IsPost(r)
         /\ draft[r] \in Score /\ ~ HasScore(u) /\ scores'[u] = draft[r]
         /\ draft'[r].counted = draft[r].counted
      \/ /\ pc[r] = "getScore" /\ pc'[r] = "update" /\ ~ IsPost(r)
         /\ scores[u] \in Score /\ scores' = scores
         /\ draft'[r].counted = scores[u].counted
      \/ /\ pc[r] = "getScore" /\ pc'[r] = "update" /\ IsPost(r) /\ form[r].stats
         /\ scores[u] \in Score /\ scores' = scores
         /\ draft'[r].counted = [scores[u].counted EXCEPT ![r] = @ + 1]
      \/ /\ pc[r] = "rebuild" /\ pc'[r] = "create" /\ scores' = scores
         /\ \A q \in QuizResponses(u) : form[q].stats
         /\ draft'[r].counted = [q \in Requests |-> IF q \in QuizResponses(u) THEN 1 ELSE 0]

\* Whatever a request holds in memory after a step comes from where DraftOrigin says.
LEMMA DraftOrigins ==
  ASSUME TypeOK, [Next]_vars, NEW r \in Requests, draft'[r] \in Score
  PROVE  DraftOrigin(r)
<1> USE DEF TypeOK, GoOn, End, DraftOrigin
<1>0. NoScore \notin Score
  BY ScoreShape
<1>1. ASSUME NEW q \in Requests, Step(q), q # r PROVE DraftOrigin(r)
  BY <1>1 DEF Step, Reject, InsertResponse, FindNoScore, FindScoreToUpdate,
     FindScoreToShow, Rebuild, CreateScore, UpdateScore, ReadScoreFails, CallFails
<1>2. CASE FindScoreToUpdate(r)
  BY <1>0, <1>2, ConstantsAssumption DEF FindScoreToUpdate, HasScore, AddResponse
<1>3. CASE FindScoreToShow(r)
  <2>1. pc[r] = "getScore" /\ form[r] \in Forms /\ scores[form[r].user] \in Score
    BY <1>3, ConstantsAssumption DEF FindScoreToShow, HasScore
  <2>2. WithProfile(scores[form[r].user], r).counted = scores[form[r].user].counted
    BY <2>1 DEF WithProfile, Score
  <2> QED
    BY <1>0, <1>3, <2>1, <2>2 DEF FindScoreToShow
<1>4. CASE Rebuild(r)
  BY <1>0, <1>4 DEF Rebuild, Rebuilt
<1>5. CASE CreateScore(r)
  <2>1. form[r] \in Forms /\ draft[r] \in Score /\ form[r].user \in Users
    BY <1>5, ConstantsAssumption DEF CreateScore
  <2>2. WithProfile(draft[r], r).counted = draft[r].counted
    BY <2>1 DEF WithProfile, Score
  <2> QED
    BY <1>0, <1>5, <2>1, <2>2 DEF CreateScore, Insertable
<1>6. CASE \/ Reject(r) \/ InsertResponse(r) \/ FindNoScore(r) \/ UpdateScore(r)
           \/ ReadScoreFails(r) \/ CallFails(r) \/ Restart
           \/ \E q \in Requests, f \in Forms : Start(q, f)
           \/ \E u \in Users : \E chosen \in SUBSET responses : DeleteResponses(u, chosen)
           \/ UNCHANGED vars
  BY <1>0, <1>6 DEF Reject, InsertResponse, FindNoScore, UpdateScore, ReadScoreFails,
     CallFails, Restart, Start, DeleteResponses, vars
<1> QED
  BY <1>1, <1>2, <1>3, <1>4, <1>5, <1>6 DEF Next, Step

\* A score document changes only to the draft of a request of its user.
ScoreOrigin(u) ==
  \/ scores'[u] = scores[u]
  \/ \E r \in Requests :
       /\ form[r].user = u /\ draft[r] \in Score /\ scores'[u] = draft[r]
       /\ pc'[r] # pc[r]
       /\ \/ pc[r] = "update"
          \/ pc[r] = "create" /\ ~ HasScore(u)

\* A score changes only to the draft of a request of its user that moves.
LEMMA ScoreOrigins ==
  ASSUME TypeOK, [Next]_vars, NEW u \in Users
  PROVE  ScoreOrigin(u)
<1> USE DEF TypeOK, GoOn, End, ScoreOrigin
<1>1. ASSUME NEW r \in Requests, CreateScore(r) PROVE ScoreOrigin(u)
  BY <1>1, ConstantsAssumption DEF CreateScore, Insertable, AfterError
<1>2. ASSUME NEW r \in Requests, UpdateScore(r) PROVE ScoreOrigin(u)
  <2>1. pc[r] = "update" /\ pc'[r] # pc[r] /\ draft[r] \in Score
    BY <1>2 DEF UpdateScore, AfterError
  <2>2. scores'[u] = IF u = form[r].user THEN draft[r] ELSE scores[u]
    BY <1>2 DEF UpdateScore
  <2> QED BY <2>1, <2>2
<1>3. ASSUME NEW r \in Requests, CallFails(r) PROVE ScoreOrigin(u)
  <2>1. pc'[r] # pc[r]
    BY <1>3 DEF CallFails, AfterError
  <2>2. CASE scores' = scores
    BY <2>2
  <2>3. CASE /\ scores' = [scores EXCEPT ![form[r].user] = draft[r]]
             /\ \/ pc[r] = "update"
                \/ pc[r] = "create" /\ ~ HasScore(form[r].user)
    <3>1. scores'[u] = IF u = form[r].user THEN draft[r] ELSE scores[u]
      BY <2>3
    <3> QED BY <2>1, <2>3, <3>1
  <2> QED BY <1>3, <2>2, <2>3 DEF CallFails, Insertable
<1>4. CASE scores' = scores
  BY <1>4
<1> QED
  BY <1>1, <1>2, <1>3, <1>4 DEF Next, Step, Reject, InsertResponse, FindNoScore,
     FindScoreToUpdate, FindScoreToShow, Rebuild, ReadScoreFails, Restart, Start,
     DeleteResponses, vars
-------------------------------------------------------------------------------
(* At most twice.                                                          *)

\* A request that has not yet added its own response to a score.
Fresh(q) == pc[q] \in {"idle", "insert", "getScore", "rebuild", "create"}
Bound(q) == IF Fresh(q) THEN 1 ELSE 2

\* Every document, stored or held in memory, counts a response once at most
\* until the response's own request has added it, and twice at most after.
TwiceInv ==
  /\ \A u \in Users : scores[u] \in Score =>
       \A q \in Requests : scores[u].counted[q] <= Bound(q)
  /\ \A r \in Requests : draft[r] \in Score =>
       \A q \in Requests : draft[r].counted[q] <= Bound(q)

\* The bound on how often a response is counted is 1 or 2 and never shrinks.
LEMMA BoundGrows ==
  ASSUME TypeOK, [Next]_vars, NEW q \in Requests
  PROVE  Bound(q) \in 1..2 /\ Bound(q)' \in 1..2 /\ Bound(q) <= Bound(q)'
BY ControlFlow DEF Bound, Fresh, Moves, TypeOK, Working, Ended

\* Every step keeps TwiceInv.
LEMMA TwiceInvStep == TypeOK /\ TypeOK' /\ TwiceInv /\ [Next]_vars => TwiceInv'
<1> SUFFICES ASSUME TypeOK, TypeOK', TwiceInv, [Next]_vars PROVE TwiceInv'
  OBVIOUS
<1>1. ASSUME NEW u \in Users, scores'[u] \in Score, NEW q \in Requests
      PROVE  scores'[u].counted[q] <= Bound(q)'
  <2>1. scores'[u].counted[q] <= Bound(q)
    BY <1>1, ScoreOrigins DEF ScoreOrigin, TwiceInv
  <2>2. scores'[u].counted[q] \in Nat
    BY <1>1, ScoreShape
  <2> QED
    BY <2>1, <2>2, BoundGrows
<1>2. ASSUME NEW r \in Requests, draft'[r] \in Score, NEW q \in Requests
      PROVE  draft'[r].counted[q] <= Bound(q)'
  <2> DEFINE u == form[r].user
  <2>1. /\ draft'[r].counted \in [Requests -> Nat]
        /\ Bound(q) \in 1..2 /\ Bound(q)' \in 1..2 /\ Bound(q) <= Bound(q)'
    BY <1>2, ScoreShape, BoundGrows
  <2>2. DraftOrigin(r)
    BY <1>2, DraftOrigins
  <2>3. CASE \/ draft'[r] = draft[r]
             \/ draft[r] \in Score /\ draft'[r].counted = draft[r].counted
    BY <1>2, <2>1, <2>3 DEF TwiceInv
  <2>4. ASSUME pc[r] # "idle", scores[u] \in Score
        PROVE  u \in Users /\ scores[u].counted \in [Requests -> Nat]
               /\ scores[u].counted[q] <= Bound(q)
    BY <2>4, ScoreShape, ConstantsAssumption DEF TwiceInv, TypeOK
  <2>5. CASE /\ pc[r] = "getScore" /\ scores[u] \in Score
             /\ draft'[r].counted = scores[u].counted
    BY <2>1, <2>4, <2>5
  <2>6. CASE /\ pc[r] = "getScore" /\ pc'[r] = "update" /\ scores[u] \in Score
             /\ draft'[r].counted = [scores[u].counted EXCEPT ![r] = @ + 1]
    BY <2>1, <2>4, <2>6 DEF Bound, Fresh
  <2>7. CASE draft'[r].counted = [p \in Requests |-> IF p \in QuizResponses(u) THEN 1 ELSE 0]
    BY <2>1, <2>7
  <2> QED
    BY <2>2, <2>3, <2>5, <2>6, <2>7 DEF DraftOrigin
<1> QED
  BY <1>1, <1>2 DEF TwiceInv

\* However handlers interleave and fail, a score counts no response more than twice.
THEOREM CountedAtMostTwice == Spec => []AtMostTwice
<1>1. Init => TwiceInv
  BY ScoreShape, ConstantsAssumption DEF Init, TwiceInv
<1>2. TypeOK /\ TwiceInv => AtMostTwice
  BY ScoreShape DEF TypeOK, TwiceInv, AtMostTwice, Counts, HasScore, Bound
<1> QED
  BY <1>1, <1>2, TypeCorrect, TwiceInvStep, PTL DEF Spec
-------------------------------------------------------------------------------
(* Only the user's own quizzes.                                            *)

OwnQuiz(u, q) ==
  pc[q] # "idle" /\ form[q].user = u /\ IsPost(q) /\ form[q].quiz /\ form[q].stats

\* What a document counts, stored or in memory, is a quiz of its own user; what
\* is in the collection of responses came from a POST.
OwnInv ==
  /\ \A r \in Requests : r \in responses \/ pc[r] = "insert" => IsPost(r)
  /\ \A r \in Requests : pc[r] \in {"getScore", "rebuild", "create", "update"} /\ IsPost(r)
                          => form[r].quiz
  /\ \A u \in Users : scores[u] \in Score =>
       \A q \in Requests : scores[u].counted[q] > 0 => OwnQuiz(u, q)
  /\ \A r \in Requests : draft[r] \in Score =>
       \A q \in Requests : draft[r].counted[q] > 0 => OwnQuiz(form[r].user, q)

\* Drafts belong to requests that have started.
DraftInv == \A r \in Requests : pc[r] = "idle" => draft[r] = NoScore

\* A request that is a quiz of a user stays one.
LEMMA OwnQuizKept ==
  ASSUME TypeOK, [Next]_vars, NEW u, NEW q \in Requests, OwnQuiz(u, q)
  PROVE  OwnQuiz(u, q)'
BY ControlFlow DEF OwnQuiz, Moves, IsPost, Working, TypeOK

\* Every step keeps DraftInv.
LEMMA DraftInvStep == TypeOK /\ TypeOK' /\ DraftInv /\ [Next]_vars => DraftInv'
<1> SUFFICES ASSUME TypeOK, TypeOK', DraftInv, [Next]_vars, NEW r \in Requests, pc'[r] = "idle"
             PROVE  draft'[r] = NoScore
  BY DEF DraftInv
<1>1. pc[r] = "idle" /\ draft[r] = NoScore
  BY ControlFlow DEF Moves, DraftInv
<1>2. draft'[r] \notin Score
  BY <1>1, DraftOrigins, ScoreShape DEF DraftOrigin
<1>3. draft'[r] \in Score \cup {NoScore}
  BY DEF TypeOK
<1> QED
  BY <1>2, <1>3

\* Every step keeps OwnInv.
LEMMA OwnInvStep ==
  TypeOK /\ TypeOK' /\ DraftInv /\ OwnInv /\ [Next]_vars => OwnInv'
<1> SUFFICES ASSUME TypeOK, TypeOK', DraftInv, OwnInv, [Next]_vars PROVE OwnInv'
  OBVIOUS
<1>1. ASSUME NEW r \in Requests, r \in responses' \/ pc'[r] = "insert"
      PROVE  IsPost(r)'
  BY <1>1, ControlFlow, ResponseMoves DEF OwnInv, Moves, IsPost, TypeOK
<1>2. ASSUME NEW r \in Requests, IsPost(r)',
             pc'[r] \in {"getScore", "rebuild", "create", "update"}
      PROVE  form'[r].quiz
  BY <1>2, ControlFlow DEF OwnInv, Moves, IsPost, Working
<1>3. ASSUME NEW u \in Users, scores'[u] \in Score, NEW q \in Requests,
             scores'[u].counted[q] > 0
      PROVE  OwnQuiz(u, q)'
  <2>1. OwnQuiz(u, q)
    BY <1>3, ScoreOrigins DEF ScoreOrigin, OwnInv
  <2> QED
    BY <2>1, OwnQuizKept
<1>4. ASSUME NEW r \in Requests, draft'[r] \in Score, NEW q \in Requests,
             draft'[r].counted[q] > 0
      PROVE  OwnQuiz(form[r].user, q)' /\ form'[r] = form[r]
  <2> DEFINE u == form[r].user
  <2>1. DraftOrigin(r) /\ draft'[r].counted \in [Requests -> Nat]
    BY <1>4, DraftOrigins, ScoreShape
  <2>2. pc[r] # "idle" /\ form[r] \in Forms /\ u \in Users /\ form'[r] = form[r]
    BY <1>4, <2>1, ControlFlow, ScoreShape, ConstantsAssumption
       DEF DraftInv, DraftOrigin, TypeOK
  <2>3. CASE \/ draft'[r] = draft[r]
             \/ draft[r] \in Score /\ draft'[r].counted = draft[r].counted
    BY <1>4, <2>2, <2>3, OwnQuizKept DEF OwnInv
  <2>4. CASE scores[u] \in Score /\ draft'[r].counted = scores[u].counted
    BY <1>4, <2>2, <2>4, OwnQuizKept DEF OwnInv
  <2>5. CASE /\ pc[r] = "getScore" /\ IsPost(r) /\ form[r].stats /\ scores[u] \in Score
             /\ draft'[r].counted = [scores[u].counted EXCEPT ![r] = @ + 1]
    <3>1. scores[u].counted \in [Requests -> Nat]
      BY <2>5, ScoreShape
    <3>2. OwnQuiz(u, q)
      BY <1>4, <2>2, <2>5, <3>1 DEF OwnInv, OwnQuiz
    <3> QED BY <2>2, <3>2, OwnQuizKept
  <2>6. CASE /\ \A p \in QuizResponses(u) : form[p].stats
             /\ draft'[r].counted = [p \in Requests |-> IF p \in QuizResponses(u) THEN 1 ELSE 0]
    <3>1. q \in QuizResponses(u)
      BY <1>4, <2>6
    <3>2. OwnQuiz(u, q)
      BY <2>6, <3>1 DEF QuizResponses, OwnQuiz, OwnInv, TypeOK
    <3> QED BY <2>2, <3>2, OwnQuizKept
  <2> QED
    BY <2>1, <2>3, <2>4, <2>5, <2>6 DEF DraftOrigin
<1> QED
  BY <1>1, <1>2, <1>3, <1>4 DEF OwnInv

\* A score counts nothing but fashion-quiz responses of its own user.
THEOREM CountsOwnQuizzesOnly == Spec => []OwnQuizzesOnly
<1>1. Init => OwnInv /\ DraftInv
  BY ScoreShape, ConstantsAssumption DEF Init, OwnInv, DraftInv
<1>2. TypeOK /\ OwnInv => OwnQuizzesOnly
  BY ScoreShape DEF TypeOK, OwnInv, OwnQuiz, OwnQuizzesOnly, Counts, HasScore
<1> QED
  BY <1>1, <1>2, TypeCorrect, DraftInvStep, OwnInvStep, PTL DEF Spec
-------------------------------------------------------------------------------
(* One request at a time.                                                  *)

\* What a request at work holds, given that no other of its user is at work:
\* a replay of the responses, or the stored score and at most its own response.
DraftIsCurrent(r) ==
  LET u == form[r].user
  IN  /\ pc[r] = "create" => /\ \A q \in Requests : draft[r].counted[q] <= 1
                             /\ IsPost(r) => draft[r].counted[r] = 1
      /\ pc[r] = "update" => /\ scores[u] \in Score
                             /\ draft[r].counted =
                                  IF IsPost(r) THEN [scores[u].counted EXCEPT ![r] = @ + 1]
                                               ELSE scores[u].counted

SerialInv ==
  /\ \A r, q \in Requests :
       /\ pc[r] \in Working /\ pc[q] \in Working
       /\ form[r].user = form[q].user
       => r = q
  /\ \A r \in Requests : pc[r] \in {"getScore", "rebuild"} /\ IsPost(r) => r \in responses
  /\ \A r \in Requests, u \in Users : pc[r] \in Working => Counts(u, r) = 0
  /\ \A r \in Requests : DraftIsCurrent(r)
  /\ NeverTwice
  /\ AckedCountedOnce

\* What the other invariants give about every state.
Known == TypeOK /\ DraftInv /\ OwnInv

\* A score counts a response a natural number of times.
LEMMA CountsType ==
  ASSUME TypeOK, NEW u \in Users, NEW q \in Requests
  PROVE  Counts(u, q) \in Nat
BY ScoreShape DEF TypeOK, Counts, HasScore

\* The same in the next state.
LEMMA CountsTypeNext ==
  ASSUME TypeOK', NEW u \in Users, NEW q \in Requests
  PROVE  Counts(u, q)' \in Nat
BY ScoreShape DEF TypeOK, Counts, HasScore

\* A response that is counted is a quiz of the score's user, and the score exists.
LEMMA CountsOfOwner ==
  ASSUME Known, NEW u \in Users, NEW q \in Requests, Counts(u, q) # 0
  PROVE  OwnQuiz(u, q) /\ scores[u] \in Score /\ Counts(u, q) = scores[u].counted[q]
BY ScoreShape, CountsType DEF Known, OwnInv, TypeOK, Counts, HasScore

\* The same, in part, in the next state.
LEMMA CountsOfOwnerNext ==
  ASSUME Known', NEW u \in Users, NEW q \in Requests, Counts(u, q)' = 1
  PROVE  OwnQuiz(u, q)'
BY ScoreShape DEF Known, OwnInv, TypeOK, Counts, HasScore

\* A request at work, as long as it stays where it is, is the only one that
\* could have changed its user's score: the score does not change.
LEMMA ScoreOfWorking ==
  ASSUME Known, SerialInv, [Next]_vars, NEW r \in Requests,
         pc[r] \in Working, pc'[r] = pc[r]
  PROVE  scores'[form[r].user] = scores[form[r].user]
<1>1. form[r].user \in Users
  BY ConstantsAssumption DEF Known, TypeOK, Working
<1> QED
  BY <1>1, ScoreOrigins DEF ScoreOrigin, SerialInv, Working, Known

\* One request at a time: a step leaves no two requests of a user at work.
LEMMA AloneStep ==
  ASSUME OneAtATime, Known, SerialInv, [Next]_vars,
         NEW r \in Requests, NEW q \in Requests,
         pc'[r] \in Working, pc'[q] \in Working, form'[r].user = form'[q].user
  PROVE  r = q
<1>1. ASSUME NEW a \in Requests, NEW b \in Requests, a # b, pc[a] = "idle",
             pc'[a] \in Working, pc'[b] \in Working, form'[a].user = form'[b].user
      PROVE  FALSE
  <2>1. /\ InFlight(form'[a].user) = {} /\ pc'[b] = pc[b]
    BY <1>1, ControlFlow DEF Moves, Working, Known
  <2>2. form'[b] = form[b]
    BY <1>1, <2>1, ControlFlow DEF Working, Known
  <2> QED
    BY <1>1, <2>1, <2>2 DEF InFlight
<1>2. CASE pc[r] # "idle" /\ pc[q] # "idle"
  BY <1>2, ControlFlow DEF Moves, Working, Known, SerialInv
<1> QED
  BY <1>1, <1>2

\* In a step, a score changes only to the current draft of the one request of
\* its user that is at work, which that step moves.
LEMMA ScoreStep ==
  ASSUME Known, SerialInv, [Next]_vars, NEW u \in Users, scores'[u] # scores[u]
  PROVE  \E r \in Requests :
           /\ form[r].user = u /\ pc[r] \in {"create", "update"} /\ pc'[r] # pc[r]
           /\ draft[r] \in Score /\ scores'[u] = draft[r]
           /\ \A q \in Requests : Counts(u, q)' = draft[r].counted[q]
           /\ pc[r] = "create" => \A q \in Requests : Counts(u, q) = 0
           /\ pc[r] = "update" =>
                /\ Counts(u, r) = 0
                /\ \A q \in Requests :
                     draft[r].counted[q] =
                       IF q = r /\ IsPost(r) THEN 1 ELSE Counts(u, q)
<1>1. PICK r \in Requests :
        /\ form[r].user = u /\ draft[r] \in Score /\ scores'[u] = draft[r]
        /\ pc'[r] # pc[r]
        /\ \/ pc[r] = "update"
           \/ pc[r] = "create" /\ ~ HasScore(u)
  BY ScoreOrigins DEF ScoreOrigin, Known
<1>2. \A q \in Requests : Counts(u, q)' = draft[r].counted[q]
  BY <1>1, ScoreShape DEF Counts, HasScore
<1>3. pc[r] = "create" => \A q \in Requests : Counts(u, q) = 0
  BY <1>1 DEF Counts
<1>4. ASSUME pc[r] = "update"
      PROVE  /\ Counts(u, r) = 0
             /\ \A q \in Requests :
                  draft[r].counted[q] = IF q = r /\ IsPost(r) THEN 1 ELSE Counts(u, q)
  <2>1. Counts(u, r) = 0 /\ DraftIsCurrent(r)
    BY <1>1, <1>4 DEF SerialInv, Working
  <2>2. scores[u] \in Score /\ scores[u].counted \in [Requests -> Nat] /\ HasScore(u)
    BY <1>1, <1>4, <2>1, ScoreShape DEF DraftIsCurrent, HasScore
  <2> QED
    BY <1>1, <1>4, <2>1, <2>2 DEF DraftIsCurrent, Counts
<1> QED
  BY <1>1, <1>2, <1>3, <1>4

\* One request at a time: no score counts a request that is still at work.
LEMMA NotCountedStep ==
  ASSUME OneAtATime, Known, SerialInv, [Next]_vars,
         NEW q \in Requests, NEW u \in Users, pc'[q] \in Working
  PROVE  Counts(u, q)' = 0
<1>1. Counts(u, q) = 0
  <2>1. CASE pc[q] = "idle"
    BY <2>1, CountsOfOwner DEF OwnQuiz
  <2>2. CASE pc[q] \in Working
    BY <2>2 DEF SerialInv
  <2> QED
    BY <2>1, <2>2, ControlFlow DEF Moves, Working, Known
<1>2. CASE scores'[u] = scores[u]
  BY <1>1, <1>2 DEF Counts, HasScore
<1>3. CASE scores'[u] # scores[u]
  <2>1. PICK r \in Requests :
          /\ form[r].user = u /\ pc[r] \in {"create", "update"} /\ pc'[r] # pc[r]
          /\ draft[r] \in Score
          /\ Counts(u, q)' = draft[r].counted[q]
          /\ pc[r] = "update" =>
               draft[r].counted[q] = IF q = r /\ IsPost(r) THEN 1 ELSE Counts(u, q)
    BY <1>3, ScoreStep
  <2>2. CASE q = r
    <3>1. pc[r] = "create" /\ ~ IsPost(r)
      BY <2>1, <2>2, ControlFlow DEF Moves, Working, Known
    <3>2. ~ draft[r].counted[r] > 0
      BY <2>1, <3>1 DEF Known, OwnInv, OwnQuiz
    <3> QED
      BY <2>1, <2>2, <3>2, ScoreShape
  <2>3. CASE q # r
    <3>1. ~ OwnQuiz(u, q)
      <4>1. CASE pc[q] = "idle"
        BY <4>1 DEF OwnQuiz
      <4>2. CASE pc[q] \in Working
        BY <2>1, <2>3, <4>2 DEF OwnQuiz, SerialInv, Working
      <4> QED
        BY <4>1, <4>2, ControlFlow DEF Moves, Working, Known
    <3>2. ~ draft[r].counted[q] > 0
      BY <2>1, <3>1 DEF Known, OwnInv
    <3> QED
      BY <2>1, <3>2, ScoreShape
  <2> QED
    BY <2>2, <2>3
<1> QED
  BY <1>2, <1>3

\* One request at a time: what a request is about to write stays up to date.
LEMMA DraftCurrentStep ==
  ASSUME OneAtATime, Known, Known', SerialInv, [Next]_vars, NEW r \in Requests
  PROVE  DraftIsCurrent(r)'
<1> DEFINE u == form[r].user
<1> SUFFICES ASSUME pc'[r] \in {"create", "update"}
             PROVE  DraftIsCurrent(r)'
  BY DEF DraftIsCurrent
<1>1. /\ pc[r] # "idle" /\ form'[r] = form[r] /\ u \in Users
      /\ draft'[r] \in Score /\ DraftOrigin(r)
  BY ControlFlow, DraftOrigins, ConstantsAssumption DEF Moves, Known, TypeOK, Working
<1>2. CASE draft'[r] = draft[r] /\ pc'[r] = pc[r]
  <2>1. scores'[u] = scores[u]
    BY <1>2, ScoreOfWorking DEF Working
  <2> QED
    BY <1>1, <1>2, <2>1 DEF SerialInv, DraftIsCurrent, IsPost
<1>3. CASE pc[r] = "create" /\ pc'[r] = "update" /\ ~ IsPost(r) /\ draft[r] \in Score
           /\ scores'[u] = draft[r] /\ draft'[r].counted = draft[r].counted
  <2>1. ~ IsPost(r)' /\ scores'[u] \in Score /\ form'[r].user = u
    BY <1>1, <1>3 DEF IsPost
  <2> QED
    BY <1>1, <1>3, <2>1 DEF DraftIsCurrent
<1>4. CASE pc'[r] = "update" /\ scores[u] \in Score /\ scores' = scores
           /\ draft'[r].counted = IF IsPost(r) THEN [scores[u].counted EXCEPT ![r] = @ + 1]
                                               ELSE scores[u].counted
  BY <1>1, <1>4 DEF DraftIsCurrent, IsPost
<1>5. CASE /\ pc[r] = "rebuild" /\ pc'[r] = "create"
           /\ draft'[r].counted = [q \in Requests |-> IF q \in QuizResponses(u) THEN 1 ELSE 0]
  <2>1. IsPost(r) => r \in QuizResponses(u)
    BY <1>5 DEF SerialInv, Known, OwnInv, QuizResponses
  <2> QED
    BY <1>1, <1>5, <2>1 DEF DraftIsCurrent, IsPost
<1> QED
  BY <1>1, <1>2, <1>3, <1>4, <1>5 DEF DraftOrigin

\* One request at a time: every step keeps SerialInv.
LEMMA SerialInvStep ==
  ASSUME OneAtATime, Known, Known', SerialInv, [Next]_vars
  PROVE  SerialInv'
<1>1. ASSUME NEW r \in Requests, pc'[r] \in {"getScore", "rebuild"}, IsPost(r)'
      PROVE  r \in responses'
  BY <1>1, ControlFlow, ResponseMoves DEF Moves, Known, SerialInv, Working, IsPost
<1>2. ASSUME NEW u \in Users, NEW q \in Requests
      PROVE  Counts(u, q)' <= 1
  <2>1. CASE scores'[u] = scores[u]
    BY <2>1 DEF SerialInv, NeverTwice, Counts, HasScore
  <2>2. CASE scores'[u] # scores[u]
    <3>1. PICK r \in Requests :
            /\ pc[r] \in {"create", "update"}
            /\ Counts(u, q)' = draft[r].counted[q]
            /\ pc[r] = "update" =>
                 draft[r].counted[q] = IF q = r /\ IsPost(r) THEN 1 ELSE Counts(u, q)
      BY <2>2, ScoreStep
    <3>2. Counts(u, q) <= 1 /\ DraftIsCurrent(r)
      BY <3>1 DEF SerialInv, NeverTwice
    <3> QED
      BY <3>1, <3>2 DEF DraftIsCurrent
  <2> QED
    BY <2>1, <2>2
<1>3. ASSUME NEW q \in Requests, AckedQuiz(q)'
      PROVE  Counts(form[q].user, q)' = 1
  <2>1. /\ form'[q] = form[q] /\ form[q].user \in Users
        /\ IsPost(q) /\ form[q].quiz /\ Moves(q)
    BY <1>3, ControlFlow, ConstantsAssumption
       DEF AckedQuiz, IsPost, Moves, Known, TypeOK, Working
  <2>2. PICK u \in Users : u = form[q].user /\ u = form'[q].user
    BY <2>1
  <2>3. CASE pc[q] = "ok"
    <3>1. Counts(u, q) = 1
      BY <2>1, <2>2, <2>3 DEF SerialInv, AckedCountedOnce, AckedQuiz
    <3>2. CASE scores'[u] = scores[u]
      BY <2>2, <3>1, <3>2 DEF Counts, HasScore
    <3>3. CASE scores'[u] # scores[u]
      BY <2>2, <2>3, <3>1, <3>3, ScoreStep
    <3> QED
      BY <3>2, <3>3
  <2>4. CASE pc[q] # "ok"
    <3>1. pc[q] \in {"create", "update"} /\ scores'[u] = draft[q]
      BY <1>3, <2>1, <2>2, <2>4 DEF Moves, AckedQuiz, Working
    <3>2. /\ draft[q] \in Score /\ Counts(u, q) = 0 /\ DraftIsCurrent(q)
      BY <3>1 DEF SerialInv, Known, TypeOK, Working
    <3>3. Counts(u, q)' = draft[q].counted[q]
      BY <3>1, <3>2, ScoreShape DEF Counts, HasScore
    <3>4. pc[q] = "update" => draft[q].counted[q] = Counts(u, q) + 1
      BY <2>1, <2>2, <3>2, ScoreShape DEF DraftIsCurrent, Counts, HasScore
    <3> QED
      BY <2>1, <2>2, <3>1, <3>2, <3>3, <3>4 DEF DraftIsCurrent
  <2> QED
    BY <2>3, <2>4
<1> QED
  BY <1>1, <1>2, <1>3, AloneStep, NotCountedStep, DraftCurrentStep
     DEF SerialInv, NeverTwice, AckedCountedOnce

\* One request at a time: SerialInv is an invariant, along with all it rests on.
LEMMA SerialInvariance ==
  ASSUME OneAtATime
  PROVE  Spec => [](Known /\ SerialInv)
<1>1. Init => TypeOK /\ DraftInv /\ OwnInv
  BY ScoreShape, ConstantsAssumption DEF Init, OwnInv, DraftInv, TypeOK, Working, Ended
<1>2. Init => SerialInv
  BY DEF Init, SerialInv, Working, NeverTwice, AckedCountedOnce, AckedQuiz, Counts,
     HasScore, DraftIsCurrent
<1>3. Known /\ TypeOK' /\ [Next]_vars => Known'
  BY DraftInvStep, OwnInvStep DEF Known
<1>4. Known /\ Known' /\ SerialInv /\ [Next]_vars => SerialInv'
  BY SerialInvStep
<1> QED
  BY <1>1, <1>2, <1>3, <1>4, TypeCorrect, PTL DEF Spec, Known

\* When each user waits for an answer before sending again, no failed call and
\* no restart makes a score count a response twice.
THEOREM SerialCountsOnce ==
  ASSUME OneAtATime
  PROVE  Spec => []NeverTwice
BY SerialInvariance, PTL DEF SerialInv

\* And a response whose POST was answered with success is counted for good.
THEOREM SerialKeepsAcked ==
  ASSUME OneAtATime
  PROVE  Spec => []AckedCountedOnce
BY SerialInvariance, PTL DEF SerialInv

\* One request at a time: no step takes a response out of a score.
LEMMA CountsGrow ==
  ASSUME OneAtATime, Known, SerialInv, [Next]_vars, NEW u \in Users, NEW q \in Requests
  PROVE  Counts(u, q)' >= Counts(u, q)
<1>1. CASE scores'[u] = scores[u]
  BY <1>1, CountsType DEF Counts, HasScore, Known
<1>2. CASE scores'[u] # scores[u]
  BY <1>2, ScoreStep, ScoreShape, CountsType DEF Known
<1> QED
  BY <1>1, <1>2

\* A score never loses a response it has counted.
THEOREM SerialForgetsNothing ==
  ASSUME OneAtATime
  PROVE  Spec => NothingForgotten
<1>1. Known /\ SerialInv /\ [Next]_vars
        => \A u \in Users, r \in Requests : Counts(u, r)' >= Counts(u, r)
  BY CountsGrow
<1> QED
  BY <1>1, SerialInvariance, PTL DEF Spec, NothingForgotten
-------------------------------------------------------------------------------
(* The refinement: one request at a time, scores are tallies.              *)

TallyOf(u) == {r \in Requests : Counts(u, r) = 1}
AckedSet   == {r \in Requests : AckedQuiz(r)}

\* A step changes the score of at most one user.
LEMMA OneScoreChanges ==
  ASSUME TypeOK, [Next]_vars, NEW u \in Users, NEW v \in Users,
         scores'[u] # scores[u], scores'[v] # scores[v]
  PROVE  u = v
<1> USE DEF TypeOK
<1>1. ASSUME NEW r \in Requests, CreateScore(r) \/ UpdateScore(r) \/ CallFails(r)
      PROVE  u = v
  BY <1>1 DEF CreateScore, UpdateScore, CallFails
<1>2. CASE scores' = scores
  BY <1>2
<1> QED
  BY <1>1, <1>2 DEF Next, Step, Reject, InsertResponse, FindNoScore,
     FindScoreToUpdate, FindScoreToShow, Rebuild, ReadScoreFails, Restart, Start,
     DeleteResponses, vars

\* A response that has been acknowledged stays so.
LEMMA AckedStays ==
  ASSUME TypeOK, [Next]_vars
  PROVE  AckedSet \subseteq AckedSet'
BY ControlFlow DEF AckedSet, AckedQuiz, IsPost, Moves, Working

\* One request at a time: every step is one of ScoreTally, or none.
LEMMA TallyStep ==
  ASSUME OneAtATime, Known, Known', SerialInv, SerialInv', [Next]_vars
  PROVE  [Tally!Next]_<<[u \in Users |-> TallyOf(u)], AckedSet>>
<1> DEFINE tally == [u \in Users |-> TallyOf(u)]
           Record(u, new, ack) ==
             /\ new \cap UNION {tally[v] : v \in Users} = {}
             /\ tally' = [tally EXCEPT ![u] = @ \cup new]
             /\ ack \subseteq (UNION {tally[v] : v \in Users}) \cup new
             /\ AckedSet' = AckedSet \cup ack
<1>1. AckedSet \subseteq AckedSet' /\ AckedSet' \in SUBSET Requests
  BY AckedStays DEF Known, AckedSet
<1>2. AckedSet' \subseteq UNION {tally'[v] : v \in Users}
  <2> SUFFICES ASSUME NEW r \in Requests, AckedQuiz(r)'
               PROVE  \E v \in Users : r \in TallyOf(v)'
    BY DEF AckedSet
  <2>1. Counts(form[r].user, r)' = 1
    BY DEF SerialInv, AckedCountedOnce
  <2>2. PICK v \in Users : v = form'[r].user
    BY ConstantsAssumption DEF Known, TypeOK, AckedQuiz
  <2> QED
    BY <2>1, <2>2 DEF TallyOf, Counts, HasScore
<1>3. \A u \in Users : scores'[u] = scores[u] => TallyOf(u)' = TallyOf(u)
  BY DEF TallyOf, Counts, HasScore
<1>4. ASSUME NEW u \in Users, \A v \in Users \ {u} : scores'[v] = scores[v]
      PROVE  \E new, ack \in SUBSET Requests : Record(u, new, ack)
  <2> DEFINE new == TallyOf(u)' \ TallyOf(u)
  <2>1. TallyOf(u) \subseteq TallyOf(u)'
    <3> SUFFICES ASSUME NEW r \in Requests, Counts(u, r) = 1
                 PROVE  Counts(u, r)' = 1
      BY DEF TallyOf
    <3>1. Counts(u, r)' >= 1 /\ Counts(u, r)' <= 1
      BY CountsGrow DEF SerialInv, NeverTwice
    <3>2. Counts(u, r)' \in Nat
      BY CountsTypeNext DEF Known
    <3> QED
      BY <3>1, <3>2
  <2>2. tally' = [tally EXCEPT ![u] = @ \cup new]
    BY <1>3, <1>4, <2>1
  <2>3. ASSUME NEW r \in new, NEW v \in Users, r \in tally[v]
        PROVE  FALSE
    <3>1. r \in Requests /\ Counts(v, r) = 1 /\ Counts(u, r) # 1 /\ Counts(u, r)' = 1
      BY <2>3 DEF TallyOf
    <3>2. OwnQuiz(v, r) /\ OwnQuiz(u, r)'
      BY <3>1, CountsOfOwner, CountsOfOwnerNext
    <3> QED
      BY <3>1, <3>2, ControlFlow DEF OwnQuiz, Known
  <2>4. AckedSet' \subseteq (UNION {tally[v] : v \in Users}) \cup new
    <3> SUFFICES ASSUME NEW e \in AckedSet'
                 PROVE  e \in new \/ \E v \in Users : e \in tally[v]
      OBVIOUS
    <3>1. PICK v \in Users : e \in tally'[v]
      BY <1>2
    <3>2. tally'[v] = IF v = u THEN tally[u] \cup new ELSE tally[v]
      BY <2>2
    <3> QED
      BY <3>1, <3>2
  <2>5. new \cap UNION {tally[v] : v \in Users} = {}
    BY <2>3
  <2>6. new \in SUBSET Requests
    BY DEF TallyOf
  <2>7. Record(u, new, AckedSet')
    BY <1>1, <2>2, <2>4, <2>5
  <2> HIDE DEF Record, new
  <2> QED
    BY <1>1, <2>6, <2>7
<1>5. ASSUME NEW u \in Users, NEW new \in SUBSET Requests, NEW ack \in SUBSET Requests,
             Record(u, new, ack)
      PROVE  Tally!Next
  BY <1>5 DEF Tally!Next, Tally!Record, Tally!Tallied, TallyOf, AckedSet
<1>6. CASE \E u \in Users : scores'[u] # scores[u]
  <2>1. PICK u \in Users : \A v \in Users \ {u} : scores'[v] = scores[v]
    BY <1>6, OneScoreChanges DEF Known
  <2> QED
    BY <1>4, <1>5, <2>1
<1>7. CASE \A u \in Users : scores'[u] = scores[u]
  <2>1. CASE Users = {}
    <3>1. Forms = {}
      BY <2>1, ConstantsAssumption
    <3>2. \A r \in Requests : pc[r] = "idle" /\ pc'[r] = "idle"
      BY <3>1 DEF Known, TypeOK
    <3>3. AckedSet = {} /\ AckedSet' = {}
      BY <3>2 DEF AckedSet, AckedQuiz
    <3> QED
      BY <1>3, <1>7, <3>3
  <2>2. ASSUME NEW u \in Users
        PROVE  Tally!Next
    BY <1>4, <1>5, <1>7
  <2> QED
    BY <2>1, <2>2
<1> QED
  BY <1>6, <1>7

\* Refinement: seen from outside, handlers that serve each user's requests one
\* at a time keep the tally that module ScoreTally promises.
THEOREM SerialKeepsTally ==
  ASSUME OneAtATime
  PROVE  Spec => KeepsTally
<1>1. Init => Tally!Init
  BY DEF Init, Tally!Init, Counts, HasScore, AckedQuiz
<1>2. /\ Known /\ SerialInv /\ Known' /\ SerialInv' /\ [Next]_vars
      => [Tally!Next]_<<[u \in Users |-> {r \in Requests : Counts(u, r) = 1}],
                        {r \in Requests : AckedQuiz(r)}>>
  BY TallyStep DEF TallyOf, AckedSet
<1> QED
  BY <1>1, <1>2, SerialInvariance, PTL DEF Spec, KeepsTally, Tally!Spec
-------------------------------------------------------------------------------
(* A POST that succeeds leaves its response in the score.                  *)

\* What a POST is about to write counts its own response, whatever other handlers do,
\* unless that response has been deleted before the replay.
HoldsOwn(r) ==
  /\ pc[r] = "create" /\ IsPost(r) /\ r \in responses => draft[r].counted[r] >= 1
  /\ pc[r] = "update" /\ IsPost(r) => draft[r].counted[r] >= 1

HoldsOwnInv == TypeOK /\ OwnInv /\ DraftInv /\ \A r \in Requests : HoldsOwn(r)

\* Every step keeps it: a deleted response does not come back.
LEMMA HoldsOwnStep == HoldsOwnInv /\ TypeOK' /\ [Next]_vars => HoldsOwnInv'
<1> SUFFICES ASSUME HoldsOwnInv, TypeOK', [Next]_vars PROVE HoldsOwnInv'
  OBVIOUS
<1>1. TypeOK /\ OwnInv /\ DraftInv /\ OwnInv' /\ DraftInv'
  BY OwnInvStep, DraftInvStep DEF HoldsOwnInv
<1>2. ASSUME NEW r \in Requests,
             \/ pc'[r] = "create" /\ IsPost(r)' /\ r \in responses'
             \/ pc'[r] = "update" /\ IsPost(r)'
      PROVE  draft'[r].counted[r] >= 1
  <2>1. draft'[r] \in Score /\ draft'[r].counted \in [Requests -> Nat]
    BY <1>1, <1>2, ScoreShape DEF TypeOK
  <2>2. DraftOrigin(r) /\ HoldsOwn(r)
    BY <1>1, <2>1, DraftOrigins DEF HoldsOwnInv
  <2>3. pc[r] # "idle" /\ form'[r] = form[r] /\ IsPost(r)
    BY <1>1, <1>2, ControlFlow DEF Moves, IsPost
  <2>4. CASE draft'[r] = draft[r] /\ pc'[r] = pc[r]
    BY <1>1, <1>2, <2>2, <2>3, <2>4, ResponseMoves DEF HoldsOwn
  <2>5. CASE /\ scores[form[r].user] \in Score
             /\ draft'[r].counted = [scores[form[r].user].counted EXCEPT ![r] = @ + 1]
    <3>1. scores[form[r].user].counted \in [Requests -> Nat]
      BY <2>5, ScoreShape
    <3> QED BY <2>5, <3>1
  <2>6. CASE /\ pc[r] = "rebuild" /\ pc'[r] = "create"
             /\ draft'[r].counted = [q \in Requests |-> IF q \in QuizResponses(form[r].user) THEN 1 ELSE 0]
    <3>1. r \in responses
      BY <1>1, <1>2, <2>6, ResponseMoves
    <3>2. r \in QuizResponses(form[r].user)
      BY <1>1, <2>3, <2>6, <3>1 DEF QuizResponses, OwnInv
    <3> QED BY <2>6, <3>2
  <2> QED BY <1>2, <2>2, <2>3, <2>4, <2>5, <2>6 DEF DraftOrigin
<1> QED BY <1>1, <1>2 DEF HoldsOwnInv, HoldsOwn

\* A POST that answers with success for a response that is still stored leaves that
\* response in the score document, however many handlers of the user are at work.
THEOREM AckedIsCounted == Spec => CountedWhenAcked
<1>1. Init => HoldsOwnInv
  BY ScoreShape, ConstantsAssumption DEF Init, OwnInv, DraftInv, HoldsOwnInv, HoldsOwn, TypeOK,
     Working, Ended
<1>2. ASSUME HoldsOwnInv, TypeOK', [Next]_vars, NEW r \in Requests,
             ~AckedQuiz(r), AckedQuiz(r)', r \in responses'
      PROVE  Counts(form[r].user, r)' > 0
  <2>1. TypeOK /\ HoldsOwn(r)
    BY <1>2 DEF HoldsOwnInv
  <2>2. pc[r] # "idle" /\ form'[r] = form[r] /\ Moves(r) /\ form[r].user \in Users
    BY <1>2, <2>1, ControlFlow, ConstantsAssumption DEF AckedQuiz, Moves, TypeOK
  <2>3. IsPost(r) /\ form[r].quiz /\ pc[r] # "ok" /\ pc'[r] = "ok"
    BY <1>2, <2>2 DEF AckedQuiz, IsPost
  <2>4. pc[r] \in {"create", "update"} /\ scores'[form[r].user] = draft[r]
    BY <2>2, <2>3 DEF Moves, Working
  <2>5. draft[r] \in Score /\ draft[r].counted \in [Requests -> Nat]
    BY <2>1, <2>4, ScoreShape DEF TypeOK
  <2>6. r \in responses
    BY <1>2, <2>1, <2>4, ResponseMoves
  <2>7. draft[r].counted[r] >= 1
    BY <2>1, <2>3, <2>4, <2>6 DEF HoldsOwn
  <2>8. Counts(form[r].user, r)' = draft[r].counted[r]
    BY <2>2, <2>4, <2>5, ScoreShape DEF Counts, HasScore
  <2> QED BY <2>5, <2>7, <2>8
<1>3. HoldsOwnInv /\ TypeOK' /\ [Next]_vars =>
        [\A r \in Requests :
           (~ AckedQuiz(r) /\ AckedQuiz(r)' /\ r \in responses')
             => Counts(form[r].user, r)' > 0]_vars
  BY <1>2
<1> QED
  BY <1>1, <1>3, HoldsOwnStep, TypeCorrect, PTL DEF Spec, CountedWhenAcked
-------------------------------------------------------------------------------
(* The profile id of a score.                                              *)

\* What a request at work is about to make of the profile id, given that no other of
\* its user is at work: a GET fills in a missing one, and a POST takes its response's.
ProfileIsCurrent(r) ==
  LET u == form[r].user
  IN  pc[r] = "update" =>
        IF IsPost(r) THEN draft[r].profile \in {scores[u].profile, form[r].profile}
                     ELSE scores[u].profile = NoProfile

ProfileInv == \A r \in Requests : ProfileIsCurrent(r)

\* Where the profile id that a request is about to write comes from.
LEMMA ProfileOrigins ==
  ASSUME TypeOK, [Next]_vars, NEW r \in Requests, pc[r] # "update", pc'[r] = "update"
  PROVE  ProfileIsCurrent(r)'
<1> DEFINE u == form[r].user
<1> USE DEF TypeOK, GoOn, End
<1>1. ASSUME NEW q \in Requests, Step(q), q # r PROVE FALSE
  BY <1>1 DEF Step, Reject, InsertResponse, FindNoScore, FindScoreToUpdate,
     FindScoreToShow, Rebuild, CreateScore, UpdateScore, ReadScoreFails, CallFails
<1>2. CASE FindScoreToUpdate(r)
  <2>1. draft'[r] = AddResponse(scores[u], r) /\ UNCHANGED <<form, scores>> /\ IsPost(r)
    BY <1>2 DEF FindScoreToUpdate
  <2>2. draft'[r].profile \in {scores[u].profile, form[r].profile}
    BY <2>1 DEF AddResponse
  <2> QED BY <2>1, <2>2 DEF ProfileIsCurrent, IsPost
<1>3. CASE FindScoreToShow(r)
  <2>1. UNCHANGED <<form, scores>> /\ ~IsPost(r) /\ MissesProfile(scores[u], r)
    BY <1>3 DEF FindScoreToShow
  <2> QED BY <2>1 DEF ProfileIsCurrent, IsPost, MissesProfile
<1>4. CASE CreateScore(r)
  <2>1. u \in Users /\ form' = form
    BY <1>4, ConstantsAssumption DEF CreateScore
  <2>2. ~IsPost(r) /\ MissesProfile(draft[r], r) /\ scores'[u] = draft[r]
    BY <1>4, <2>1 DEF CreateScore, AfterError
  <2> QED BY <2>1, <2>2 DEF ProfileIsCurrent, IsPost, MissesProfile
<1>5. CASE \/ Reject(r) \/ InsertResponse(r) \/ FindNoScore(r) \/ Rebuild(r) \/ UpdateScore(r)
           \/ ReadScoreFails(r) \/ CallFails(r) \/ Restart
           \/ \E q \in Requests, f \in Forms : Start(q, f)
           \/ \E v \in Users : \E chosen \in SUBSET responses : DeleteResponses(v, chosen)
           \/ UNCHANGED vars
  BY <1>5 DEF Reject, InsertResponse, FindNoScore, Rebuild, UpdateScore, ReadScoreFails,
     CallFails, Restart, Start, DeleteResponses, AfterError, vars
<1> QED
  BY <1>1, <1>2, <1>3, <1>4, <1>5 DEF Next, Step

\* One request at a time: what a request is about to make of the profile id stays so.
LEMMA ProfileInvStep ==
  ASSUME Known, Known', SerialInv, ProfileInv, [Next]_vars
  PROVE  ProfileInv'
<1> SUFFICES ASSUME NEW r \in Requests, pc'[r] = "update" PROVE ProfileIsCurrent(r)'
  BY DEF ProfileInv, ProfileIsCurrent
<1>1. CASE pc[r] # "update"
  BY <1>1, ProfileOrigins DEF Known
<1>2. CASE pc[r] = "update"
  <2>1. scores'[form[r].user] = scores[form[r].user] /\ form'[r] = form[r]
    BY <1>2, ScoreOfWorking, ControlFlow DEF Known, Working
  <2>2. draft'[r] = draft[r]
    <3>1. draft'[r] \in Score
      BY DEF Known, TypeOK
    <3> QED BY <1>2, <3>1, DraftOrigins DEF DraftOrigin, Known
  <2> QED BY <1>2, <2>1, <2>2 DEF ProfileInv, ProfileIsCurrent, IsPost
<1> QED BY <1>1, <1>2

\* One request at a time: a profile id gives way only to one that a response names
\* whose POST is at work.  A GET fills in a profile id only where none is.
THEOREM SerialKeepsProfile ==
  ASSUME OneAtATime
  PROVE  Spec => ProfileKept
<1>1. Init => ProfileInv
  BY DEF Init, ProfileInv, ProfileIsCurrent
<1>2. Known /\ Known' /\ SerialInv /\ ProfileInv /\ [Next]_vars => ProfileInv'
  BY ProfileInvStep
<1>3. ASSUME Known, SerialInv, ProfileInv, [Next]_vars,
             NEW u \in Users, HasScore(u), scores[u].profile # NoProfile,
             scores'[u].profile # scores[u].profile
      PROVE  \E r \in InFlight(u) : IsPost(r) /\ form[r].profile = scores'[u].profile
  <2>1. PICK r \in Requests :
          form[r].user = u /\ scores'[u] = draft[r] /\ pc[r] = "update"
    BY <1>3, ScoreOrigins DEF ScoreOrigin, Known
  <2>2. ProfileIsCurrent(r) /\ r \in InFlight(u)
    BY <1>3, <2>1 DEF ProfileInv, InFlight, Working
  <2>3. IsPost(r) /\ draft[r].profile \in {scores[u].profile, form[r].profile}
    BY <1>3, <2>1, <2>2 DEF ProfileIsCurrent
  <2> QED BY <1>3, <2>1, <2>2, <2>3
<1>4. Known /\ SerialInv /\ ProfileInv /\ [Next]_vars =>
        [\A u \in Users :
           (HasScore(u) /\ scores[u].profile # NoProfile)
             => \/ scores'[u].profile = scores[u].profile
                \/ \E r \in InFlight(u) : IsPost(r) /\ form[r].profile = scores'[u].profile]_vars
  BY <1>3
<1> QED
  BY <1>1, <1>2, <1>4, SerialInvariance, PTL DEF Spec, ProfileKept
===============================================================================
