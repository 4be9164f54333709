----------------------------- MODULE SurveysProofs -----------------------------
(***************************************************************************)
(* Proofs about module Surveys, for every value of its constants.          *)
(***************************************************************************)
EXTENDS Surveys, TLAPS

Operations == {"create", "update", "delete", "answer", "show", "showAll", "edit", "remove"}

\* The operations whose form, once they have one, is that of the survey of their path.
OfSurvey == {"delete", "answer", "show", "showAll"}

AdminOf(form)    == [event |-> form.event, role |-> "admin"]
AttendeeOf(form) == [event |-> form.event, role |-> "attended"]

\* What no update changes.
SameSurvey(f, g) ==
  /\ f.anonymous = g.anonymous /\ f.sensitive = g.sensitive
  /\ f.creator = g.creator /\ f.event = g.event

\* The survey s as it is stored, at hand in a request, or copied into a response.
IsCopy(f, s) ==
  \/ s \in Stored(surveys) /\ f = surveys[s]
  \/ \E c \in Calls : /\ calls[c] # NoCall /\ calls[c].op \in OfSurvey
                      /\ calls[c].id = s /\ f = calls[c].form
  \/ \E r \in Stored(responses) : responses[r].survey = s /\ f = responses[r].form

\* All copies of a survey agree in what no update changes, also when the survey has
\* been deleted; and there is none of a survey that has not been stored yet.
OneSurvey ==
  \A s \in SurveyIds :
    /\ \A f, g \in Form : IsCopy(f, s) /\ IsCopy(g, s) => SameSurvey(f, g)
    /\ s \in Free(surveys) => \A f \in Form : ~IsCopy(f, s)

\* What a request has at hand at each of its steps.
CallShape(c) ==
  /\ calls[c].op \in OfSurvey \cup {"update"} => calls[c].id \in SurveyIds \ Free(surveys)
  /\ calls[c].op \in {"create", "answer"} => calls[c].form # NoForm
  /\ calls[c].op \in OfSurvey /\ calls[c].at = "do" => calls[c].form # NoForm
  /\ calls[c].op = "edit" => calls[c].response = NoID
  /\ calls[c].at = "ask" => calls[c].form # NoForm /\ calls[c].form.event # NoEvent
  /\ calls[c].op \in {"show", "showAll"} /\ calls[c].form # NoForm => ~calls[c].form.sensitive

\* Whoever has got past the questions holds the ground that was asked for.  A call
\* that is admin keeps its ground through a transaction that is run again, since no
\* update moves a survey to another event.
Entitled(c) ==
  /\ Held(calls[c].user, calls[c].op) \subseteq calls[c].held
  /\ calls[c].op = "answer" /\ calls[c].at = "do" =>
       calls[c].form.event = NoEvent \/ AttendeeOf(calls[c].form) \in calls[c].held
  /\ calls[c].op = "showAll" => Staff \in calls[c].held
  /\ calls[c].op = "show" /\ calls[c].at = "do" => AdminOf(calls[c].form) \in calls[c].held
  /\ calls[c].op = "delete" /\ calls[c].admin /\ calls[c].id \in Stored(surveys) =>
       Staff \in calls[c].held \/ AdminOf(surveys[calls[c].id]) \in calls[c].held

\* What an answer takes over from storage is not older than its request, and the
\* questions that the client answered are not newer.
NotOlder(c) ==
  calls[c].op = "answer" =>
    /\ calls[c].data <= calls[c].since
    /\ calls[c].id \in Stored(surveys) => calls[c].since <= surveys[calls[c].id].edition
    /\ calls[c].at \in {"ask", "do"} => calls[c].since <= calls[c].form.edition

CallInv(c) == calls[c] # NoCall => CallShape(c) /\ Entitled(c) /\ NotOlder(c)

SurveysInv == TypeOK /\ OneSurvey /\ \A c \in Calls : CallInv(c)

\* A survey is stored, changed where an update may change it, or deleted for good.
SurveysMove ==
  \A s \in SurveyIds :
    \/ surveys'[s] = surveys[s]
    \/ surveys[s] = Unborn /\ surveys'[s] \in Form
    \/ surveys[s] \in Form /\ surveys'[s] = Gone
    \/ /\ surveys[s] \in Form /\ surveys'[s] \in Form
       /\ SameSurvey(surveys[s], surveys'[s])
       /\ surveys[s].edition <= surveys'[s].edition
-------------------------------------------------------------------------------
\* Stored documents are documents.
LEMMA StoredDocument ==
  ASSUME TypeOK
  PROVE  /\ \A s : s \in Stored(surveys) <=> s \in SurveyIds /\ surveys[s] \in Form
         /\ \A s : s \in Free(surveys) <=> s \in SurveyIds /\ surveys[s] = Unborn
         /\ \A r : r \in Stored(responses) <=> r \in ResponseIds /\ responses[r] \in Response
         /\ \A r : r \in Free(responses) <=> r \in ResponseIds /\ responses[r] = Unborn
BY SurveysAssumption DEF TypeOK, Stored, Free

\* The fields of a request at work.
LEMMA CallFields ==
  ASSUME TypeOK, NEW c \in Calls, calls[c] # NoCall
  PROVE  /\ calls[c] \in Call
         /\ calls[c].form \in Form \cup {NoForm} /\ calls[c].user \in Users
         /\ calls[c].op \in Operations /\ calls[c].at \in {"find", "ask", "do"}
         /\ calls[c].id \in SurveyIds \cup {NoID}
         /\ calls[c].response \in ResponseIds \cup {NoID} /\ calls[c].admin \in BOOLEAN
         /\ calls[c].held \subseteq Ground \cup {Staff} /\ calls[c].since \in 0..MaxEditions
         /\ calls[c].data \in 0..MaxEditions
<1>1. calls[c] \in Call
  BY DEF TypeOK
<1> QED BY <1>1 DEF Call, Operations

\* A request that makes no step has what it had.
LEMMA CallKept ==
  ASSUME SurveysInv, TypeOK', SurveysMove, NEW c \in Calls,
         calls'[c] = calls[c], grounds' = grounds
  PROVE  CallInv(c)'
<1> SUFFICES ASSUME calls[c] # NoCall PROVE (CallShape(c) /\ Entitled(c) /\ NotOlder(c))'
  BY DEF CallInv
<1> DEFINE id == calls[c].id
<1>1. TypeOK /\ CallShape(c) /\ Entitled(c) /\ NotOlder(c)
  BY DEF SurveysInv, CallInv
<1>2. \A s \in SurveyIds \ Free(surveys) :
        /\ s \notin Free(surveys)'
        /\ s \in Stored(surveys)' =>
             /\ s \in Stored(surveys)
             /\ surveys[s].event = surveys'[s].event
             /\ surveys[s] \in Form /\ surveys'[s] \in Form
             /\ surveys[s].edition <= surveys'[s].edition
  <2> SUFFICES ASSUME NEW s \in SurveyIds, surveys[s] # Unborn
               PROVE  /\ surveys'[s] # Unborn
                      /\ surveys'[s] \in Form =>
                           /\ surveys[s] \in Form /\ surveys[s].event = surveys'[s].event
                           /\ surveys[s].edition <= surveys'[s].edition
    BY <1>1, StoredDocument DEF Free, Stored, TypeOK
  <2>1. surveys'[s] # Unborn
    BY SurveysAssumption, DocumentsAssumption DEF SurveysMove
  <2>2. ASSUME surveys'[s] \in Form
        PROVE  surveys[s] \in Form /\ surveys[s].event = surveys'[s].event
               /\ surveys[s].edition <= surveys'[s].edition
    <3>1. CASE surveys'[s] = surveys[s]
      BY <2>2, <3>1 DEF Form
    <3>2. CASE surveys'[s] # surveys[s]
      BY <2>2, <3>2, SurveysAssumption DEF SurveysMove, SameSurvey
    <3> QED BY <3>1, <3>2
  <2> QED BY <2>1, <2>2
<1>3. CallShape(c)'
  BY <1>1, <1>2 DEF CallShape
<1>4. Entitled(c)'
  <2>1. calls[c].op = "delete" /\ id \in Stored(surveys)' =>
          id \in Stored(surveys) /\ AdminOf(surveys[id]) = AdminOf(surveys'[id])
    BY <1>1, <1>2 DEF CallShape, OfSurvey, AdminOf
  <2> QED BY <1>1, <2>1 DEF Entitled, Held, AdminOf, AttendeeOf
<1>5. NotOlder(c)'
  <2>1. calls[c].op = "answer" /\ id \in Stored(surveys)' =>
          id \in Stored(surveys) /\ surveys[id] \in Form /\ surveys'[id] \in Form
          /\ surveys[id].edition <= surveys'[id].edition
    BY <1>1, <1>2 DEF CallShape, OfSurvey
  <2>2. calls[c].since \in Nat
    BY <1>1, CallFields
  <2>3. \A f \in Form : f.edition \in Nat
    BY DEF Form
  <2>4. calls[c].op = "answer" /\ id \in Stored(surveys)' => calls[c].since <= surveys'[id].edition
    BY <1>1, <2>1, <2>2, <2>3 DEF NotOlder
  <2> QED BY <1>1, <2>4 DEF NotOlder
<1> QED BY <1>3, <1>4, <1>5

\* The copies of a survey go on agreeing if each new one is made from an old one, or is
\* a survey that has just been stored.
LEMMA OneSurveyKept ==
  ASSUME SurveysInv, TypeOK', SurveysMove,
         \A s \in SurveyIds, f \in Form : IsCopy(f, s)' =>
           \/ \E g \in Form : IsCopy(g, s) /\ SameSurvey(f, g)
           \/ s \in Free(surveys) /\ f = surveys'[s]
  PROVE  OneSurvey'
<1> SUFFICES ASSUME NEW s \in SurveyIds
             PROVE  /\ \A f, g \in Form : IsCopy(f, s)' /\ IsCopy(g, s)' => SameSurvey(f, g)
                    /\ s \in Free(surveys)' => \A f \in Form : ~IsCopy(f, s)'
  BY DEF OneSurvey, SameSurvey
<1>1. /\ \A f, g \in Form : IsCopy(f, s) /\ IsCopy(g, s) => SameSurvey(f, g)
      /\ s \in Free(surveys) => \A f \in Form : ~IsCopy(f, s)
  BY DEF SurveysInv, OneSurvey
<1>2. ASSUME NEW f \in Form, NEW g \in Form, IsCopy(f, s)', IsCopy(g, s)'
      PROVE  SameSurvey(f, g)
  <2>1. CASE s \in Free(surveys)
    <3>1. f = surveys'[s] /\ g = surveys'[s]
      BY <1>1, <1>2, <2>1
    <3> QED BY <3>1 DEF SameSurvey
  <2>2. CASE s \notin Free(surveys)
    <3>1. PICK f1 \in Form : IsCopy(f1, s) /\ SameSurvey(f, f1)
      BY <1>2, <2>2
    <3>2. PICK g1 \in Form : IsCopy(g1, s) /\ SameSurvey(g, g1)
      BY <1>2, <2>2
    <3>3. SameSurvey(f1, g1)
      BY <1>1, <3>1, <3>2
    <3> QED BY <3>1, <3>2, <3>3 DEF SameSurvey
  <2> QED BY <2>1, <2>2
<1>3. ASSUME s \in Free(surveys)', NEW f \in Form, IsCopy(f, s)' PROVE FALSE
  <2>1. surveys'[s] = Unborn
    BY <1>3, StoredDocument DEF Free
  <2>2. s \in Free(surveys)
    BY <2>1, StoredDocument, SurveysAssumption, DocumentsAssumption DEF SurveysMove, SurveysInv
  <2>3. f = surveys'[s]
    BY <1>1, <1>3, <2>2
  <2> QED BY <2>1, <2>3, SurveysAssumption
<1> QED BY <1>2, <1>3

\* A step of one request that writes nothing.
LEMMA CallStep ==
  ASSUME SurveysInv, NEW c \in Calls, TypeOK',
         UNCHANGED <<surveys, responses, grounds>>,
         \A d \in Calls \ {c} : calls'[d] = calls[d],
         calls'[c] # NoCall => CallShape(c)' /\ Entitled(c)' /\ NotOlder(c)',
         calls'[c] # NoCall /\ calls'[c].op \in OfSurvey /\ calls'[c].form # NoForm =>
           \E g \in Form : IsCopy(g, calls'[c].id) /\ SameSurvey(calls'[c].form, g)
  PROVE  SurveysInv'
<1>1. SurveysMove
  BY DEF SurveysMove
<1>2. ASSUME NEW d \in Calls PROVE CallInv(d)'
  <2>1. CASE d = c
    BY <2>1 DEF CallInv
  <2>2. CASE d # c
    BY <1>1, <2>2, CallKept
  <2> QED BY <2>1, <2>2
<1>3. ASSUME NEW s \in SurveyIds, NEW f \in Form, IsCopy(f, s)'
      PROVE  \E g \in Form : IsCopy(g, s) /\ SameSurvey(f, g)
  <2>1. CASE IsCopy(f, s)
    BY <2>1 DEF SameSurvey
  <2>2. CASE ~IsCopy(f, s)
    <3>1. calls'[c] # NoCall /\ calls'[c].op \in OfSurvey /\ calls'[c].id = s /\ f = calls'[c].form
      BY <1>3, <2>2 DEF IsCopy, Stored
    <3> QED BY <3>1, SurveysAssumption
  <2> QED BY <2>1, <2>2
<1>4. OneSurvey'
  BY <1>1, <1>3, OneSurveyKept
<1> QED BY <1>2, <1>4 DEF SurveysInv

\* A step that writes ends its request, if it has one; what it stores as a response
\* is a copy that there was.
LEMMA WriteStep ==
  ASSUME SurveysInv, TypeOK', SurveysMove, grounds' = grounds,
         \A d \in Calls : calls'[d] \in {calls[d], NoCall},
         \A r \in Stored(responses') :
           \/ r \in Stored(responses) /\ responses'[r] = responses[r]
           \/ IsCopy(responses'[r].form, responses'[r].survey)
  PROVE  SurveysInv'
<1>1. ASSUME NEW d \in Calls PROVE CallInv(d)'
  <2>1. CASE calls'[d] = NoCall
    BY <2>1 DEF CallInv
  <2>2. CASE calls'[d] = calls[d]
    BY <2>2, CallKept
  <2> QED BY <2>1, <2>2
<1>2. ASSUME NEW s \in SurveyIds, NEW f \in Form, IsCopy(f, s)'
      PROVE  \/ \E g \in Form : IsCopy(g, s) /\ SameSurvey(f, g)
             \/ s \in Free(surveys) /\ f = surveys'[s]
  <2>1. CASE s \in Stored(surveys)' /\ f = surveys'[s]
    <3>1. surveys'[s] \in Form /\ surveys'[s] # Gone
      BY <2>1, SurveysAssumption
    <3>2. CASE surveys[s] \in Form
      <4>1. IsCopy(surveys[s], s)
        BY <3>2, StoredDocument DEF IsCopy, SurveysInv
      <4>2. SameSurvey(f, surveys[s])
        BY <2>1, <3>1, <3>2, SurveysAssumption DEF SurveysMove, SameSurvey
      <4> QED BY <3>2, <4>1, <4>2
    <3>3. CASE surveys[s] \notin Form
      <4>1. surveys[s] = Unborn
        BY <3>1, <3>3 DEF SurveysMove
      <4> QED BY <2>1, <4>1, StoredDocument DEF SurveysInv
    <3> QED BY <3>2, <3>3
  <2>2. ASSUME NEW c \in Calls, calls'[c] # NoCall, calls'[c].op \in OfSurvey,
               calls'[c].id = s, f = calls'[c].form
        PROVE  \E g \in Form : IsCopy(g, s) /\ SameSurvey(f, g)
    <3>1. IsCopy(f, s)
      BY <2>2 DEF IsCopy
    <3> QED BY <3>1 DEF SameSurvey
  <2>3. ASSUME NEW r \in Stored(responses'), responses'[r].survey = s, f = responses'[r].form
        PROVE  \E g \in Form : IsCopy(g, s) /\ SameSurvey(f, g)
    <3>1. IsCopy(f, s)
      BY <2>3 DEF IsCopy
    <3> QED BY <3>1 DEF SameSurvey
  <2>4. \/ s \in Stored(surveys)' /\ f = surveys'[s]
        \/ \E c \in Calls : /\ calls'[c] # NoCall /\ calls'[c].op \in OfSurvey
                            /\ calls'[c].id = s /\ f = calls'[c].form
        \/ \E r \in Stored(responses') : responses'[r].survey = s /\ f = responses'[r].form
    BY <1>2 DEF IsCopy
  <2> QED BY <2>1, <2>2, <2>3, <2>4
<1>3. OneSurvey'
  BY <1>2, OneSurveyKept
<1> QED BY <1>1, <1>3 DEF SurveysInv
-------------------------------------------------------------------------------
(* Steps of requests that write nothing.                                   *)

\* A request that goes on keeps its operation, its user, its ids and its grounds.
Keeps(c, next) ==
  /\ next.user = calls[c].user /\ next.op = calls[c].op /\ next.id = calls[c].id
  /\ next.response = calls[c].response /\ next.held = calls[c].held
  /\ next.data = calls[c].data /\ next.since = calls[c].since

\* A request arrives.
LEMMA BeginInv ==
  ASSUME SurveysInv, NEW c \in Calls, NEW op \in Operations, NEW place \in {"find", "ask", "do"},
         NEW u \in Users, NEW staff \in BOOLEAN, NEW s \in SurveyIds \cup {NoID},
         NEW r \in ResponseIds \cup {NoID}, NEW form \in Form \cup {NoForm},
         Begin(c, op, place, u, staff, s, r, form),
         op \in OfSurvey \cup {"update"} => s \in SurveyIds \ Free(surveys),
         op \in OfSurvey => place = "find",
         op \in {"delete", "show", "showAll"} => form = NoForm,
         op = "create" => form # NoForm,
         op = "answer" => /\ s \in Stored(surveys) /\ form \in Form /\ SameSurvey(form, surveys[s])
                          /\ form.edition <= surveys[s].edition,
         op = "edit" => r = NoID,
         op = "showAll" => staff,
         place = "ask" => form # NoForm /\ form.event # NoEvent
  PROVE  SurveysInv'
<1> DEFINE since == IF op = "answer" THEN surveys[s].edition ELSE 0
           data == IF op = "answer" THEN form.edition ELSE 0
           held == Held(u, op) \cup IF staff THEN {Staff} ELSE {}
           call == [form |-> form, user |-> u, op |-> op, at |-> place, id |-> s, response |-> r,
                    admin |-> staff, held |-> held, data |-> data, since |-> since]
<1>1. /\ calls[c] = NoCall /\ calls' = [calls EXCEPT ![c] = call]
      /\ arrived < MaxRequests /\ arrived' = arrived + 1
      /\ surveys' = surveys /\ responses' = responses /\ grounds' = grounds
  BY DEF Begin
<1>2. TypeOK
  BY DEF SurveysInv
<1>3. call \in Call
  <2>1. since \in 0..MaxEditions /\ data \in 0..MaxEditions
    BY <1>2, StoredDocument, SurveysAssumption DEF Form
  <2>2. held \subseteq Ground \cup {Staff}
    BY <1>2 DEF Held, TypeOK
  <2> QED BY <2>1, <2>2 DEF Call, Operations
<1>4. calls'[c] = call /\ \A d \in Calls \ {c} : calls'[d] = calls[d]
  BY <1>1, <1>2 DEF TypeOK
<1>5. TypeOK'
  <2>1. arrived' \in 0..MaxRequests
    BY <1>1, <1>2, SurveysAssumption DEF TypeOK
  <2>2. calls' \in [Calls -> Call \cup {NoCall}]
    BY <1>1, <1>2, <1>3 DEF TypeOK
  <2> QED BY <1>1, <1>2, <2>1, <2>2 DEF TypeOK
<1>6. /\ call.form = form /\ call.user = u /\ call.op = op /\ call.at = place /\ call.id = s
      /\ call.response = r /\ call.admin = staff /\ call.held = held
      /\ call.data = data /\ call.since = since
  OBVIOUS
<1>7. (staff => Staff \in held) /\ Held(u, op) \subseteq held
  OBVIOUS
<1> HIDE DEF call, held
<1>8. CallShape(c)'
  BY <1>1, <1>4, <1>6, SurveysAssumption DEF CallShape, OfSurvey
<1>9. Entitled(c)'
  BY <1>1, <1>4, <1>6, <1>7 DEF Entitled, OfSurvey, Held
<1>10. NotOlder(c)'
  <2>1. op = "answer" => /\ place = "find" /\ data <= since
                         /\ since = surveys[s].edition /\ surveys[s].edition \in Nat
    BY <1>2, StoredDocument DEF OfSurvey, Form
  <2> HIDE DEF since, data
  <2> QED BY <1>1, <1>4, <1>6, <2>1 DEF NotOlder
<1>11. op \in OfSurvey /\ form # NoForm =>
         \E g \in Form : IsCopy(g, s) /\ SameSurvey(form, g)
  <2>1. CASE op = "answer"
    <3>1. surveys[s] \in Form /\ IsCopy(surveys[s], s)
      BY <1>2, <2>1, StoredDocument DEF IsCopy
    <3> QED BY <2>1, <3>1
  <2> QED BY <2>1 DEF OfSurvey
<1> QED BY <1>1, <1>4, <1>5, <1>6, <1>8, <1>9, <1>10, <1>11, CallStep

\* Whichever request arrives.
LEMMA ArriveInv ==
  ASSUME SurveysInv, NEW c \in Calls, Arrive(c) PROVE SurveysInv'
<1> USE DEF Operations, OfSurvey
<1>1. TypeOK /\ NoEvent \notin Events /\ 0 \in 0..MaxEditions
  BY SurveysAssumption DEF SurveysInv
<1>2. ASSUME NEW u \in Users, StartCreate(c, u) PROVE SurveysInv'
  <2>1. PICK event \in Events \cup {NoEvent}, kind \in Kinds :
          Begin(c, "create", IF event = NoEvent THEN "do" ELSE "ask", u, FALSE, NoID, NoID,
                [anonymous |-> kind.anonymous, sensitive |-> kind.sensitive,
                 creator |-> u, event |-> event, edition |-> 0])
    BY <1>2 DEF StartCreate
  <2>2. [anonymous |-> kind.anonymous, sensitive |-> kind.sensitive,
         creator |-> u, event |-> event, edition |-> 0] \in Form
    BY <1>1, SurveysAssumption DEF Form
  <2> QED BY <2>1, <2>2, BeginInv, SurveysAssumption
<1>3. ASSUME NEW u \in Users, StartEdit(c, u) PROVE SurveysInv'
  BY <1>3, BeginInv DEF StartEdit
<1>4. ASSUME NEW u \in Users, NEW s \in SurveyIds \ Free(surveys), NEW staff \in BOOLEAN,
             StartUpdate(c, u, staff, s)
      PROVE  SurveysInv'
  <2>1. PICK event \in Events \cup {NoEvent} :
          Begin(c, "update", IF staff \/ event = NoEvent THEN "do" ELSE "ask", u, staff, s, NoID,
                [anonymous |-> FALSE, sensitive |-> FALSE,
                 creator |-> u, event |-> event, edition |-> 0])
    BY <1>4 DEF StartUpdate
  <2>2. [anonymous |-> FALSE, sensitive |-> FALSE, creator |-> u, event |-> event, edition |-> 0] \in Form
    BY <1>1 DEF Form
  <2> QED BY <2>1, <2>2, BeginInv, SurveysAssumption
<1>5. ASSUME NEW u \in Users, NEW s \in SurveyIds \ Free(surveys), NEW staff \in BOOLEAN,
             StartDelete(c, u, staff, s)
      PROVE  SurveysInv'
  BY <1>5, BeginInv DEF StartDelete
<1>6. ASSUME NEW u \in Users, NEW s \in SurveyIds \ Free(surveys), StartAnswer(c, u, s)
      PROVE  SurveysInv'
  <2>1. PICK edition \in 0..surveys[s].edition :
          Begin(c, "answer", "find", u, FALSE, s, NoID, [surveys[s] EXCEPT !.edition = edition])
    BY <1>6 DEF StartAnswer
  <2>2. s \in Stored(surveys) /\ surveys[s] \in Form
    BY <1>1, <1>6, StoredDocument DEF StartAnswer
  <2>3. edition \in 0..MaxEditions
    BY <2>1, <2>2, SurveysAssumption DEF Form
  <2>4. /\ [surveys[s] EXCEPT !.edition = edition] \in Form
        /\ SameSurvey([surveys[s] EXCEPT !.edition = edition], surveys[s])
        /\ [surveys[s] EXCEPT !.edition = edition].edition <= surveys[s].edition
    BY <2>1, <2>2, <2>3 DEF Form, SameSurvey
  <2> QED BY <2>1, <2>2, <2>4, BeginInv
<1>7. ASSUME NEW u \in Users, NEW s \in SurveyIds \ Free(surveys),
             StartShow(c, u, s) \/ StartShowAll(c, u, s)
      PROVE  SurveysInv'
  BY <1>7, BeginInv DEF StartShow, StartShowAll
<1>8. ASSUME NEW u \in Users, NEW r \in ResponseIds \ Free(responses), StartRemove(c, u, r)
      PROVE  SurveysInv'
  BY <1>8, BeginInv DEF StartRemove
<1> QED
  BY <1>2, <1>3, <1>4, <1>5, <1>6, <1>7, <1>8 DEF Arrive

\* A request ends without a write.
LEMMA EndInv ==
  ASSUME SurveysInv, NEW c \in Calls, End(c), UNCHANGED <<surveys, responses, grounds, arrived>>
  PROVE  SurveysInv'
<1>1. /\ calls'[c] = NoCall /\ \A d \in Calls \ {c} : calls'[d] = calls[d]
      /\ calls' \in [Calls -> Call \cup {NoCall}]
  BY DEF End, SurveysInv, TypeOK
<1>2. TypeOK'
  BY <1>1 DEF SurveysInv, TypeOK
<1> QED BY <1>1, <1>2, CallStep

\* A request goes on without a write.
LEMMA NextStepInv ==
  ASSUME SurveysInv, NEW c \in Calls, calls[c] # NoCall,
         NEW next \in Call, calls' = [calls EXCEPT ![c] = next], Keeps(c, next),
         UNCHANGED <<surveys, responses, grounds, arrived>>,
         CallShape(c)' /\ Entitled(c)' /\ NotOlder(c)',
         next.op \in OfSurvey /\ next.form # NoForm =>
           next.form = calls[c].form \/ IsCopy(next.form, next.id)
  PROVE  SurveysInv'
<1>1. TypeOK
  BY DEF SurveysInv
<1>2. /\ calls'[c] = next /\ calls' \in [Calls -> Call \cup {NoCall}]
      /\ \A d \in Calls \ {c} : calls'[d] = calls[d]
  BY <1>1 DEF TypeOK
<1>3. TypeOK'
  BY <1>1, <1>2 DEF TypeOK
<1>4. next.op \in OfSurvey /\ next.form # NoForm =>
        \E g \in Form : IsCopy(g, next.id) /\ SameSurvey(next.form, g)
  <2> SUFFICES ASSUME next.op \in OfSurvey, next.form # NoForm
               PROVE  next.form \in Form /\ IsCopy(next.form, next.id)
    BY DEF SameSurvey
  <2>1. next.form = calls[c].form => IsCopy(next.form, next.id)
    BY DEF IsCopy, Keeps
  <2> QED BY <2>1 DEF Call
<1> QED BY <1>2, <1>3, <1>4, CallStep

\* GetSurvey takes the survey as it is stored.
LEMMA FindInv ==
  ASSUME SurveysInv, NEW c \in Calls, Find(c) PROVE SurveysInv'
<1> DEFINE id == calls[c].id
           form == surveys[id]
           place == IF Asks(calls[c], form) THEN "ask" ELSE "do"
           next == [calls[c] EXCEPT !.form = form, !.at = place]
<1>1. /\ calls[c] # NoCall /\ calls[c].op \in OfSurvey /\ calls[c].at = "find"
      /\ UNCHANGED <<surveys, responses, grounds, arrived>>
  BY DEF Find, At, OfSurvey
<1>2. TypeOK /\ CallShape(c) /\ Entitled(c) /\ NotOlder(c)
  BY <1>1 DEF SurveysInv, CallInv
<1>3. CASE End(c)
  BY <1>1, <1>3, EndInv
<1>4. CASE /\ id \in Stored(surveys) /\ ~Refused(calls[c], form)
           /\ calls' = [calls EXCEPT ![c].form = form, ![c].at = place]
  <2>1. form \in Form /\ IsCopy(form, id)
    BY <1>2, <1>4, StoredDocument DEF IsCopy
  <2>2. calls[c] \in Call /\ calls[c].admin \in BOOLEAN
    BY <1>1, <1>2, CallFields
  <2>3. calls' = [calls EXCEPT ![c] = next]
    BY <1>2, <1>4 DEF TypeOK
  <2>4. next \in Call /\ Keeps(c, next)
    BY <2>1, <2>2 DEF Call, Keeps
  <2>5. next.form = form /\ next.at = place /\ next.admin = calls[c].admin /\ calls'[c] = next
    <3>1. next.form = form /\ next.at = place /\ next.admin = calls[c].admin
      BY <2>2 DEF Call
    <3> HIDE DEF next
    <3> QED BY <1>2, <2>3, <3>1 DEF TypeOK
  <2>6. form # NoForm
    BY <2>1, SurveysAssumption
  <2>7. place = "ask" => form.event # NoEvent
    BY DEF Asks
  <2>8. place = "do" /\ calls[c].op # "showAll" =>
          form.event = NoEvent \/ (calls[c].op = "delete" /\ calls[c].admin)
    BY DEF Asks
  <2>9. calls[c].op \in {"show", "showAll"} => ~form.sensitive
        /\ (calls[c].op = "show" => form.event # NoEvent)
    BY <1>4 DEF Refused
  <2> HIDE DEF place, next
  <2>10. CallShape(c)'
    BY <1>1, <1>2, <2>4, <2>5, <2>6, <2>7, <2>9 DEF CallShape, OfSurvey, Keeps
  <2>11. Entitled(c)'
    BY <1>1, <1>2, <2>4, <2>5, <2>8, <2>9 DEF Entitled, Held, AdminOf, AttendeeOf, Keeps
  <2>12. NotOlder(c)'
    BY <1>1, <1>2, <1>4, <2>4, <2>5 DEF NotOlder, Keeps
  <2>13. IsCopy(next.form, next.id)
    BY <2>1, <2>4, <2>5 DEF Keeps
  <2> QED
    BY <1>1, <2>3, <2>4, <2>10, <2>11, <2>12, <2>13, NextStepInv
<1> QED
  BY <1>3, <1>4 DEF Find, FoundForm

\* The calendar answers by the grounds that there are now, all of which are held.
LEMMA AskInv ==
  ASSUME SurveysInv, NEW c \in Calls, Ask(c) PROVE SurveysInv'
<1> DEFINE call == calls[c]
           yes == HasRole(call.user, RoleFor(call.op), call.form.event)
<1>1. /\ calls[c] # NoCall /\ call.at = "ask"
      /\ call.op \in {"create", "update", "delete", "answer", "show"}
      /\ UNCHANGED <<surveys, responses, grounds, arrived>>
  BY DEF Ask, At
<1>2. TypeOK /\ CallShape(c) /\ Entitled(c) /\ NotOlder(c) /\ yes \in BOOLEAN
  BY <1>1 DEF SurveysInv, CallInv, HasRole
<1>3. call \in Call /\ call.form \in Form \cup {NoForm} /\ call.admin \in BOOLEAN
  BY <1>1, <1>2, CallFields
<1>4. call.form \in Form
  BY <1>1, <1>2, <1>3 DEF CallShape
<1>5. yes => [event |-> call.form.event, role |-> RoleFor(call.op)] \in call.held
  BY <1>2 DEF HasRole, Entitled, Held
<1>6. CASE call.op \in {"create", "answer", "show"} /\ ~yes
  BY <1>1, <1>6, EndInv DEF Ask
<1>7. CASE call.op \in {"update", "delete"} \/ yes
  <2> DEFINE admin == IF call.op \in {"update", "delete"} THEN yes ELSE call.admin
             next == [call EXCEPT !.admin = admin, !.at = "do"]
  <2>1. calls' = [calls EXCEPT ![c] = next] /\ admin \in BOOLEAN
    <3>1. CASE call.op \in {"update", "delete"}
      BY <1>2, <3>1 DEF Ask, TypeOK
    <3>2. CASE call.op \notin {"update", "delete"}
      <4>1. next = [call EXCEPT !.at = "do"]
        BY <1>3, <3>2 DEF Call
      <4>2. calls' = [calls EXCEPT ![c] = [call EXCEPT !.at = "do"]]
        BY <1>2, <1>7, <3>2 DEF Ask, TypeOK
      <4> QED BY <1>3, <3>2, <4>1, <4>2
    <3> QED BY <3>1, <3>2
  <2>2. next \in Call /\ Keeps(c, next)
    BY <1>3, <2>1 DEF Call, Keeps
  <2>3. next.form = call.form /\ next.at = "do" /\ next.admin = admin /\ calls'[c] = next
    <3>1. next.form = call.form /\ next.at = "do" /\ next.admin = admin
      BY <1>3 DEF Call
    <3> HIDE DEF next
    <3> QED BY <1>2, <2>1, <3>1 DEF TypeOK
  <2>4. CallShape(c)'
    BY <1>1, <1>2, <2>2, <2>3 DEF CallShape, Keeps
  <2>5. Entitled(c)'
    <3>1. call.op = "answer" => AttendeeOf(call.form) \in call.held
      BY <1>5, <1>7 DEF RoleFor, AttendeeOf
    <3>2. call.op = "show" \/ (call.op = "delete" /\ admin) => AdminOf(call.form) \in call.held
      BY <1>5, <1>7 DEF RoleFor, AdminOf
    <3>3. call.op = "delete" /\ call.id \in Stored(surveys) =>
            AdminOf(surveys[call.id]) = AdminOf(call.form)
      <4> SUFFICES ASSUME call.op = "delete", call.id \in Stored(surveys)
                   PROVE  SameSurvey(surveys[call.id], call.form)
        BY DEF SameSurvey, AdminOf
      <4>1. call.id \in SurveyIds /\ surveys[call.id] \in Form
        BY <1>2, StoredDocument
      <4>2. IsCopy(surveys[call.id], call.id) /\ IsCopy(call.form, call.id)
        BY <1>1 DEF IsCopy, OfSurvey
      <4> QED BY <1>4, <4>1, <4>2 DEF SurveysInv, OneSurvey
    <3> HIDE DEF admin, yes, next
    <3> QED BY <1>1, <1>2, <2>2, <2>3, <3>1, <3>2, <3>3
                 DEF Entitled, Held, AdminOf, AttendeeOf, Keeps
  <2>6. NotOlder(c)'
    BY <1>1, <1>2, <2>2, <2>3 DEF NotOlder, Keeps
  <2> HIDE DEF next
  <2> QED
    BY <1>1, <2>1, <2>2, <2>3, <2>4, <2>5, <2>6, NextStepInv
<1> QED BY <1>1, <1>6, <1>7

\* The transaction of deleteSurvey is run again: whoever was admin still is.
LEMMA RetryInv ==
  ASSUME SurveysInv, NEW c \in Calls, Retry(c) PROVE SurveysInv'
<1> DEFINE call == calls[c]
           next == [call EXCEPT !.at = "find", !.form = NoForm]
<1>1. /\ calls[c] # NoCall /\ call.op = "delete"
      /\ UNCHANGED <<surveys, responses, grounds, arrived>>
  BY DEF Retry, At
<1>2. TypeOK /\ CallShape(c) /\ Entitled(c)
  BY <1>1 DEF SurveysInv, CallInv
<1>3. call \in Call
  BY <1>1, <1>2, CallFields
<1>4. calls' = [calls EXCEPT ![c] = next]
  BY DEF Retry, Retried
<1>5. next \in Call /\ Keeps(c, next)
  BY <1>3 DEF Call, Keeps
<1>6. next.form = NoForm /\ next.at = "find" /\ next.admin = call.admin /\ calls'[c] = next
  <2>1. next.form = NoForm /\ next.at = "find" /\ next.admin = call.admin
    BY <1>3 DEF Call
  <2> HIDE DEF next
  <2> QED BY <1>2, <1>4, <2>1 DEF TypeOK
<1> HIDE DEF next
<1>7. CallShape(c)' /\ Entitled(c)' /\ NotOlder(c)'
  BY <1>1, <1>2, <1>5, <1>6 DEF CallShape, Entitled, NotOlder, Held, AdminOf, Keeps
<1> QED BY <1>1, <1>4, <1>5, <1>6, <1>7, NextStepInv
-------------------------------------------------------------------------------
(* Steps that write.                                                       *)

\* What the end of a request leaves of the requests at work.
LEMMA EndOf ==
  ASSUME TypeOK, NEW c \in Calls, End(c)
  PROVE  /\ calls' \in [Calls -> Call \cup {NoCall}]
         /\ calls'[c] = NoCall
         /\ \A d \in Calls : calls'[d] \in {calls[d], NoCall}
         /\ \A d \in Calls \ {c} : calls'[d] = calls[d]
BY DEF End, TypeOK

\* A survey is stored under an id that is free.
LEMMA CreateSurveyInv ==
  ASSUME SurveysInv, NEW c \in Calls, CreateSurvey(c) PROVE SurveysInv'
<1> DEFINE form == calls[c].form
<1>1. /\ calls[c] # NoCall /\ calls[c].op = "create" /\ End(c)
      /\ UNCHANGED <<responses, grounds, arrived>>
  BY DEF CreateSurvey, At
<1>2. TypeOK /\ CallShape(c)
  BY <1>1 DEF SurveysInv, CallInv
<1>3. form \in Form
  BY <1>1, <1>2, CallFields DEF CallShape
<1>4. CASE UNCHANGED surveys
  BY <1>1, <1>4, EndInv
<1>5. ASSUME NEW s \in Free(surveys), surveys' = [surveys EXCEPT ![s] = form]
      PROVE  SurveysInv'
  <2> HIDE DEF form
  <2>1. s \in SurveyIds /\ surveys[s] = Unborn
    BY <1>2, StoredDocument
  <2>2. surveys' \in [SurveyIds -> Form \cup {Unborn, Gone}] /\ surveys'[s] = form
        /\ \A t \in SurveyIds \ {s} : surveys'[t] = surveys[t]
    BY <1>2, <1>3, <1>5, <2>1 DEF TypeOK
  <2>3. TypeOK'
    BY <1>1, <1>2, <2>2, EndOf DEF TypeOK
  <2>4. SurveysMove
    BY <1>3, <2>1, <2>2 DEF SurveysMove
  <2> QED BY <1>1, <1>2, <2>3, <2>4, EndOf, WriteStep
<1> QED BY <1>4, <1>5 DEF CreateSurvey

\* An update counts an edition and leaves the rest alone.
LEMMA UpdateSurveyInv ==
  ASSUME SurveysInv, NEW c \in Calls, UpdateSurvey(c) PROVE SurveysInv'
<1> DEFINE s == calls[c].id
           form == [surveys[s] EXCEPT !.edition = @ + 1]
<1>1. End(c) /\ UNCHANGED <<responses, grounds, arrived>>
  BY DEF UpdateSurvey
<1>2. TypeOK
  BY DEF SurveysInv
<1>3. CASE UNCHANGED surveys
  BY <1>1, <1>3, EndInv
<1>4. CASE /\ s \in Stored(surveys) /\ surveys[s].edition < MaxEditions
           /\ surveys' = [surveys EXCEPT ![s] = form]
  <2>1. s \in SurveyIds /\ surveys[s] \in Form
    BY <1>2, <1>4, StoredDocument
  <2>2. surveys[s].edition \in Nat /\ surveys[s].edition + 1 \in 0..MaxEditions
    BY <1>4, <2>1, SurveysAssumption DEF Form
  <2>3. form \in Form /\ SameSurvey(surveys[s], form) /\ form.edition = surveys[s].edition + 1
    BY <2>1, <2>2 DEF Form, SameSurvey
  <2> HIDE DEF form
  <2>4. surveys' \in [SurveyIds -> Form \cup {Unborn, Gone}] /\ surveys'[s] = form
        /\ \A t \in SurveyIds \ {s} : surveys'[t] = surveys[t]
    BY <1>2, <1>4, <2>1, <2>3 DEF TypeOK
  <2>5. TypeOK'
    BY <1>1, <1>2, <2>4, EndOf DEF TypeOK
  <2>6. surveys[s].edition <= form.edition
    BY <2>2, <2>3
  <2>7. SurveysMove
    BY <2>1, <2>3, <2>4, <2>6 DEF SurveysMove
  <2> QED BY <1>1, <1>2, <2>5, <2>7, EndOf, WriteStep
<1>5. \/ UNCHANGED surveys
      \/ /\ s \in Stored(surveys) /\ surveys[s].edition < MaxEditions
         /\ surveys' = [surveys EXCEPT ![s] = form]
  <2>1. May(calls[c], s) => s \in Stored(surveys)
    BY DEF May
  <2>2. surveys' = [surveys EXCEPT ![s] = Updated(@, calls[c].form)] =>
          surveys' = [surveys EXCEPT ![s] = form]
    BY DEF Updated
  <2> QED BY <2>1, <2>2 DEF UpdateSurvey
<1> QED BY <1>3, <1>4, <1>5

\* A survey goes for good.
LEMMA DeleteSurveyInv ==
  ASSUME SurveysInv, NEW c \in Calls, DeleteSurvey(c) PROVE SurveysInv'
<1> DEFINE s == calls[c].id
<1>1. End(c) /\ UNCHANGED <<responses, grounds, arrived>>
  BY DEF DeleteSurvey
<1>2. TypeOK
  BY DEF SurveysInv
<1>3. CASE UNCHANGED surveys
  BY <1>1, <1>3, EndInv
<1>4. CASE s \in Stored(surveys) /\ surveys' = [surveys EXCEPT ![s] = Gone]
  <2>1. s \in SurveyIds /\ surveys[s] \in Form
    BY <1>2, <1>4, StoredDocument
  <2>2. surveys' \in [SurveyIds -> Form \cup {Unborn, Gone}] /\ surveys'[s] = Gone
        /\ \A t \in SurveyIds \ {s} : surveys'[t] = surveys[t]
    BY <1>2, <1>4, <2>1 DEF TypeOK
  <2>3. TypeOK'
    BY <1>1, <1>2, <2>2, EndOf DEF TypeOK
  <2>4. SurveysMove
    BY <2>1, <2>2 DEF SurveysMove
  <2> QED BY <1>1, <1>2, <2>3, <2>4, EndOf, WriteStep
<1>5. May(calls[c], s) => s \in Stored(surveys)
  BY DEF May
<1>6. ~May(calls[c], s) => UNCHANGED surveys
  BY <1>2 DEF DeleteSurvey, TypeOK
<1>7. May(calls[c], s) => surveys' = [surveys EXCEPT ![s] = Gone]
  BY DEF DeleteSurvey
<1> QED BY <1>3, <1>4, <1>5, <1>6, <1>7

\* A response takes a copy of the survey at hand.
LEMMA CreateSurveyResponseInv ==
  ASSUME SurveysInv, NEW c \in Calls, CreateSurveyResponse(c) PROVE SurveysInv'
<1> DEFINE response == [form |-> calls[c].form, data |-> calls[c].data,
                        user |-> calls[c].user, survey |-> calls[c].id]
<1>1. /\ calls[c] # NoCall /\ calls[c].op = "answer" /\ End(c)
      /\ UNCHANGED <<surveys, grounds, arrived>>
  BY DEF CreateSurveyResponse, At
<1>2. PICK r \in Free(responses) : responses' = [responses EXCEPT ![r] = response]
  BY DEF CreateSurveyResponse
<1>3. TypeOK /\ CallShape(c)
  BY <1>1 DEF SurveysInv, CallInv
<1>4. r \in ResponseIds
  BY <1>3, StoredDocument
<1>5. response \in Response /\ IsCopy(response.form, response.survey)
  <2>1. /\ calls[c].form \in Form /\ calls[c].user \in Users /\ calls[c].id \in SurveyIds
        /\ calls[c].data \in 0..MaxEditions
    BY <1>1, <1>3, CallFields DEF CallShape, OfSurvey
  <2>2. IsCopy(calls[c].form, calls[c].id)
    BY <1>1 DEF IsCopy, OfSurvey
  <2> QED BY <2>1, <2>2 DEF Response
<1> HIDE DEF response
<1>6. responses' \in [ResponseIds -> Response \cup {Unborn, Gone}] /\ responses'[r] = response
      /\ \A q \in ResponseIds \ {r} : responses'[q] = responses[q]
  BY <1>2, <1>3, <1>4, <1>5 DEF TypeOK
<1>7. TypeOK'
  BY <1>1, <1>3, <1>6, EndOf DEF TypeOK
<1>8. \A q \in Stored(responses') :
        \/ q \in Stored(responses) /\ responses'[q] = responses[q]
        \/ IsCopy(responses'[q].form, responses'[q].survey)
  <2> SUFFICES ASSUME NEW q \in Stored(responses')
               PROVE  \/ q \in Stored(responses) /\ responses'[q] = responses[q]
                      \/ IsCopy(responses'[q].form, responses'[q].survey)
    OBVIOUS
  <2>1. q \in ResponseIds /\ responses'[q] \notin {Unborn, Gone}
    BY <1>6 DEF Stored
  <2>2. CASE q = r
    BY <1>5, <1>6, <2>2
  <2>3. CASE q # r
    <3>1. responses'[q] = responses[q]
      BY <1>6, <2>1, <2>3
    <3> QED BY <1>3, <2>1, <3>1 DEF Stored, TypeOK
  <2> QED BY <2>2, <2>3
<1>9. SurveysMove
  BY <1>1 DEF SurveysMove
<1> QED BY <1>1, <1>3, <1>7, <1>8, <1>9, EndOf, WriteStep

\* A step that does nothing to the responses but delete some.
LEMMA ResponsesGo ==
  ASSUME SurveysInv, UNCHANGED <<surveys, grounds, arrived>>,
         calls' \in [Calls -> Call \cup {NoCall}],
         \A d \in Calls : calls'[d] \in {calls[d], NoCall},
         NEW gone \in SUBSET ResponseIds,
         responses' = [r \in ResponseIds |-> IF r \in gone THEN Gone ELSE responses[r]]
  PROVE  SurveysInv'
<1>1. TypeOK
  BY DEF SurveysInv
<1>2. TypeOK'
  BY <1>1 DEF TypeOK
<1>3. \A q \in Stored(responses') : q \in Stored(responses) /\ responses'[q] = responses[q]
  BY <1>1 DEF Stored, TypeOK
<1>4. SurveysMove
  BY DEF SurveysMove
<1> QED BY <1>2, <1>3, <1>4, WriteStep

\* The filter of an update has no response id, so that nothing is updated.
LEMMA UpdateSurveyResponseInv ==
  ASSUME SurveysInv, NEW c \in Calls, UpdateSurveyResponse(c)
  PROVE  SurveysInv' /\ responses' = responses
<1>1. /\ calls[c] # NoCall /\ calls[c].op = "edit" /\ End(c)
      /\ UNCHANGED <<surveys, grounds, arrived>>
  BY DEF UpdateSurveyResponse, At
<1>2. TypeOK /\ calls[c].response = NoID
  BY <1>1 DEF SurveysInv, CallInv, CallShape
<1>3. OneResponse(OrgID, AppID, calls[c].user, calls[c].response) = {}
  BY <1>2, StoredDocument, SurveysAssumption DEF OneResponse
<1>4. responses' = responses
  BY <1>2, <1>3 DEF UpdateSurveyResponse, TypeOK
<1> QED BY <1>1, <1>4, EndInv

\* The client API deletes one response, if its filter ever matches one.
LEMMA DeleteSurveyResponseInv ==
  ASSUME SurveysInv, NEW c \in Calls, DeleteSurveyResponse(c) PROVE SurveysInv'
<1> DEFINE gone == OneResponse(calls[c].response, OrgID, AppID, calls[c].user)
<1>1. TypeOK /\ End(c) /\ UNCHANGED <<surveys, grounds, arrived>>
  BY DEF DeleteSurveyResponse, SurveysInv
<1>2. gone \in SUBSET ResponseIds
  BY <1>1, StoredDocument DEF OneResponse
<1>3. responses' = [r \in ResponseIds |-> IF r \in gone THEN Gone ELSE responses[r]]
  BY DEF DeleteSurveyResponse
<1> HIDE DEF gone
<1> QED BY <1>1, <1>2, <1>3, EndOf, ResponsesGo

\* A user's responses go, for some surveys or for all.
LEMMA DeleteSurveyResponsesInv ==
  ASSUME SurveysInv, NEW u \in Users, NEW ids \in SUBSET SurveyIds, DeleteSurveyResponses(u, ids)
  PROVE  SurveysInv'
<1> DEFINE gone == {r \in Stored(responses) : responses[r].user = u /\ responses[r].survey \in ids}
<1>1. TypeOK /\ UNCHANGED <<surveys, grounds, calls, arrived>>
  BY DEF DeleteSurveyResponses, SurveysInv
<1>2. gone \in SUBSET ResponseIds /\ calls' \in [Calls -> Call \cup {NoCall}]
  BY <1>1, StoredDocument DEF TypeOK
<1>3. responses' = [r \in ResponseIds |-> IF r \in gone THEN Gone ELSE responses[r]]
  BY DEF DeleteSurveyResponses
<1> HIDE DEF gone
<1> QED BY <1>1, <1>2, <1>3, ResponsesGo
-------------------------------------------------------------------------------
(* The calendar changes.                                                   *)

\* A user gets or loses a role: the requests at work hold what their users have now
\* and what they had before.
LEMMA ChangeGroundInv ==
  ASSUME SurveysInv, NEW u \in Users, NEW g \in Ground, ChangeGround(u, g)
  PROVE  SurveysInv'
<1> DEFINE gets(c) == /\ calls[c] # NoCall /\ calls[c].user = u
                      /\ g.role = RoleFor(calls[c].op) /\ g \in grounds'[u]
           next(c) == [calls[c] EXCEPT !.held = @ \cup {g}]
<1>1. /\ TypeOK /\ surveys' = surveys /\ responses' = responses /\ arrived' = arrived
      /\ calls' = [c \in Calls |-> IF gets(c) THEN next(c) ELSE calls[c]]
  BY DEF ChangeGround, SurveysInv
<1>2. /\ grounds' \in [Users -> SUBSET Ground] /\ grounds'[u] \subseteq grounds[u] \cup {g}
      /\ \A v \in Users \ {u} : grounds'[v] = grounds[v]
  BY <1>1 DEF ChangeGround, TypeOK
<1>3. ASSUME NEW c \in Calls, calls[c] # NoCall
      PROVE  /\ calls'[c] # NoCall /\ calls'[c] \in Call
             /\ calls'[c].form = calls[c].form /\ calls'[c].at = calls[c].at
             /\ calls'[c].user = calls[c].user /\ calls'[c].op = calls[c].op
             /\ calls'[c].id = calls[c].id /\ calls'[c].response = calls[c].response
             /\ calls'[c].admin = calls[c].admin /\ calls'[c].since = calls[c].since
             /\ calls'[c].data = calls[c].data
             /\ calls[c].held \subseteq calls'[c].held
             /\ gets(c) => g \in calls'[c].held
  <2>1. calls[c] \in Call
    BY <1>1, <1>3, CallFields
  <2>2. /\ next(c) \in Call
        /\ next(c).form = calls[c].form /\ next(c).at = calls[c].at
        /\ next(c).user = calls[c].user /\ next(c).op = calls[c].op
        /\ next(c).id = calls[c].id /\ next(c).response = calls[c].response
        /\ next(c).admin = calls[c].admin /\ next(c).since = calls[c].since
        /\ next(c).data = calls[c].data
        /\ next(c).held = calls[c].held \cup {g}
    BY <2>1 DEF Call
  <2>3. calls'[c] = next(c) \/ (~gets(c) /\ calls'[c] = calls[c])
    BY <1>1
  <2> HIDE DEF next, gets
  <2> QED BY <2>1, <2>2, <2>3, SurveysAssumption
<1>4. ASSUME NEW c \in Calls, calls[c] = NoCall PROVE calls'[c] = NoCall
  BY <1>1, <1>4
<1>5. calls' \in [Calls -> Call \cup {NoCall}]
  <2>1. \A c \in Calls : calls'[c] \in Call \cup {NoCall}
    BY <1>3, <1>4
  <2>2. DOMAIN calls' = Calls /\ calls' = [c \in Calls |-> calls'[c]]
    BY <1>1
  <2> QED BY <2>1, <2>2
<1>6. TypeOK'
  BY <1>1, <1>2, <1>5 DEF TypeOK
<1>7. ASSUME NEW c \in Calls PROVE CallInv(c)'
  <2> SUFFICES ASSUME calls[c] # NoCall PROVE (CallShape(c) /\ Entitled(c) /\ NotOlder(c))'
    BY <1>4 DEF CallInv
  <2>1. CallShape(c) /\ Entitled(c) /\ NotOlder(c)
    BY DEF SurveysInv, CallInv
  <2>2. \A h \in grounds'[calls[c].user] : h.role = RoleFor(calls[c].op) => h \in calls'[c].held
    <3> SUFFICES ASSUME NEW h \in grounds'[calls[c].user], h.role = RoleFor(calls[c].op)
                 PROVE  h \in calls'[c].held
      OBVIOUS
    <3>1. CASE h \in grounds[calls[c].user]
      BY <1>3, <2>1, <3>1 DEF Entitled, Held
    <3>2. CASE h \notin grounds[calls[c].user]
      <4>1. calls[c].user \in Users
        BY <1>1, CallFields
      <4>2. calls[c].user = u /\ h = g
        BY <1>2, <3>2, <4>1
      <4>3. gets(c)
        BY <4>2
      <4> HIDE DEF gets
      <4> QED BY <1>3, <4>2, <4>3
    <3> QED BY <3>1, <3>2
  <2>3. CallShape(c)'
    BY <1>1, <1>3, <2>1 DEF CallShape
  <2>4. Entitled(c)'
    <3> HIDE DEF gets
    <3>1. Held(calls[c].user, calls[c].op)' \subseteq calls'[c].held
      BY <1>3, <2>2 DEF Held
    <3> QED BY <1>1, <1>3, <2>1, <3>1 DEF Entitled, AdminOf, AttendeeOf
  <2>5. NotOlder(c)'
    BY <1>1, <1>3, <2>1 DEF NotOlder
  <2> QED BY <2>3, <2>4, <2>5
<1>8. SurveysMove
  BY <1>1 DEF SurveysMove
<1>9. \A s \in SurveyIds, f \in Form : IsCopy(f, s)' => IsCopy(f, s)
  <2> SUFFICES ASSUME NEW s \in SurveyIds, NEW f \in Form, IsCopy(f, s)' PROVE IsCopy(f, s)
    OBVIOUS
  <2>1. ASSUME NEW c \in Calls, calls'[c] # NoCall, calls'[c].op \in OfSurvey,
               calls'[c].id = s, f = calls'[c].form
        PROVE  IsCopy(f, s)
    <3>1. /\ calls[c] # NoCall /\ calls[c].op = calls'[c].op /\ calls[c].id = calls'[c].id
          /\ calls[c].form = calls'[c].form
      BY <1>3, <1>4, <2>1
    <3> QED BY <2>1, <3>1 DEF IsCopy
  <2> QED BY <1>1, <2>1 DEF IsCopy, Stored
<1>10. OneSurvey'
  <2>1. \A s \in SurveyIds, f \in Form :
          IsCopy(f, s)' => \E h \in Form : IsCopy(h, s) /\ SameSurvey(f, h)
    BY <1>9 DEF SameSurvey
  <2> QED BY <1>6, <1>8, <2>1, OneSurveyKept
<1> QED BY <1>6, <1>7, <1>10 DEF SurveysInv
-------------------------------------------------------------------------------
(* The invariant.                                                          *)

\* No request is at work at the start, and there are no responses.
LEMMA SurveysInvInit == Init => SurveysInv
<1> SUFFICES ASSUME Init PROVE SurveysInv
  OBVIOUS
<1>1. arrived \in 0..MaxRequests
  BY SurveysAssumption DEF Init
<1>2. TypeOK
  BY <1>1 DEF Init, TypeOK
<1>3. \A c \in Calls : CallInv(c)
  BY DEF Init, CallInv
<1>4. OneSurvey
  BY <1>2, StoredDocument, SurveysAssumption DEF Init, OneSurvey, IsCopy, SameSurvey, Stored, Free
<1> QED BY <1>2, <1>3, <1>4 DEF SurveysInv

\* Every step keeps it.
LEMMA SurveysInvStep == SurveysInv /\ [Next]_vars => SurveysInv'
<1> SUFFICES ASSUME SurveysInv, [Next]_vars PROVE SurveysInv'
  OBVIOUS
<1>1. ASSUME NEW c \in Calls, Arrive(c) PROVE SurveysInv'
  BY <1>1, ArriveInv
<1>2. ASSUME NEW c \in Calls, Step(c) PROVE SurveysInv'
  <2>1. CASE CallFails(c) \/ ShowResponses(c)
    BY <2>1, EndInv DEF CallFails, ShowResponses
  <2> QED
    BY <1>2, <2>1, FindInv, AskInv, RetryInv, CreateSurveyInv, UpdateSurveyInv, DeleteSurveyInv,
       CreateSurveyResponseInv, UpdateSurveyResponseInv, DeleteSurveyResponseInv DEF Step
<1>3. ASSUME NEW u \in Users, NEW ids \in SUBSET SurveyIds, DeleteSurveyResponses(u, ids)
      PROVE  SurveysInv'
  BY <1>3, DeleteSurveyResponsesInv
<1>4. ASSUME NEW u \in Users, NEW g \in Ground, ChangeGround(u, g) PROVE SurveysInv'
  BY <1>4, ChangeGroundInv
<1>5. CASE UNCHANGED vars
  <2>1. UNCHANGED <<surveys, responses, grounds, calls, arrived>>
    BY <1>5 DEF vars
  <2>2. TypeOK' /\ SurveysMove
    BY <2>1 DEF SurveysInv, TypeOK, SurveysMove
  <2> QED BY <2>1, <2>2, WriteStep
<1> QED BY <1>1, <1>2, <1>3, <1>4, <1>5 DEF Next

\* So it always holds.
LEMMA SurveysInvariant == Spec => []SurveysInv
<1> QED BY SurveysInvInit, SurveysInvStep, PTL DEF Spec
-------------------------------------------------------------------------------
(* What follows from it.                                                   *)

\* The collections hold surveys and responses, and a request at work is at one of the
\* steps of its handler.
THEOREM SurveysTypeCorrect == Spec => []TypeOK
<1>1. SurveysInv => TypeOK
  BY DEF SurveysInv
<1> QED BY <1>1, SurveysInvariant, PTL

\* The names of those who answered an anonymous survey are shown to nobody, and the
\* responses to a sensitive one not at all: whatever survey the handler has read, the
\* copy in each response agrees with it in its flags.
THEOREM NamesStayHidden == Spec => []NamesHidden
<1>1. SurveysInv => NamesHidden
  <2> SUFFICES ASSUME SurveysInv, NEW c \in Calls, At(c, {"show", "showAll"}, "do"),
                      NEW x \in Answer(calls[c])
               PROVE  ~x.form.sensitive /\ (x.form.anonymous => ~x.named)
    BY DEF NamesHidden
  <2>0. PICK r \in Stored(responses) :
          /\ responses[r].survey = calls[c].id
          /\ x = [form |-> responses[r].form, named |-> ~calls[c].form.anonymous]
    BY DEF Answer
  <2>1. /\ TypeOK /\ CallShape(c) /\ calls[c] # NoCall
        /\ calls[c].op \in {"show", "showAll"} /\ calls[c].at = "do"
    BY DEF At, SurveysInv, CallInv
  <2>2. calls[c].form \in Form /\ ~calls[c].form.sensitive /\ calls[c].id \in SurveyIds
    BY <2>1, CallFields DEF CallShape, OfSurvey
  <2>3. responses[r].form \in Form
    BY <2>0, <2>1, StoredDocument DEF Response
  <2>4. IsCopy(calls[c].form, calls[c].id) /\ IsCopy(responses[r].form, calls[c].id)
    BY <2>0, <2>1 DEF IsCopy, OfSurvey
  <2>5. SameSurvey(calls[c].form, responses[r].form)
    BY <2>2, <2>3, <2>4 DEF SurveysInv, OneSurvey
  <2>6. ~responses[r].form.sensitive /\ responses[r].form.anonymous = calls[c].form.anonymous
    BY <2>2, <2>5 DEF SameSurvey
  <2>7. x.form = responses[r].form /\ x.named = ~calls[c].form.anonymous
    BY <2>0
  <2> QED BY <2>6, <2>7
<1> QED BY <1>1, SurveysInvariant, PTL

\* Responses are shown only to admins of the survey's event, by what the calendar said
\* while the request was at work, or through an admin API: no update between the
\* question and the answer moves the survey to another event.
THEOREM ShowsToEntitled == Spec => []ShownToEntitled
<1>1. SurveysInv => ShownToEntitled
  <2> SUFFICES ASSUME SurveysInv, NEW c \in Calls, At(c, {"show", "showAll"}, "do"),
                      calls[c].id \in Stored(surveys)
               PROVE  \/ Staff \in calls[c].held
                      \/ [event |-> surveys[calls[c].id].event, role |-> "admin"] \in calls[c].held
    BY DEF ShownToEntitled
  <2>1. /\ TypeOK /\ CallShape(c) /\ Entitled(c) /\ calls[c] # NoCall
        /\ calls[c].op \in {"show", "showAll"} /\ calls[c].at = "do"
    BY DEF At, SurveysInv, CallInv
  <2>2. calls[c].form \in Form /\ calls[c].id \in SurveyIds
    BY <2>1, CallFields DEF CallShape, OfSurvey
  <2>3. surveys[calls[c].id] \in Form
    BY <2>1, StoredDocument
  <2>4. IsCopy(calls[c].form, calls[c].id) /\ IsCopy(surveys[calls[c].id], calls[c].id)
    BY <2>1 DEF IsCopy, OfSurvey
  <2>5. SameSurvey(calls[c].form, surveys[calls[c].id])
    BY <2>2, <2>3, <2>4 DEF SurveysInv, OneSurvey
  <2> QED BY <2>1, <2>5 DEF Entitled, AdminOf, SameSurvey
<1> QED BY <1>1, SurveysInvariant, PTL

\* Only DeleteSurvey makes a survey go.
LEMMA OnlyDeletes ==
  ASSUME SurveysInv, Next, NEW s \in Stored(surveys), surveys'[s] = Gone
  PROVE  \E c \in Calls : DeleteSurvey(c) /\ calls[c].id = s /\ May(calls[c], s)
<1>1. TypeOK /\ s \in SurveyIds /\ surveys[s] \in Form /\ surveys[s] # Gone
  BY StoredDocument, SurveysAssumption DEF SurveysInv
<1>2. ASSUME NEW c \in Calls, Arrive(c) PROVE FALSE
  BY <1>1, <1>2 DEF Arrive, StartCreate, StartEdit, StartUpdate, StartDelete, StartAnswer,
                    StartShow, StartShowAll, StartRemove, Begin
<1>3. ASSUME NEW c \in Calls, CreateSurvey(c) PROVE FALSE
  <2>1. PICK t \in Free(surveys) : surveys' = [surveys EXCEPT ![t] = calls[c].form]
    BY <1>1, <1>3 DEF CreateSurvey
  <2>2. t # s
    BY <1>1, <2>1, SurveysAssumption DEF Free
  <2> QED BY <1>1, <2>1, <2>2 DEF TypeOK
<1>4. ASSUME NEW c \in Calls, UpdateSurvey(c) PROVE FALSE
  <2>1. calls[c].id = s
    BY <1>1, <1>4 DEF UpdateSurvey, TypeOK
  <2>2. /\ surveys' = [surveys EXCEPT ![s] = Updated(@, calls[c].form)]
        /\ surveys[s].edition < MaxEditions
    BY <1>1, <1>4, <2>1 DEF UpdateSurvey
  <2>3. surveys[s].edition + 1 \in 0..MaxEditions
    <3>1. surveys[s].edition \in Nat
      BY <1>1 DEF Form
    <3> QED BY <2>2, <3>1, SurveysAssumption
  <2>4. Updated(surveys[s], calls[c].form) \in Form
    BY <1>1, <2>3 DEF Updated, Form
  <2> QED BY <1>1, <2>2, <2>4, SurveysAssumption DEF TypeOK
<1>5. ASSUME NEW c \in Calls, DeleteSurvey(c)
      PROVE  calls[c].id = s /\ May(calls[c], s)
  BY <1>1, <1>5 DEF DeleteSurvey, TypeOK
<1>6. ASSUME NEW c \in Calls,
             \/ Find(c) \/ Ask(c) \/ Retry(c) \/ CallFails(c) \/ ShowResponses(c)
             \/ CreateSurveyResponse(c) \/ UpdateSurveyResponse(c) \/ DeleteSurveyResponse(c)
      PROVE  FALSE
  BY <1>1, <1>6 DEF Find, Ask, Retry, CallFails, ShowResponses,
                    CreateSurveyResponse, UpdateSurveyResponse, DeleteSurveyResponse
<1>7. ASSUME NEW u \in Users,
             \/ \E ids \in SUBSET SurveyIds : DeleteSurveyResponses(u, ids)
             \/ \E g \in Ground : ChangeGround(u, g)
      PROVE  FALSE
  BY <1>1, <1>7 DEF DeleteSurveyResponses, ChangeGround
<1> QED BY <1>2, <1>3, <1>4, <1>5, <1>6, <1>7 DEF Next, Step

\* Only CreateSurveyResponse stores a response.
LEMMA OnlyAnswers ==
  ASSUME SurveysInv, Next, NEW r \in Free(responses), responses'[r] # Unborn
  PROVE  \E c \in Calls :
           /\ CreateSurveyResponse(c)
           /\ responses'[r] = [form |-> calls[c].form, data |-> calls[c].data,
                               user |-> calls[c].user, survey |-> calls[c].id]
<1>1. TypeOK /\ r \in ResponseIds /\ responses[r] = Unborn
  BY StoredDocument DEF SurveysInv
<1>2. ASSUME NEW c \in Calls, Arrive(c) PROVE FALSE
  BY <1>1, <1>2 DEF Arrive, StartCreate, StartEdit, StartUpdate, StartDelete, StartAnswer,
                    StartShow, StartShowAll, StartRemove, Begin
<1>3. ASSUME NEW c \in Calls, CreateSurveyResponse(c)
      PROVE  responses'[r] = [form |-> calls[c].form, data |-> calls[c].data,
                              user |-> calls[c].user, survey |-> calls[c].id]
  <2>1. PICK q \in Free(responses) : responses' = [responses EXCEPT ![q] =
          [form |-> calls[c].form, data |-> calls[c].data,
           user |-> calls[c].user, survey |-> calls[c].id]]
    BY <1>3 DEF CreateSurveyResponse
  <2> QED BY <1>1, <2>1 DEF TypeOK
<1>4. ASSUME NEW c \in Calls, UpdateSurveyResponse(c) PROVE FALSE
  BY <1>1, <1>4, UpdateSurveyResponseInv
<1>5. ASSUME NEW c \in Calls, DeleteSurveyResponse(c) PROVE FALSE
  BY <1>1, <1>5, StoredDocument DEF DeleteSurveyResponse, OneResponse, Stored
<1>6. ASSUME NEW c \in Calls,
             \/ Find(c) \/ Ask(c) \/ Retry(c) \/ CallFails(c) \/ ShowResponses(c)
             \/ CreateSurvey(c) \/ UpdateSurvey(c) \/ DeleteSurvey(c)
      PROVE  FALSE
  BY <1>1, <1>6 DEF Find, Ask, Retry, CallFails, ShowResponses,
                    CreateSurvey, UpdateSurvey, DeleteSurvey
<1>7. ASSUME NEW u \in Users, NEW ids \in SUBSET SurveyIds, DeleteSurveyResponses(u, ids)
      PROVE  FALSE
  BY <1>1, <1>7 DEF DeleteSurveyResponses, Stored
<1>8. ASSUME NEW u \in Users, NEW g \in Ground, ChangeGround(u, g) PROVE FALSE
  BY <1>1, <1>8 DEF ChangeGround
<1> QED BY <1>2, <1>3, <1>4, <1>5, <1>6, <1>7, <1>8 DEF Next, Step

\* Whoever deletes a survey is its creator, comes through an admin API, or was admin of
\* its event while the request was at work.
THEOREM DeletesByEntitled == Spec => DeletedByEntitled
<1>1. ASSUME SurveysInv, Next, NEW s \in Stored(surveys), surveys'[s] = Gone
      PROVE  \E c \in Calls :
               /\ Ends(c, "delete") /\ calls[c].id = s
               /\ \/ calls[c].user = surveys[s].creator
                  \/ Staff \in calls[c].held
                  \/ [event |-> surveys[s].event, role |-> "admin"] \in calls[c].held
  <2>1. PICK c \in Calls : DeleteSurvey(c) /\ calls[c].id = s /\ May(calls[c], s)
    BY <1>1, OnlyDeletes
  <2>2. TypeOK /\ calls[c] # NoCall /\ calls[c].op = "delete" /\ End(c)
    BY <1>1, <2>1 DEF DeleteSurvey, At, SurveysInv
  <2>3. Ends(c, "delete")
    BY <2>2, EndOf DEF Ends
  <2>4. calls[c].admin =>
          Staff \in calls[c].held \/ AdminOf(surveys[s]) \in calls[c].held
    BY <1>1, <2>1, <2>2 DEF SurveysInv, CallInv, Entitled
  <2> QED BY <2>1, <2>3, <2>4 DEF May, AdminOf
<1>2. SurveysInv /\ [Next]_vars =>
        [\A s \in Stored(surveys) : surveys'[s] = Gone =>
           \E c \in Calls :
             /\ Ends(c, "delete") /\ calls[c].id = s
             /\ \/ calls[c].user = surveys[s].creator
                \/ Staff \in calls[c].held
                \/ [event |-> surveys[s].event, role |-> "admin"] \in calls[c].held]_vars
  BY <1>1
<1> QED BY <1>2, SurveysInvariant, PTL DEF Spec, DeletedByEntitled

\* A response to the survey of an event comes from somebody who attended it, by what the
\* calendar said while the request was at work.
THEOREM AnswersByAttendees == Spec => AnsweredByAttendees
<1>1. ASSUME SurveysInv, Next, NEW r \in Free(responses), responses'[r] # Unborn
      PROVE  \E c \in Calls :
               /\ Ends(c, "answer") /\ calls[c].user = responses'[r].user
               /\ \/ responses'[r].form.event = NoEvent
                  \/ [event |-> responses'[r].form.event, role |-> "attended"] \in calls[c].held
  <2>1. PICK c \in Calls :
          /\ CreateSurveyResponse(c)
          /\ responses'[r] = [form |-> calls[c].form, data |-> calls[c].data,
                              user |-> calls[c].user, survey |-> calls[c].id]
    BY <1>1, OnlyAnswers
  <2>2. /\ TypeOK /\ calls[c] # NoCall /\ End(c)
        /\ calls[c].op = "answer" /\ calls[c].at = "do"
    BY <1>1, <2>1 DEF CreateSurveyResponse, At, SurveysInv
  <2>3. Ends(c, "answer")
    BY <2>2, EndOf DEF Ends
  <2>4. calls[c].form.event = NoEvent \/ AttendeeOf(calls[c].form) \in calls[c].held
    BY <1>1, <2>2 DEF SurveysInv, CallInv, Entitled
  <2>5. responses'[r].user = calls[c].user /\ responses'[r].form = calls[c].form
    BY <2>1
  <2> QED BY <2>3, <2>4, <2>5 DEF AttendeeOf
<1>2. SurveysInv /\ [Next]_vars =>
        [\A r \in Free(responses) : responses'[r] # Unborn =>
           \E c \in Calls :
             /\ Ends(c, "answer") /\ calls[c].user = responses'[r].user
             /\ \/ responses'[r].form.event = NoEvent
                \/ [event |-> responses'[r].form.event, role |-> "attended"] \in calls[c].held]_vars
  BY <1>1
<1> QED BY <1>2, SurveysInvariant, PTL DEF Spec, AnsweredByAttendees

\* What a response takes over from storage is the edition that GetSurvey read while the
\* request was at work, and no older one, whatever the client has sent; the questions
\* are the client's, of that edition or of an older one, and never of a newer.
THEOREM FormsAreCurrent == Spec => FormIsCurrent
<1>1. ASSUME SurveysInv, Next, NEW r \in Free(responses), responses'[r] # Unborn
      PROVE  \E c \in Calls : /\ Ends(c, "answer") /\ calls[c].id = responses'[r].survey
                              /\ responses'[r].data <= calls[c].since
                              /\ calls[c].since <= responses'[r].form.edition
  <2>1. PICK c \in Calls :
          /\ CreateSurveyResponse(c)
          /\ responses'[r] = [form |-> calls[c].form, data |-> calls[c].data,
                              user |-> calls[c].user, survey |-> calls[c].id]
    BY <1>1, OnlyAnswers
  <2>2. /\ TypeOK /\ calls[c] # NoCall /\ End(c)
        /\ calls[c].op = "answer" /\ calls[c].at = "do"
    BY <1>1, <2>1 DEF CreateSurveyResponse, At, SurveysInv
  <2>3. Ends(c, "answer")
    BY <2>2, EndOf DEF Ends
  <2>4. calls[c].data <= calls[c].since /\ calls[c].since <= calls[c].form.edition
    BY <1>1, <2>2 DEF SurveysInv, CallInv, NotOlder
  <2>5. /\ responses'[r].survey = calls[c].id /\ responses'[r].form = calls[c].form
        /\ responses'[r].data = calls[c].data
    BY <2>1
  <2> QED BY <2>3, <2>4, <2>5
<1>2. SurveysInv /\ [Next]_vars =>
        [\A r \in Free(responses) : responses'[r] # Unborn =>
           \E c \in Calls : /\ Ends(c, "answer") /\ calls[c].id = responses'[r].survey
                            /\ responses'[r].data <= calls[c].since
                            /\ calls[c].since <= responses'[r].form.edition]_vars
  BY <1>1
<1> QED BY <1>2, SurveysInvariant, PTL DEF Spec, FormIsCurrent
===============================================================================
