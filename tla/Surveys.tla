-------------------------------- MODULE Surveys --------------------------------
(***************************************************************************)
(* Surveys and the responses to them: the handlers that create, change and *)
(* delete surveys (core/app_shared.go), those that store, show and delete  *)
(* responses (core/app_client.go, core/app_admin.go), and the storage they *)
(* call.  The Calendar building block knows who is an admin of an event    *)
(* and who attended it; it is asked in the middle of a handler, and its    *)
(* answer may be out of date when the handler writes.  The deletion of a   *)
(* survey is a transaction, which the driver may run again.                *)
(***************************************************************************)
EXTENDS Naturals, Documents

CONSTANTS
  Users,
  Events,       \* ids of calendar events
  SurveyIds,    \* ids for new surveys
  ResponseIds,  \* ids for new responses
  Calls,        \* HTTP requests that can be at work at once
  OrgID, AppID, \* the organisation and the application of all claims
  NoEvent,      \* no calendar_event_id
  NoForm,       \* no survey at hand
  NoID,         \* an empty id
  NoCall,       \* a request slot that is free
  Kinds,        \* the anonymous and sensitive flags that surveys are created with
  MaxEditions,  \* bound on the updates of a survey
  MaxRequests,  \* bound on the requests that arrive
  Faults        \* TRUE if calls to storage and to other services may fail

\* What these handlers look at in a model.Survey; edition counts its updates, of which
\* each may change its title, type and rules as well as its questions.
Form == [anonymous : BOOLEAN, sensitive : BOOLEAN, creator : Users,
         event : Events \cup {NoEvent}, edition : 0..MaxEditions]

Kind(form) == [anonymous |-> form.anonymous, sensitive |-> form.sensitive]

\* A stored model.SurveyResponse.  Its copy of the survey is put together: Data,
\* SurveyStats, ResultJSON and UnstructuredProperties come from the client, data being
\* the edition of the questions in them, and the rest, which is form, from storage.
Response == [form : Form, data : 0..MaxEditions, user : Users, survey : SurveyIds]

\* Why somebody may do something: a role at an event, or the use of an admin API.
Ground == [event : Events, role : {"admin", "attended"}]
Staff  == [event |-> NoEvent, role |-> "staff"]

\* A request at work: its operation, the step that comes next, its user, the ids
\* of its path, the survey at hand, the edition whose questions its client answered,
\* the variable admin of the code, and, for the properties only, the grounds for it
\* that its user had at some time since it began and the edition that the survey of
\* an answer had then.
Call == [form : Form \cup {NoForm}, user : Users,
         op : {"create", "update", "delete", "answer", "show", "showAll", "edit", "remove"},
         at : {"find", "ask", "do"},
         id : SurveyIds \cup {NoID}, response : ResponseIds \cup {NoID}, admin : BOOLEAN,
         data : 0..MaxEditions, held : SUBSET (Ground \cup {Staff}), since : 0..MaxEditions]

ASSUME SurveysAssumption ==
  /\ Kinds \subseteq [anonymous : BOOLEAN, sensitive : BOOLEAN]
  /\ MaxEditions \in Nat /\ MaxRequests \in Nat /\ Faults \in BOOLEAN
  /\ NoEvent \notin Events
  /\ NoID \notin ResponseIds
  /\ {Unborn, Gone} \cap (Form \cup Response) = {}
  /\ NoForm \notin Form /\ NoCall \notin Call

VARIABLES
  surveys,    \* collection surveys
  responses,  \* collection survey_responses
  grounds,    \* what the Calendar building block knows of each user
  calls,
  arrived     \* how many requests have arrived

vars == <<surveys, responses, grounds, calls, arrived>>

TypeOK ==
  /\ surveys \in [SurveyIds -> Form \cup {Unborn, Gone}]
  /\ responses \in [ResponseIds -> Response \cup {Unborn, Gone}]
  /\ grounds \in [Users -> SUBSET Ground]
  /\ calls \in [Calls -> Call \cup {NoCall}]
  /\ arrived \in 0..MaxRequests

\* The service starts on a database that may hold surveys.
Init ==
  /\ surveys \in [SurveyIds -> {Unborn} \cup
       {f \in Form : f.edition = 0 /\ Kind(f) \in Kinds}]
  /\ responses = [r \in ResponseIds |-> Unborn]
  /\ grounds \in [Users -> SUBSET Ground]
  /\ calls = [c \in Calls |-> NoCall]
  /\ arrived = 0

At(c, op, place) == calls[c] # NoCall /\ calls[c].op \in op /\ calls[c].at = place

End(c) == calls' = [calls EXCEPT ![c] = NoCall]
-------------------------------------------------------------------------------
(* The Calendar building block.                                            *)

\* The role that an operation asks the calendar for.
RoleFor(op) == IF op = "answer" THEN "attended" ELSE "admin"

\* An event gets an admin or an attendee, or loses one.
ChangeGround(u, g) ==
  /\ grounds' = [grounds EXCEPT ![u] = IF g \in @ THEN @ \ {g} ELSE @ \cup {g}]
  /\ calls' = [c \in Calls |->
       IF /\ calls[c] # NoCall /\ calls[c].user = u
          /\ g.role = RoleFor(calls[c].op) /\ g \in grounds'[u]
       THEN [calls[c] EXCEPT !.held = @ \cup {g}] ELSE calls[c]]
  /\ UNCHANGED <<surveys, responses, arrived>>

\* A mistake: whoever has to do with the event counts as its admin.
AnyRole(u, role, event) == \E g \in grounds[u] : g.event = event

\* isEventAdmin and hasAttendedEvent: a user of the event with that role.
HasRole(u, role, event) == [event |-> event, role |-> role] \in grounds[u]
-------------------------------------------------------------------------------
(* Requests arrive.                                                        *)

Held(u, op) == {g \in grounds[u] : g.role = RoleFor(op)}

\* staff: through an admin API.
Begin(c, op, place, u, staff, s, r, form) ==
  /\ calls[c] = NoCall
  /\ arrived < MaxRequests /\ arrived' = arrived + 1
  /\ calls' = [calls EXCEPT ![c] =
       [form |-> form, user |-> u, op |-> op, at |-> place, id |-> s, response |-> r,
        admin |-> staff, held |-> Held(u, op) \cup IF staff THEN {Staff} ELSE {},
        data |-> IF op = "answer" THEN form.edition ELSE 0,
        since |-> IF op = "answer" THEN surveys[s].edition ELSE 0]]
  /\ UNCHANGED <<surveys, responses, grounds>>

\* createSurvey; both APIs look for the admin of the event.
StartCreate(c, u) ==
  \E event \in Events \cup {NoEvent}, kind \in Kinds :
    Begin(c, "create", IF event = NoEvent THEN "do" ELSE "ask", u, FALSE, NoID, NoID,
          [anonymous |-> kind.anonymous, sensitive |-> kind.sensitive,
           creator |-> u, event |-> event, edition |-> 0])

\* updateSurvey; the survey at hand is that of the request's body, whose flags
\* are never looked at.
StartUpdate(c, u, staff, s) ==
  \E event \in Events \cup {NoEvent} :
    Begin(c, "update", IF staff \/ event = NoEvent THEN "do" ELSE "ask", u, staff, s, NoID,
          [anonymous |-> FALSE, sensitive |-> FALSE,
           creator |-> u, event |-> event, edition |-> 0])

StartDelete(c, u, staff, s) == Begin(c, "delete", "find", u, staff, s, NoID, NoForm)

\* createSurveyResponse; the client sends the survey back as it once got it.
StartAnswer(c, u, s) ==
  /\ s \in Stored(surveys)
  /\ \E edition \in 0..surveys[s].edition :
       Begin(c, "answer", "find", u, FALSE, s, NoID, [surveys[s] EXCEPT !.edition = edition])

\* GET /surveys/{id}/responses; only GET /admin/surveys/{id}/response asks for
\* the permission of an admin.
StartShow(c, u, s)    == Begin(c, "show", "find", u, FALSE, s, NoID, NoForm)
StartShowAll(c, u, s) == Begin(c, "showAll", "find", u, TRUE, s, NoID, NoForm)

\* updateSurveyResponse gives the path's id to the survey of the body, which is
\* left out here, and none to the response.
StartEdit(c, u) == Begin(c, "edit", "do", u, FALSE, NoID, NoID, NoForm)

StartRemove(c, u, r) == Begin(c, "remove", "do", u, FALSE, NoID, r, NoForm)
-------------------------------------------------------------------------------
(* Their steps.                                                            *)

\* A mistake: the survey is taken as the client sent it, if it sent one.
ClientForm(call) == IF call.form = NoForm THEN surveys[call.id] ELSE call.form

\* The document that GetSurvey finds.  For a response, the code puts the client's data
\* into it at once; here call.data keeps that until the response is stored.
FoundForm(call) == surveys[call.id]

\* Whether the handler ends when it has read the survey: for a sensitive survey,
\* and, on the routes for event admins, for one without an event.
Refused(call, form) ==
  /\ call.op \in {"show", "showAll"}
  /\ form.sensitive \/ (call.op = "show" /\ form.event = NoEvent)

\* Whether the calendar has to be asked.
Asks(call, form) ==
  /\ call.op # "showAll"
  /\ form.event # NoEvent
  /\ ~(call.op = "delete" /\ call.admin)

\* GetSurvey, in deleteSurvey, CreateSurveyResponse and GetAllSurveyResponses.
Find(c) ==
  LET form == FoundForm(calls[c])
  IN  /\ At(c, {"delete", "answer", "show", "showAll"}, "find")
      /\ IF calls[c].id \notin Stored(surveys) \/ Refused(calls[c], form) THEN End(c)
         ELSE calls' = [calls EXCEPT ![c].form = form,
                                     ![c].at = IF Asks(calls[c], form) THEN "ask" ELSE "do"]
      /\ UNCHANGED <<surveys, responses, grounds, arrived>>

\* GetEventUsers, and what the handlers do with the answer: updateSurvey and
\* deleteSurvey go on as one who is no admin, the others end.
Ask(c) ==
  LET call == calls[c]
      yes  == HasRole(call.user, RoleFor(call.op), call.form.event)
  IN  /\ At(c, {"create", "update", "delete", "answer", "show"}, "ask")
      /\ IF call.op \in {"update", "delete"}
         THEN calls' = [calls EXCEPT ![c].admin = yes, ![c].at = "do"]
         ELSE IF yes THEN calls' = [calls EXCEPT ![c].at = "do"] ELSE End(c)
      /\ UNCHANGED <<surveys, responses, grounds, arrived>>

\* CreateSurvey; a unique index refuses a second survey for an event.
CreateSurvey(c) ==
  LET form == calls[c].form
  IN  /\ At(c, {"create"}, "do")
      /\ \/ /\ form.event = NoEvent \/ \A s \in Stored(surveys) : surveys[s].event # form.event
            /\ \E s \in Free(surveys) : surveys' = [surveys EXCEPT ![s] = form]
         \/ /\ form.event # NoEvent
            /\ \E s \in Stored(surveys) : surveys[s].event = form.event
            /\ UNCHANGED surveys
      /\ End(c)
      /\ UNCHANGED <<responses, grounds, arrived>>

\* The filter by creator of UpdateSurvey and DeleteSurvey.
May(call, s) == s \in Stored(surveys) /\ (call.admin \/ surveys[s].creator = call.user)

\* A mistake: $set takes over the anonymous flag of the request as well.
UpdatedAnonymous(form, request) ==
  [form EXCEPT !.edition = @ + 1, !.anonymous = request.anonymous]

\* A mistake: the update is applied twice.
UpdatedTwice(form, request) == [form EXCEPT !.edition = @ + 2]

\* The $set of UpdateSurvey leaves creator, event and the two flags alone.
Updated(form, request) == [form EXCEPT !.edition = @ + 1]

UpdateSurvey(c) ==
  LET call == calls[c]
  IN  /\ At(c, {"update"}, "do")
      /\ \/ /\ May(call, call.id)
            /\ surveys[call.id].edition < MaxEditions
            /\ surveys' = [surveys EXCEPT ![call.id] = Updated(@, call.form)]
         \/ ~May(call, call.id) /\ UNCHANGED surveys
      /\ End(c)
      /\ UNCHANGED <<responses, grounds, arrived>>

\* DeleteSurvey and the commit.  A survey that has changed since the transaction
\* read it is a write conflict, for Retry or CallFails.
DeleteSurvey(c) ==
  LET call == calls[c]
  IN  /\ At(c, {"delete"}, "do")
      /\ surveys[call.id] = call.form
      /\ surveys' = [surveys EXCEPT ![call.id] = IF May(call, call.id) THEN Gone ELSE @]
      /\ End(c)
      /\ UNCHANGED <<responses, grounds, arrived>>

\* A mistake: an attempt that is given up leaves the user an admin.
RetriedAsAdmin(call) == [call EXCEPT !.at = "find", !.form = NoForm, !.admin = TRUE]

\* WithTransaction runs the closure again; its variable admin keeps its value.
Retried(call) == [call EXCEPT !.at = "find", !.form = NoForm]

\* After a write conflict, or another error that passes.
Retry(c) ==
  /\ At(c, {"delete"}, "do")
  /\ Faults \/ surveys[calls[c].id] # calls[c].form
  /\ calls' = [calls EXCEPT ![c] = Retried(@)]
  /\ UNCHANGED <<surveys, responses, grounds, arrived>>

CreateSurveyResponse(c) ==
  LET call == calls[c]
  IN  /\ At(c, {"answer"}, "do")
      /\ \E r \in Free(responses) :
           responses' = [responses EXCEPT ![r] =
             [form |-> call.form, data |-> call.data, user |-> call.user, survey |-> call.id]]
      /\ End(c)
      /\ UNCHANGED <<surveys, grounds, arrived>>

\* The responses a request shows: each one's copy of the survey, and whether its
\* user is named, which depends on the survey as the request has read it.
Answer(call) ==
  {[form |-> responses[r].form, named |-> ~call.form.anonymous] :
     r \in {q \in Stored(responses) : responses[q].survey = call.id}}

\* GetAllSurveyResponses and GetAllSurveysResponses send the Answer.
ShowResponses(c) ==
  /\ At(c, {"show", "showAll"}, "do")
  /\ End(c)
  /\ UNCHANGED <<surveys, responses, grounds, arrived>>

\* The filter for one response.
OneResponse(orgID, appID, userID, id) ==
  {r \in Stored(responses) : r = id /\ responses[r].user = userID /\ OrgID = orgID /\ AppID = appID}

\* UpdateSurveyResponse replaces the survey of the response that matches.
UpdateSurveyResponse(c) ==
  /\ At(c, {"edit"}, "do")
  /\ responses' = [r \in ResponseIds |->
       IF r \in OneResponse(OrgID, AppID, calls[c].user, calls[c].response)
       THEN [responses[r] EXCEPT !.form = calls[c].form, !.data = calls[c].data]
       ELSE responses[r]]
  /\ End(c)
  /\ UNCHANGED <<surveys, grounds, arrived>>

\* The client API calls DeleteSurveyResponse(id, orgID, appID, userID) of a storage
\* whose parameters are (orgID, appID, userID, id).
DeleteSurveyResponse(c) ==
  /\ At(c, {"remove"}, "do")
  /\ responses' = [r \in ResponseIds |->
       IF r \in OneResponse(calls[c].response, OrgID, AppID, calls[c].user)
       THEN Gone ELSE responses[r]]
  /\ End(c)
  /\ UNCHANGED <<surveys, grounds, arrived>>

\* DELETE /survey-responses, for one survey or for all.
DeleteSurveyResponses(u, ids) ==
  /\ responses' = [r \in ResponseIds |->
       IF r \in Stored(responses) /\ responses[r].user = u /\ responses[r].survey \in ids
       THEN Gone ELSE responses[r]]
  /\ UNCHANGED <<surveys, grounds, calls, arrived>>

\* A call fails that the handler waits for, or the process ends.
CallFails(c) ==
  /\ Faults
  /\ calls[c] # NoCall
  /\ End(c)
  /\ UNCHANGED <<surveys, responses, grounds, arrived>>
-------------------------------------------------------------------------------
Arrive(c) ==
  \E u \in Users :
    \/ StartCreate(c, u) \/ StartEdit(c, u)
    \/ \E s \in SurveyIds \ Free(surveys) :
         \/ \E staff \in BOOLEAN : StartUpdate(c, u, staff, s) \/ StartDelete(c, u, staff, s)
         \/ StartAnswer(c, u, s) \/ StartShow(c, u, s) \/ StartShowAll(c, u, s)
    \/ \E r \in ResponseIds \ Free(responses) : StartRemove(c, u, r)

Step(c) ==
  \/ Find(c) \/ Ask(c) \/ Retry(c) \/ CallFails(c)
  \/ CreateSurvey(c) \/ UpdateSurvey(c) \/ DeleteSurvey(c)
  \/ CreateSurveyResponse(c) \/ UpdateSurveyResponse(c) \/ DeleteSurveyResponse(c)
  \/ ShowResponses(c)

Next ==
  \/ \E c \in Calls : Arrive(c) \/ Step(c)
  \/ \E u \in Users : \/ \E ids \in SUBSET SurveyIds : DeleteSurveyResponses(u, ids)
                      \/ \E g \in Ground : ChangeGround(u, g)

Spec == Init /\ [][Next]_vars
-------------------------------------------------------------------------------
(* Properties.                                                             *)

\* The names of those who answered an anonymous survey are shown to nobody, and
\* the responses to a sensitive one not at all, whatever happens to the survey
\* between the answer and the look at it, or while it is being looked at.
NamesHidden ==
  \A c \in Calls : At(c, {"show", "showAll"}, "do") =>
    \A x \in Answer(calls[c]) : ~x.form.sensitive /\ (x.form.anonymous => ~x.named)

\* Responses are shown only to those who, while their request was at work, were
\* admins of the survey's event, or came through an admin API.
ShownToEntitled ==
  \A c \in Calls : /\ At(c, {"show", "showAll"}, "do")
                  /\ calls[c].id \in Stored(surveys)
    => \/ Staff \in calls[c].held
       \/ [event |-> surveys[calls[c].id].event, role |-> "admin"] \in calls[c].held

Ends(c, op) == calls[c] # NoCall /\ calls[c].op = op /\ calls'[c] = NoCall

\* Whoever deletes a survey is its creator, comes through an admin API, or was
\* admin of its event at some time while the request was at work; this holds for
\* transactions that are run again, and for roles and surveys that change.
DeletedByEntitled ==
  [][\A s \in Stored(surveys) : surveys'[s] = Gone =>
       \E c \in Calls :
         /\ Ends(c, "delete") /\ calls[c].id = s
         /\ \/ calls[c].user = surveys[s].creator
            \/ Staff \in calls[c].held
            \/ [event |-> surveys[s].event, role |-> "admin"] \in calls[c].held]_vars

\* A response to the survey of an event comes from somebody who attended it, by
\* what the calendar said at some time while the request was at work, even if the
\* survey is changed or deleted meanwhile.
AnsweredByAttendees ==
  [][\A r \in Free(responses) : responses'[r] # Unborn =>
       \E c \in Calls :
         /\ Ends(c, "answer") /\ calls[c].user = responses'[r].user
         /\ \/ responses'[r].form.event = NoEvent
            \/ [event |-> responses'[r].form.event, role |-> "attended"] \in calls[c].held]_vars

\* What the service puts into a response of its survey (title, type, rules, flags,
\* event) is no older than the request, whatever the client has sent and however the
\* survey is updated meanwhile.  The questions are those that the client answered,
\* which may be older than the rest, but are never newer.
FormIsCurrent ==
  [][\A r \in Free(responses) : responses'[r] # Unborn =>
       \E c \in Calls : /\ Ends(c, "answer") /\ calls[c].id = responses'[r].survey
                        /\ responses'[r].data <= calls[c].since
                        /\ calls[c].since <= responses'[r].form.edition]_vars
===============================================================================
