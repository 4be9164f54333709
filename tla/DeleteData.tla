------------------------------- MODULE DeleteData -------------------------------
(***************************************************************************)
(* The daily sweep for the data of deleted users                           *)
(* (core/app_delete_data_logic.go): wait for the timer, ask the Core       *)
(* building block for the memberships deleted so far, and delete, for each *)
(* application and organisation, the survey responses and then the surveys *)
(* of its accounts.  Errors are logged and end the section, or the sweep;  *)
(* the next sweep is a day later.  Users meanwhile go on writing, for as   *)
(* long as their access tokens are valid.                                  *)
(***************************************************************************)
EXTENDS Naturals

CONSTANTS
  Apps,      \* application ids
  Orgs,      \* organisation ids
  Accounts,  \* account ids
  NoSection, \* no section at hand
  MaxFaults  \* bound on failed calls and restarts

ASSUME DeleteAssumption ==
  /\ MaxFaults \in Nat
  /\ NoSection \notin [app : Apps, org : Orgs, accounts : SUBSET Accounts]

\* A user of an application and organisation; also the owner of a document.
Member  == [app : Apps, org : Orgs, account : Accounts]

\* A DeletedUserData of the Core building block.
Section == [app : Apps, org : Orgs, accounts : SUBSET Accounts]

VARIABLES
  tokens,     \* members who have a valid access token
  deleted,    \* members deleted in the Core building block, which lists them for good
  responses,  \* owners of documents in collection survey_responses
  surveys,    \* owners of documents in collection surveys
  at,         \* where the sweep is
  sections,   \* the sections it has yet to process
  section,    \* the section it is processing
  swept,      \* members both of whose deletions have been made (no such record is kept)
  faults

vars == <<tokens, deleted, responses, surveys, at, sections, section, swept, faults>>

TypeOK ==
  /\ tokens \subseteq Member /\ deleted \subseteq Member /\ swept \subseteq deleted
  /\ responses \subseteq Member /\ surveys \subseteq Member
  /\ at \in {"waiting", "loading", "next", "responses", "surveys"}
  /\ sections \subseteq Section
  /\ section \in Section \cup {NoSection}
  /\ section = NoSection <=> at \in {"waiting", "loading", "next"}
  /\ faults \in 0..MaxFaults

Init ==
  /\ tokens = Member
  /\ deleted = {}
  /\ responses = {} /\ surveys = {}
  /\ at = "waiting"
  /\ sections = {} /\ section = NoSection
  /\ swept = {}
  /\ faults = 0

Spend == faults < MaxFaults /\ faults' = faults + 1
-------------------------------------------------------------------------------
(* Users, and the Core building block.                                     *)

CreateSurvey(m) ==
  /\ m \in tokens
  /\ surveys' = surveys \cup {m}
  /\ UNCHANGED <<tokens, deleted, responses, at, sections, section, swept, faults>>

CreateSurveyResponse(m) ==
  /\ m \in tokens
  /\ responses' = responses \cup {m}
  /\ UNCHANGED <<tokens, deleted, surveys, at, sections, section, swept, faults>>

DeleteMembership(m) ==
  /\ deleted' = deleted \cup {m}
  /\ UNCHANGED <<tokens, responses, surveys, at, sections, section, swept, faults>>

\* A deleted user gets no new token, and the old one runs out.
TokenExpires(m) ==
  /\ m \in deleted \cap tokens
  /\ tokens' = tokens \ {m}
  /\ UNCHANGED <<deleted, responses, surveys, at, sections, section, swept, faults>>
-------------------------------------------------------------------------------
(* The sweep.                                                              *)

\* What LoadDeletedMemberships returns; a section may have no accounts.
Listed ==
  {[app |-> a, org |-> o,
    accounts |-> {c \in Accounts : [app |-> a, org |-> o, account |-> c] \in deleted}] :
     a \in Apps, o \in Orgs}

\* The documents that the filter of a DeleteMany matches.
Matched(collection, orgID, appID, accountsIDs) ==
  {d \in collection : d.app = appID /\ d.org = orgID /\ d.account \in accountsIDs}

DeleteSurveyResponsesWithIDs(orgID, appID, accountsIDs) ==
  responses \ Matched(responses, orgID, appID, accountsIDs)

DeleteSurveysWithIDs(orgID, appID, accountsIDs) ==
  surveys \ Matched(surveys, orgID, appID, accountsIDs)

\* A mistake: the application of a section is not looked at.
MembersOfOrg(s) == {m \in Member : m.org = s.org /\ m.account \in s.accounts}

\* The members a section's account ids stand for.
MembersOf(s) == {m \in Member : m.app = s.app /\ m.org = s.org /\ m.account \in s.accounts}

\* The sweep goes to another place, with these sections to do and this one at hand.
Goto(place, todo, current) ==
  at' = place /\ sections' = todo /\ section' = current

\* At 4 AM in Chicago for the first time, then 24 hours after each sweep.
TimerExpires ==
  /\ at = "waiting"
  /\ Goto("loading", {}, NoSection)
  /\ UNCHANGED <<tokens, deleted, responses, surveys, swept, faults>>

LoadDeletedMemberships ==
  /\ at = "loading"
  /\ Goto("next", Listed, NoSection)
  /\ UNCHANGED <<tokens, deleted, responses, surveys, swept, faults>>

LoadFails ==
  /\ Spend
  /\ at = "loading"
  /\ Goto("waiting", {}, NoSection)
  /\ UNCHANGED <<tokens, deleted, responses, surveys, swept>>

\* A mistake: a section with no accounts ends the sweep.
SkipTheRest(s) == {}

\* A section with no accounts is passed over.
SkipEmpty(s) == sections \ {s}

\* The sections come in the order in which the Core building block lists them.
NextSection ==
  /\ at = "next"
  /\ \E s \in sections :
       IF s.accounts = {} THEN Goto("next", SkipEmpty(s), NoSection)
       ELSE Goto("responses", sections \ {s}, s)
  /\ UNCHANGED <<tokens, deleted, responses, surveys, swept, faults>>

SweepEnds ==
  /\ at = "next" /\ sections = {}
  /\ Goto("waiting", {}, NoSection)
  /\ UNCHANGED <<tokens, deleted, responses, surveys, swept, faults>>

\* deleteAppOrgUsersData passes the application where the organisation goes.
DeleteResponses ==
  /\ at = "responses"
  /\ responses' = DeleteSurveyResponsesWithIDs(section.app, section.org, section.accounts)
  /\ Goto("surveys", sections, section)
  /\ UNCHANGED <<tokens, deleted, surveys, swept, faults>>

DeleteSurveys ==
  /\ at = "surveys"
  /\ surveys' = DeleteSurveysWithIDs(section.app, section.org, section.accounts)
  /\ swept' = swept \cup MembersOf(section)
  /\ Goto("next", sections, NoSection)
  /\ UNCHANGED <<tokens, deleted, responses, faults>>

\* A deletion that fails ends its section; it may have been made all the same.
DeletionFails ==
  /\ Spend
  /\ \/ /\ at = "responses"
        /\ responses' \in {responses, DeleteSurveyResponsesWithIDs(
                                        section.app, section.org, section.accounts)}
        /\ UNCHANGED surveys
     \/ /\ at = "surveys"
        /\ surveys' \in {surveys, DeleteSurveysWithIDs(
                                    section.app, section.org, section.accounts)}
        /\ UNCHANGED responses
  /\ Goto("next", sections, NoSection)
  /\ UNCHANGED <<tokens, deleted, swept>>

\* The process ends and is started again: it waits for the next 4 AM.
Restart ==
  /\ Spend
  /\ at # "waiting"
  /\ Goto("waiting", {}, NoSection)
  /\ UNCHANGED <<tokens, deleted, responses, surveys, swept>>
-------------------------------------------------------------------------------
Sweep == TimerExpires \/ LoadDeletedMemberships \/ NextSection \/ SweepEnds
         \/ DeleteResponses \/ DeleteSurveys

Next ==
  \/ Sweep
  \/ LoadFails \/ DeletionFails \/ Restart
  \/ \E m \in Member : \/ CreateSurvey(m) \/ CreateSurveyResponse(m)
                       \/ DeleteMembership(m) \/ TokenExpires(m)

\* Timers expire, calls return and tokens run out; nobody has to write, nor to leave.
Fairness == WF_vars(Sweep) /\ \A m \in Member : WF_vars(TokenExpires(m))

Spec == Init /\ [][Next]_vars /\ Fairness
-------------------------------------------------------------------------------
(* Properties.                                                             *)

\* Whatever fails on the way, as long as failures end, every deleted membership
\* is reached by a sweep that makes both of its deletions.
SweepReachesAll == \A m \in Member : m \in deleted ~> m \in swept

\* "delete the data" (app_delete_data_logic.go:146): a deleted user comes to have
\* no survey responses and no surveys, for good.
Forgotten ==
  \A m \in Member : <>[](m \in deleted => m \notin responses \cup surveys)
===============================================================================
