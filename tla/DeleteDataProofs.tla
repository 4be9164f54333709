---------------------------- MODULE DeleteDataProofs ----------------------------
(***************************************************************************)
(* Proofs about module DeleteData, for every value of its constants.       *)
(***************************************************************************)
EXTENDS DeleteData, TLAPS

\* The sections that the sweep has yet to process, with the one at hand.
ToDo == sections \cup (IF section = NoSection THEN {} ELSE {section})

\* What the Core building block listed stays true: it lists deleted members for good.
SectionsAreDeleted == \A s \in ToDo : MembersOf(s) \subseteq deleted

DeleteInv == TypeOK /\ SectionsAreDeleted

\* A listed section stands for deleted members.
LEMMA ListedAreDeleted ==
  /\ Listed \subseteq Section
  /\ \A s \in Listed : MembersOf(s) \subseteq deleted
<1>1. ASSUME NEW a \in Apps, NEW o \in Orgs, NEW ids \in SUBSET Accounts
      PROVE  [app |-> a, org |-> o, accounts |-> ids] \in Section
  BY DEF Section
<1>2. ASSUME NEW s \in Listed, NEW m \in MembersOf(s) PROVE m \in deleted
  <2>1. PICK a \in Apps, o \in Orgs :
          s = [app |-> a, org |-> o,
               accounts |-> {c \in Accounts : [app |-> a, org |-> o, account |-> c] \in deleted}]
    BY DEF Listed
  <2>2. m \in Member /\ m.app = a /\ m.org = o
        /\ [app |-> a, org |-> o, account |-> m.account] \in deleted
    BY <1>2, <2>1 DEF MembersOf
  <2>3. m = [app |-> a, org |-> o, account |-> m.account]
    BY <2>2 DEF Member
  <2> QED BY <2>2, <2>3
<1>3. ASSUME NEW s \in Listed PROVE s \in Section
  <2>1. PICK a \in Apps, o \in Orgs :
          s = [app |-> a, org |-> o,
               accounts |-> {c \in Accounts : [app |-> a, org |-> o, account |-> c] \in deleted}]
    BY DEF Listed
  <2> DEFINE ids == {c \in Accounts : [app |-> a, org |-> o, account |-> c] \in deleted}
  <2>2. ids \in SUBSET Accounts
    OBVIOUS
  <2>3. s = [app |-> a, org |-> o, accounts |-> ids]
    BY <2>1
  <2> HIDE DEF ids
  <2> QED BY <1>1, <2>2, <2>3
<1> QED BY <1>2, <1>3

\* Nothing fails more often than it may.
LEMMA FaultsType ==
  ASSUME faults \in 0..MaxFaults, Spend PROVE faults' \in 0..MaxFaults
BY DeleteAssumption DEF Spend

\* What a deletion leaves is some of what there was.
LEMMA DeletionsLeaveSome ==
  ASSUME NEW o, NEW a, NEW ids
  PROVE  /\ DeleteSurveyResponsesWithIDs(o, a, ids) \subseteq responses
         /\ DeleteSurveysWithIDs(o, a, ids) \subseteq surveys
BY DEF DeleteSurveyResponsesWithIDs, DeleteSurveysWithIDs

\* Every step keeps the invariant.
LEMMA DeleteInvStep == DeleteInv /\ [Next]_vars => DeleteInv'
<1> SUFFICES ASSUME DeleteInv, [Next]_vars PROVE DeleteInv'
  OBVIOUS
<1> USE DEF DeleteInv, TypeOK, SectionsAreDeleted, ToDo, Goto
<1>0. /\ NoSection \notin Section /\ Listed \subseteq Section
      /\ \A s \in Listed : MembersOf(s) \subseteq deleted
  BY DeleteAssumption, ListedAreDeleted DEF Section
<1>1. CASE TimerExpires
  BY <1>1 DEF TimerExpires
<1>2. CASE LoadDeletedMemberships
  BY <1>0, <1>2 DEF LoadDeletedMemberships, MembersOf
<1>3. CASE NextSection
  <2>1. PICK s \in sections :
          IF s.accounts = {} THEN Goto("next", sections \ {s}, NoSection)
          ELSE Goto("responses", sections \ {s}, s)
    BY <1>3 DEF NextSection, SkipEmpty
  <2>2. UNCHANGED <<tokens, deleted, responses, surveys, swept, faults>>
    BY <1>3 DEF NextSection
  <2> QED BY <1>0, <2>1, <2>2 DEF MembersOf
<1>4. CASE SweepEnds
  BY <1>4 DEF SweepEnds
<1>5. CASE DeleteResponses
  BY <1>0, <1>5, DeletionsLeaveSome DEF DeleteResponses, MembersOf
<1>6. CASE DeleteSurveys
  <2>1. section # NoSection /\ MembersOf(section) \subseteq deleted
    BY <1>6 DEF DeleteSurveys
  <2> QED BY <1>6, <2>1, DeletionsLeaveSome DEF DeleteSurveys, MembersOf
<1>7. CASE LoadFails
  BY <1>7, FaultsType DEF LoadFails
<1>8. CASE DeletionFails
  BY <1>8, FaultsType, DeletionsLeaveSome DEF DeletionFails, MembersOf
<1>9. CASE Restart
  BY <1>9, FaultsType DEF Restart
<1>10. ASSUME NEW m \in Member, CreateSurvey(m) \/ CreateSurveyResponse(m) PROVE DeleteInv'
  BY <1>10 DEF CreateSurvey, CreateSurveyResponse, MembersOf
<1>11. ASSUME NEW m \in Member, DeleteMembership(m) \/ TokenExpires(m) PROVE DeleteInv'
  BY <1>11 DEF DeleteMembership, TokenExpires, MembersOf
<1>12. CASE UNCHANGED vars
  BY <1>12 DEF vars, MembersOf
<1> QED
  BY <1>1, <1>2, <1>3, <1>4, <1>5, <1>6, <1>7, <1>8, <1>9, <1>10, <1>11, <1>12 DEF Next, Sweep

\* The invariant holds at first.
LEMMA DeleteInit == Init => DeleteInv
BY DeleteAssumption DEF Init, DeleteInv, TypeOK, SectionsAreDeleted, ToDo

\* So it always holds.
LEMMA DeleteInvariant == Spec => []DeleteInv
BY DeleteInit, DeleteInvStep, PTL DEF Spec

\* The sweep is where its sections say it is, and only members that the Core building
\* block has deleted count as swept: a sweep deletes for nobody else.
THEOREM DeleteTypeCorrect == Spec => []TypeOK
<1>1. DeleteInv => TypeOK
  BY DEF DeleteInv
<1> QED BY <1>1, DeleteInvariant, PTL

\* No application has the id of an organisation.
IdsApart == Apps \cap Orgs = {}

ApartInv == IdsApart /\ DeleteInv

\* Nothing that is stored goes.
NothingGoes == [][responses \subseteq responses' /\ surveys \subseteq surveys']_vars

\* As deleteAppOrgUsersData passes the application where the organisation goes, no
\* document matches: if no application has the id of an organisation, the sweep deletes
\* nothing at all, whatever the Core building block lists.
THEOREM SweepDeletesNothing == IdsApart /\ Spec => NothingGoes
<1>1. ASSUME ApartInv, NEW collection \in SUBSET Member, section # NoSection
      PROVE  Matched(collection, section.app, section.org, section.accounts) = {}
  BY <1>1 DEF Matched, ApartInv, IdsApart, DeleteInv, TypeOK, Section, Member
<1>2. ASSUME ApartInv, section # NoSection
      PROVE  /\ DeleteSurveyResponsesWithIDs(section.app, section.org, section.accounts) = responses
             /\ DeleteSurveysWithIDs(section.app, section.org, section.accounts) = surveys
  <2>1. responses \in SUBSET Member /\ surveys \in SUBSET Member
    BY <1>2 DEF ApartInv, DeleteInv, TypeOK
  <2> QED BY <1>1, <1>2, <2>1 DEF DeleteSurveyResponsesWithIDs, DeleteSurveysWithIDs
<1>3. ASSUME ApartInv, Next PROVE responses \subseteq responses' /\ surveys \subseteq surveys'
  <2>1. CASE DeleteResponses \/ DeleteSurveys \/ DeletionFails
    <3>1. section # NoSection
      BY <1>3, <2>1 DEF DeleteResponses, DeleteSurveys, DeletionFails, ApartInv, DeleteInv, TypeOK
    <3> DEFINE kept == DeleteSurveyResponsesWithIDs(section.app, section.org, section.accounts)
               left == DeleteSurveysWithIDs(section.app, section.org, section.accounts)
    <3>2. kept = responses /\ left = surveys
      BY <1>2, <1>3, <3>1
    <3>3. CASE DeleteResponses
      BY <3>2, <3>3 DEF DeleteResponses
    <3>4. CASE DeleteSurveys
      BY <3>2, <3>4 DEF DeleteSurveys
    <3>5. CASE DeletionFails
      <4>1. responses' \in {responses, kept} /\ surveys' \in {surveys, left}
        BY <3>5 DEF DeletionFails
      <4> QED BY <3>2, <4>1
    <3> QED BY <2>1, <3>3, <3>4, <3>5
  <2>2. CASE TimerExpires \/ LoadDeletedMemberships \/ NextSection \/ SweepEnds \/ LoadFails \/ Restart
    BY <2>2 DEF TimerExpires, LoadDeletedMemberships, NextSection, SweepEnds, LoadFails, Restart
  <2>3. ASSUME NEW m \in Member, \/ CreateSurvey(m) \/ CreateSurveyResponse(m)
                                 \/ DeleteMembership(m) \/ TokenExpires(m)
        PROVE  responses \subseteq responses' /\ surveys \subseteq surveys'
    BY <2>3 DEF CreateSurvey, CreateSurveyResponse, DeleteMembership, TokenExpires
  <2> QED BY <1>3, <2>1, <2>2, <2>3 DEF Next, Sweep
<1>4. IdsApart /\ Init => ApartInv
  BY DeleteInit DEF ApartInv
<1>5. ApartInv /\ [Next]_vars => ApartInv'
  BY DeleteInvStep DEF ApartInv, IdsApart
<1>6. ApartInv /\ [Next]_vars => [responses \subseteq responses' /\ surveys \subseteq surveys']_vars
  BY <1>3
<1> QED BY <1>4, <1>5, <1>6, PTL DEF Spec, NothingGoes
===============================================================================
