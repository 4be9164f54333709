--------------------------------- MODULE Alerts ---------------------------------
(***************************************************************************)
(* Survey alerts: POST /survey-alerts reads the contacts for a key and     *)
(* mails them one after the other through the Notifications building block *)
(* (core/app_client.go, driven/notifications).  Meanwhile admins create,   *)
(* change and delete contacts.  A mail that fails is logged and no more.   *)
(* A client that is told of an error may send the alert again.  So may one *)
(* that gets no answer, because it or a gateway gives up waiting, because  *)
(* the answer is lost, or because the process ends; the handler that it no *)
(* longer waits for goes on, so two handlers may be at work for one alert. *)
(***************************************************************************)
EXTENDS Naturals, Documents

CONSTANTS
  ContactIds,
  ContactKeys,
  Addresses,
  NoAddress,    \* an empty address
  Drafts,       \* what contacts are created with, and changed to
  MaxAttempts,  \* bound on how often the client sends the alert
  MaxChanges,   \* bound on the changes to contacts
  MaxFaults     \* bound on failed calls, failed mails, lost answers and ends of the process

\* A model.AlertContact; SMS and other types are stored, but not used.
Contact == [key : ContactKeys, type : {"email", "other"}, address : Addresses \cup {NoAddress}]

\* A model.SurveyAlert; complete: with a subject and a body.
Alert == [key : ContactKeys, complete : BOOLEAN]

\* The times that the client sends the alert; each has a handler of its own.
Attempts == 1..MaxAttempts

ASSUME AlertsAssumption ==
  /\ Drafts \subseteq Contact
  /\ NoAddress \notin Addresses
  /\ Unborn \notin Contact /\ Gone \notin Contact
  /\ MaxAttempts \in Nat /\ MaxChanges \in Nat /\ MaxFaults \in Nat

VARIABLES
  contacts,    \* collection alert_contacts
  alert,       \* what the client sends
  at,          \* where the handler of each attempt is, or what it has answered
  todo,        \* the contacts that its loop has still to go through, as they were read
  unanswered,  \* the attempts that have given the client no answer, and will give none
  attempts, changes, mailFaults,
  \* For the properties only:
  mailed,      \* how many mails of each attempt the Notifications building block took
  sent,        \* addresses that each attempt has mailed
  tried,       \* contacts with a mail in the attempt, be it taken or failed
  held,        \* addresses of the alert's contacts at some time since the attempt arrived
  steady       \* contacts that have not changed since then

request   == <<at, todo, unanswered, mailed, sent, tried>>
since     == <<held, steady>>
alertVars == <<contacts, alert, request, since, attempts, changes, mailFaults>>

AlertsTypeOK ==
  /\ contacts \in [ContactIds -> Contact \cup {Unborn, Gone}]
  /\ alert \in Alert
  /\ at \in [Attempts -> {"unsent", "find", "mail", "success", "error", "cut"}]
  /\ todo \in [Attempts -> SUBSET (ContactIds \X Contact)]
  /\ unanswered \subseteq 1..attempts
  /\ attempts \in 0..MaxAttempts /\ changes \in 0..MaxChanges /\ mailFaults \in 0..MaxFaults
  /\ mailed \in [Attempts -> [ContactIds -> 0..1]]
  /\ sent \in [Attempts -> SUBSET Addresses]
  /\ tried \in [Attempts -> SUBSET ContactIds]
  /\ held \in [Attempts -> SUBSET (Addresses \cup {NoAddress})]
  /\ steady \in [Attempts -> SUBSET ContactIds]

Nothing == [n \in Attempts |-> {}]

\* The contacts may hold anything when the client first sends the alert.
AlertsInit ==
  /\ contacts \in [ContactIds -> Drafts \cup {Unborn}]
  /\ alert \in Alert
  /\ at = [n \in Attempts |-> "unsent"]
  /\ unanswered = {}
  /\ attempts = 0 /\ changes = 0 /\ mailFaults = 0
  /\ mailed = [n \in Attempts |-> [id \in ContactIds |-> 0]]
  /\ todo = Nothing /\ sent = Nothing /\ tried = Nothing /\ held = Nothing /\ steady = Nothing

SpendMailFault == mailFaults < MaxFaults /\ mailFaults' = mailFaults + 1

\* The attempts whose handlers are at work.
Working == {n \in Attempts : at[n] \in {"find", "mail"}}
-------------------------------------------------------------------------------
(* The client and the handlers.                                            *)

\* A mistake: the filter leaves out the key.
MatchingAny(key) == Stored(contacts)

\* The filter of GetAlertContactsByKey.
MatchingKey(key) == {id \in Stored(contacts) : contacts[id].key = key}

ForAlert(id) == contacts[id] \notin {Unborn, Gone} /\ contacts[id].key = alert.key

\* The client sends the alert for the first time, or again when it has been told of an
\* error or has got no answer, whatever the earlier handlers are still doing.
SendAlert(n) ==
  /\ n = attempts + 1 /\ attempts' = n
  /\ attempts > 0 => attempts \in unanswered \/ at[attempts] = "error"
  /\ at' = [at EXCEPT ![n] = "find"]
  /\ LET now == {id \in ContactIds : ForAlert(id)}
     IN  /\ steady' = [steady EXCEPT ![n] = now]
         /\ held' = [held EXCEPT ![n] = {contacts[id].address : id \in now}]
  /\ UNCHANGED <<contacts, alert, todo, unanswered, mailed, sent, tried, changes, mailFaults>>

\* The client gives up waiting, or the answer will be lost on its way.  The handler
\* does not notice: nothing that it calls looks at the request's context.
ClientGivesUp(n) ==
  /\ n \in Working \ unanswered
  /\ SpendMailFault
  /\ unanswered' = unanswered \cup {n}
  /\ UNCHANGED <<contacts, alert, at, todo, mailed, sent, tried, since, attempts, changes>>

\* GetAlertContactsByKey; no contact for the key is an error.
FindContacts(n) ==
  LET found == MatchingKey(alert.key)
  IN  /\ at[n] = "find"
      /\ at' = [at EXCEPT ![n] = IF found = {} THEN "error" ELSE "mail"]
      /\ todo' = [todo EXCEPT ![n] = {<<id, contacts[id]>> : id \in found}]
      /\ UNCHANGED <<contacts, alert, unanswered, mailed, sent, tried, since,
                     attempts, changes, mailFaults>>

FindContactsFails(n) ==
  /\ at[n] = "find"
  /\ SpendMailFault
  /\ at' = [at EXCEPT ![n] = "error"]
  /\ UNCHANGED <<contacts, alert, todo, unanswered, mailed, sent, tried, since, attempts, changes>>

\* A mistake: the loop ends at a contact that is not to be mailed.
StopAtOther(n, x) == {}

\* The loop passes over the contacts that are not to be mailed.
AfterOther(n, x) == todo[n] \ {x}

\* A contact of another type than email.
PassOver(n, x) ==
  /\ at[n] = "mail" /\ x \in todo[n]
  /\ x[2].type # "email"
  /\ todo' = [todo EXCEPT ![n] = AfterOther(n, x)]
  /\ UNCHANGED <<contacts, alert, at, unanswered, mailed, sent, tried, since,
                 attempts, changes, mailFaults>>

\* The alert's subject or body is missing, which shows at the first email contact.
RefuseAlert(n, x) ==
  /\ at[n] = "mail" /\ x \in todo[n]
  /\ x[2].type = "email" /\ ~alert.complete
  /\ at' = [at EXCEPT ![n] = "error"]
  /\ todo' = [todo EXCEPT ![n] = {}]
  /\ UNCHANGED <<contacts, alert, unanswered, mailed, sent, tried, since,
                 attempts, changes, mailFaults>>

\* A mail to x that the Notifications building block takes, or does not.
MailTo(n, x, taken) ==
  /\ tried' = [tried EXCEPT ![n] = @ \cup {x[1]}]
  /\ IF taken
     THEN /\ mailed' = [mailed EXCEPT ![n][x[1]] = @ + 1]
          /\ sent' = [sent EXCEPT ![n] = @ \cup {x[2].address}]
     ELSE UNCHANGED <<mailed, sent>>

\* SendMail, whose go statement evaluates its argument first: the call is made before
\* the loop goes on.  No mail goes to an empty address.
SendMail(n, x) ==
  /\ at[n] = "mail" /\ x \in todo[n]
  /\ x[2].type = "email" /\ alert.complete
  /\ todo' = [todo EXCEPT ![n] = @ \ {x}]
  /\ IF x[2].address = NoAddress THEN UNCHANGED <<mailed, sent, tried>> ELSE MailTo(n, x, TRUE)
  /\ UNCHANGED <<contacts, alert, at, unanswered, since, attempts, changes, mailFaults>>

\* A mistake: a mail that fails is an error of the alert.
TellTheClient(n, x) == at' = [at EXCEPT ![n] = "error"] /\ todo' = [todo EXCEPT ![n] = {}]

\* SendMail has no result: what sendMail returns is logged.
LogAndGoOn(n, x) == at' = at /\ todo' = [todo EXCEPT ![n] = @ \ {x}]

\* A mail fails, be it for want of a service account, or its answer is lost.
MailFails(n, x) ==
  /\ at[n] = "mail" /\ x \in todo[n]
  /\ x[2].type = "email" /\ alert.complete /\ x[2].address # NoAddress
  /\ SpendMailFault
  /\ \E taken \in BOOLEAN : MailTo(n, x, taken)
  /\ LogAndGoOn(n, x)
  /\ UNCHANGED <<contacts, alert, unanswered, since, attempts, changes>>

EndOfLoop(n) ==
  /\ at[n] = "mail" /\ todo[n] = {}
  /\ at' = [at EXCEPT ![n] = "success"]
  /\ UNCHANGED <<contacts, alert, todo, unanswered, mailed, sent, tried, since,
                 attempts, changes, mailFaults>>

\* The process of some of the handlers ends, and their client gets no answer.
ProcessEnds ==
  /\ SpendMailFault
  /\ \E ended \in SUBSET Working \ {{}} :
       /\ at' = [n \in Attempts |-> IF n \in ended THEN "cut" ELSE at[n]]
       /\ todo' = [n \in Attempts |-> IF n \in ended THEN {} ELSE todo[n]]
       /\ unanswered' = unanswered \cup ended
  /\ UNCHANGED <<contacts, alert, mailed, sent, tried, since, attempts, changes>>
-------------------------------------------------------------------------------
(* Admins change contacts.                                                 *)

\* id is created, changed or deleted.
ContactChanges(id) ==
  /\ attempts > 0
  /\ changes < MaxChanges /\ changes' = changes + 1
  /\ steady' = [n \in Attempts |-> steady[n] \ {id}]
  /\ LET now == IF contacts'[id] # Gone /\ contacts'[id].key = alert.key
                THEN {contacts'[id].address} ELSE {}
     IN  held' = [n \in Attempts |-> IF n \in Working THEN held[n] \cup now ELSE held[n]]
  /\ UNCHANGED <<alert, request, attempts, mailFaults>>

CreateAlertContact(id, draft) ==
  /\ id \in Free(contacts)
  /\ contacts' = [contacts EXCEPT ![id] = draft]
  /\ ContactChanges(id)

UpdateAlertContact(id, draft) ==
  /\ id \in Stored(contacts)
  /\ contacts' = [contacts EXCEPT ![id] = draft]
  /\ ContactChanges(id)

DeleteAlertContact(id) ==
  /\ id \in Stored(contacts)
  /\ contacts' = [contacts EXCEPT ![id] = Gone]
  /\ ContactChanges(id)
-------------------------------------------------------------------------------
AlertsNext ==
  \/ \E n \in Attempts :
       \/ SendAlert(n) \/ ClientGivesUp(n) \/ FindContacts(n) \/ FindContactsFails(n) \/ EndOfLoop(n)
       \/ \E x \in todo[n] : PassOver(n, x) \/ RefuseAlert(n, x) \/ SendMail(n, x) \/ MailFails(n, x)
  \/ ProcessEnds
  \/ \E id \in ContactIds :
       \/ \E draft \in Drafts : CreateAlertContact(id, draft) \/ UpdateAlertContact(id, draft)
       \/ DeleteAlertContact(id)

AlertsSpec == AlertsInit /\ [][AlertsNext]_alertVars
-------------------------------------------------------------------------------
(* Properties.                                                             *)

\* A contact is mailed again only when an attempt that has mailed it, or is still to
\* mail it, gave the client no answer.  A client that repeats an alert because it is
\* told of an error mails no contact again, through failed calls and mails whose
\* answers are lost: what can be refused is refused before the first mail, and what
\* fails later is no error.  (Two contacts with one address get a mail each.)
MailedOnce ==
  \A id \in ContactIds : \A m, n \in Attempts :
    m < n /\ mailed[m][id] > 0 /\ mailed[n][id] > 0 => m \in unanswered

\* When an alert is answered with success, every contact that had the key and an
\* address all the time has been mailed, or its mail was tried and failed,
\* whatever other contacts the loop has met and however contacts were changed.
AllMailed ==
  \A n \in Attempts : at[n] = "success" =>
    \A id \in steady[n] : contacts[id].type = "email" /\ contacts[id].address # NoAddress
      => id \in tried[n]

\* Mails go only to addresses that a contact for the alert's key had while the
\* attempt was at work, though the loop goes by contacts read before.
MailedToContacts == \A n \in Attempts : sent[n] \subseteq held[n]
===============================================================================
