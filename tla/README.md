# A verification project for the Surveys building block

TLA+ models of the Surveys building block, TLC configurations that check them on
small instances, and TLAPS proofs of all its safety properties for every value of
the constants. Paths below are relative to the repository; line numbers are those of
the modelled commit.

## 1. The system

A Go service in hexagonal style. Drivers (`driver/web`) turn HTTP requests into
calls of the core (`core`), which calls storage (`driven/storage`, MongoDB) and
other building blocks over HTTP (`driven/calendar`, `driven/core`,
`driven/notifications`). Every HTTP request runs in a goroutine of its own; three
more goroutines live as long as the process: the watcher of the `configs`
collection, the goroutines it starts for each change, and the timer loop that
deletes the data of deleted users. Several instances of the service may share one
database. Except for the deletion of a survey, nothing is done in a transaction.

| Component | State it keeps | Operations | What is hard about it |
|---|---|---|---|
| Scores (`core/app_client.go` 116-162, 205-254; `adapter_scores.go`) | `survey_responses`, `scores` (one document per user by unique index) | POST `/survey-responses`, GET `/score`, DELETE `/survey-responses` | read-change-write of a document over several calls, concurrent handlers, errors half-way |
| Score rules (`core/app_client.go` 256-311; `utils/utils.go`) | the fields of a score document | `UpdateScore`, `CreateScore` | calendar days, clocks of clients, order of replay, `uint32` counters |
| Configuration cache (`driven/storage/adapter.go`, `database.go`, `collection.go`, `listener.go`; `core/app_admin.go` 161-266) | `configs`, each server's copy, its change stream | start, reload, admin create/update/delete, `FindConfig` | goroutines racing, a stream that breaks, decisions from a copy and writes by a later call |
| Deletion of data (`core/app_delete_data_logic.go`; `driven/core`) | a timer, the list from the Core building block | daily sweep | errors that end part of a sweep, liveness of the loop |
| Surveys (`core/app_shared.go`; `adapter_surveys.go` 382-447) | `surveys` (at most one per calendar event) | create, update, delete in a transaction | event admins asked of another service, retried transactions, orphans |
| Single responses (`core/app_client.go` 61-113, 165-172; `app_admin.go` 46-116) | `survey_responses` | read, update, delete one | filters that must match exactly one document |
| Lists (`adapter_surveys.go` 160-379; `adapter_survey_responses.go` 39-81; `adapter_scores.go` 37-62) | none | GET `/surveys`, `/survey-responses`, `/scores` | filters, three-way order, pages of a list that changes |
| Alerts and contacts (`core/app_client.go` 181-202; `adapter_alert_contacts.go`; `driven/notifications`) | `alert_contacts` | CRUD, POST `/survey-alerts` | a loop of calls that may fail one by one, and a client that repeats it |
| User data (`core/app_shared.go` 150-193) | none | GET `/user-data` | two goroutines, two reads at two moments |
| Analytics (`core/app_analytics.go`; `apis_analytics.go`) | none | GET `/analytics/survey-responses` | windows of time, against responses that are dated before they are stored |
| Web driver (`driver/web`) | none | routing, decoding, authorization | which request fields reach the core |

**What makes each component correct.**

- *Scores*: every quiz response that was acknowledged is in its user's score
  exactly once; nothing else is; nothing gets lost.
- *Score rules*: the streak is the number of days in a row on the user's calendar,
  the score the sum of points with the bonus, counters complete; a replay gives
  what adding response by response gives.
- *Configuration cache*: copies do not go back, agree with the database when there
  is nothing left to be told, and come to do so; admin calls do what they report.
- *Deletion*: every deleted member is reached by a sweep, and no data is left.
- *Surveys*: only creators, event admins and the staff of the admin API delete a
  survey; responses to an event's survey come from those who attended; they carry
  the questions that the client answered and the rest of the survey as it was when
  they were given, and are shown to those entitled to them, without names if the
  survey is anonymous.
- *Lists*: a client that reads page by page misses nothing it can expect to see,
  sees nothing twice without reason, and sees it in the order of the list.
- *Alerts*: every contact for the key is mailed, and no other; none is mailed again,
  whatever fails, unless the client has got no answer.
- *User data*: all that the user had throughout the request, and nothing that the
  user did not have.
- *Analytics*: a collector of one window after the other gets each response once.

PROJECT.json lists the hazards of the code, each at its line, with the properties
that cover it.

## 2. Modules

### `Scores` - the handlers that keep the leaderboard

One request of `Requests` is one HTTP request; `pc` is the storage call it makes
next (`insert`, `getScore`, `rebuild`, `create`, `update`) or how it ended, `draft`
the `model.Score` it holds in memory, `date` the `DateCreated` of its response.
`responses` and `scores` are the collections. Each action is one storage call and
the code up to the next one:

| Action | Code |
|---|---|
| `Start` | the request arrives; `CreateSurveyResponse` stamps the response |
| `Reject` | no survey, or its event was not attended |
| `InsertResponse` | `storage.CreateSurveyResponse`; other surveys than fashion quizzes end here |
| `FindNoScore`, `ReadScoreFails` | `storage.GetScore` returns nothing, or an error: `CreateScore` follows in both cases |
| `FindScoreToUpdate`, `FindScoreToShow` | `storage.GetScore` returns the document: POST adds its response, GET adds a profile id it lacks |
| `Rebuild` | `CreateScore` reads and replays all stored quiz responses |
| `CreateScore` | the insert; the unique index refuses a second score |
| `UpdateScore` | `$set` of every field to the copy's |
| `DeleteResponses` | DELETE `/survey-responses` |
| `CallFails`, `Restart` | a call that returns an error, made or not; the end of the process |

A score document is reduced to its profile id and to how often each response has
been added to it, which is what interleavings can get wrong and the numbers cannot
show. `NoScore` means that the user has no document. A response without
`SurveyStats` makes `UpdateScore` dereference nil: the handler panics
(`FindScoreToUpdate`, `Rebuild`).

`OneAtATime` is the assumption under which the code is right: no user has two
requests at work. Mobile clients usually behave so; the server does not enforce it.

`ScoreTally` is the abstract specification: a tally of quizzes per user into which
a quiz enters once and which it never leaves, and acknowledgements only of tallied
quizzes. `Scores!KeepsTally` is the refinement: `tally` is what `scores` counts
once, `acked` the POSTs of quizzes that were answered with success.

### `ScoreRules`, `Streaks` - what a response does to a score

`ScoreRules` has `UpdateScore` and `CreateScore` as operators, the loop of the latter
as the function `ScoresAfter` from the number of turns to the score; time is in ticks,
`TicksPerDay` to a day, 0 is Go's zero time. Points are in units of `1/PointUnit`,
because `pointsForResponse` is a `float64` cut off to a whole number only where it
stands in for a missing number of correct answers. Counters are modulo `Word`.
`Streaks` runs these rules over the history of one user: `Tick` moves the server's
clock, `Travel` the client's, `Submit` and `View` are POST and GET one after the
other, `SubmitUnscored` a response stored without being scored (by a version of
the program without scores, or by a handler that stopped in between). `history`, one
of `Histories`, is what a behaviour may have of these, and how long it lasts: a
client that travels, and responses without a score, make the streak a matter of luck,
so that `StreakIsRun` and `ScoreIsSumOfPoints` are for those that do not;
`PointsBounded` and `CountersComplete` are for all.

### `ConfigCache` - each server's copy of the configurations

`phase` follows `Adapter.Start`: connect (which starts the watcher), register the
listener, load, store the copy. `stream` is the change stream: whether it is open,
the next change, and the resume token. `reload` holds the goroutines `onDataChanged`
starts; loading and storing are two steps, since `loadConfigs` runs without the
lock. `version` counts changes; `missed` is a record, which the program does not keep,
of servers whose last reload failed or whose stream skipped a change.

An admin's call is a handler of `Admins` and has two steps, between which others run.
`CreateConfig`, `UpdateConfig` and `DeleteConfig` are the look: the rule for what
applies to all organisations (`AllOrgsRule`), the cached copy (`Cached`), and who may
do it (`MayCreate`, `MayUpdate`; `CanAccess` is external: system configurations are for
system administrators). A call that a check refuses ends at once and is no step. `Write` is the
storage call: `InsertConfig`, which the unique index may refuse, `UpdateOne` and
`DeleteMany`, which find the document by its id or find none and do not tell the
difference. A write may fail before it is made (`WriteFails`), and the answer of one
that was made may be lost (`Answers`): the admin is told of an error in both cases.
`old` in a handler is the document in the copy that it looked at; `was`, what the
database held at that time, is kept for the properties only.

`Spaced` is the assumption under which copies are right: each change to the database is
made when all servers have caught up with the one before, and an admin's look is
at a server that has caught up and missed nothing. It says nothing of what may happen
between a call's look and its write: other calls look, write and delete there.
`AllOrgsKept` does without it.

`ConfigStore` is the abstract specification: a store that judges a call by what is
stored when the call comes, and later changes the document it was judged by, or nothing
if that one is gone; and a copy for each server that is replaced only by what is stored,
or lost. `ConfigCache!ActsAsStore` is the refinement: looks at copies act as looks at the
store, and a write changes the document that was looked at or none, even if another call
has deleted that one and a third has put a new one in its place. It does not say that the check
still holds when the write is made, which is false: `UpdateConfig` may overwrite a configuration
that an overlapping call has made a system one since the check (`app_admin.go` 228, 240).

| Property | What could break it |
|---|---|
| `CaughtUpIsFresh`, `Converges` | a stream that resumes at the wrong place, reloads that fail |
| `ReportedDone` | a look at an old copy, writes that match nothing: the only success without effect is that of an update whose document was deleted after the look |
| `ActsAsStore` | the checks, the copies, the id in the filters, lost answers |
| `AllOrgsKept` | the rule that only system configurations apply to all organisations: without it a stale look lets an admin overwrite one |
| `ChangedByEntitled`, `CacheNeverGoesBack` | checks that are out of date at the look, and the order of reloads; proved, without a run |

### `DeleteData` - the daily sweep

`at` is the place in the loop, `sections` what the Core building block listed and
is still to do, `section` the one at hand. The deletions take their arguments in
the order in which the code passes them. `swept` records, for the property, the
members both of whose deletions have been made. Users write as long as they hold a
token. External and assumed: the Core building block lists a deleted membership
for good, and issues no new tokens for it.

### `Surveys` - surveys, their responses and the people of an event

A call of `Calls` is an HTTP request: `op` is its operation, `at` the step that
comes next (`find` the survey, `ask` the calendar, `do` the write or the final
read), `form` the survey it has in memory and `admin` the variable of that name in
the code. `grounds` is what the Calendar building block knows: who is an admin of
an event and who attended it. It is external and changes at any time
(`ChangeGround`). `held` and `since` are kept for the properties only: the roles
its user had at some time since the request began, and the survey's edition then.
`data` is the edition of the questions that the client of an answer has answered, any
that there has been.

| Action | Code |
|---|---|
| `StartCreate` ... `StartRemove` | the handlers of both APIs, up to the core's first call |
| `Find` | `GetSurvey`, and the refusals of `GetAllSurveyResponses` |
| `Ask` | `GetEventUsers`, from `isEventAdmin` or `hasAttendedEvent` |
| `CreateSurvey`, `UpdateSurvey`, `DeleteSurvey` | the writes; the unique index on events; the filter by creator |
| `Retry` | `WithTransaction` runs the closure of `deleteSurvey` again |
| `CreateSurveyResponse`, `ShowResponses` | the insert; the read of all responses to a survey |
| `UpdateSurveyResponse`, `DeleteSurveyResponse` | the writes of one response, with the ids that the code passes |
| `DeleteSurveyResponses` | DELETE `/survey-responses` |
| `CallFails` | a call returns an error, or the process ends |

The deletion of a survey is a transaction: its read and its delete see one
snapshot, so `DeleteSurvey` needs the survey unchanged, and otherwise MongoDB
reports a write conflict. `updateSurvey` asks the calendar about the event that the
request names; `$set` leaves the stored event, creator and flags alone. A survey is
reduced to these and to `edition`, the number of its updates, each of which may change
its questions, title, type and rules. The survey in a stored response is put together from
two editions: `CreateSurveyResponse` takes the survey from storage (`form`) and puts
the client's `Data`, `SurveyStats`, `ResultJSON` and `UnstructuredProperties` over it (`data`).
`FormIsCurrent` says what can be said of the mixture: what comes from storage is no older
than the request, and what comes from the client no newer.

Two operations on single responses change nothing in the model because they change
nothing in the program: PUT `/survey-responses/{id}` gives the id of its path to
the survey and none to the response, and DELETE `/survey-responses/{id}` passes the
id where storage takes the organisation id.

### `Documents` - collections

Functions from ids to documents, `Unborn` before and `Gone` after they are stored;
extended by `Surveys`, `SurveyQuery` and the three modules below.

### `SurveyQuery` - lists that are read page by page

`query` is the list that one client reads: GET `/surveys`, `/creator/surveys`,
`/admin/surveys`, `/survey-responses` or `/scores` with its parameters. `Matching` are the
filters, `Key` the sort key of a document, with the three facets of public surveys
as its first part, and `Sorted` all the orders in which the database may return
what matches: equal keys leave the order open, and each page may have another.
`NextPage` asks with "the number of results previously loaded" as offset
(`docs/resources/client/surveys.yaml`) until a page is not full. Meanwhile other
requests store, change and delete documents. `Inserts`, `Removes` and `Neutral` say
what a kind of change can do to a list: an answer, say, moves a survey to the end of
a list of public surveys, into a list of completed ones, and in front of the list of
the user's responses. In the list of scores, the leaderboard, documents move by
themselves: points that are won bring a score forward, past what has been read, and
`expected` forgets it. `seen` keeps each result with the key that it had then;
`expected`, `changes` and `tied` are kept for the properties only.

### `Alerts` - survey alerts and their contacts

Each time the client sends the alert is one of `Attempts` and has a handler of its own,
and everything about a handler is a function of the attempt. `at` is where it is:
`find` (the contacts, by `GetAlertContactsByKey`), `mail` (the loop), answered with
`success` or `error`, or `cut` off by the end of its process. `todo` are the contacts, as
they were read, that its loop has still to go through, in any order, since the query has
none. The `go` statement of `SendMail` evaluates its argument first, so that mails go out
one after the other, while the client waits, and only the logging is left to a goroutine.
A mail fails (`MailFails`) with or without having been taken by the Notifications building
block, which `mailed` counts for each attempt and contact; the loop goes on in both cases
(`LogAndGoOn`). A service without an account manager, for which `SendMail` returns at
once, is one whose mails all fail.

The client sends the alert again when it has been told of an error, and also when it gets
no answer (`unanswered`): because it or a gateway gives up waiting or the answer is lost
(`ClientGivesUp`), or because the process ends (`ProcessEnds`). A handler does not notice
that its client has gone, so the handlers of two attempts may be at work at once. Admins
create, change and delete contacts meanwhile. `sent`, `tried`, `held` and `steady` are
kept for the properties only. `MailedOnce` counts for each contact; two contacts with one
address get a mail each.

### `UserData` - surveys, responses and score of one user

The request for a user's data begins both reads (`AskForData`), which end in any
order (`ReadSurveys`, `ReadResponses`, `ReadFails`), and `Join` is what follows
`wg.Wait`. Between them surveys and responses change. The module also composes what
`Surveys` and `Scores` each leave out: the type of a survey, which a client's update
sets to "user" (`TypeFor`), the copy of it in a response that is being stored
(`writing`), and the responses that the score of the user counts (`counted`), be it
kept up to date (`StoreAnswer`) or made from the stored responses (`GetScore`,
`CountedWith`). A user answers one survey at a time here. `uncounted` are responses
whose request failed between the two writes, as `Scores` has them.

### `Analytics` - windows of time

`hour` is the time. A response is dated (`StampAnswer`), and stored later
(`InsertAnswer`) or not at all. The collector asks with dates, each window from the
end of the last one, or with an offset from now, at least as often as the offset is
long (`period`); it asks again for a window that it did not get. `Parameters` are what
it may send, and `Refused` and `WindowOf` what the handler makes of it. The collector
is outside the repository and assumed. `collected` and `late` are kept for the
properties only.

## 3. Runs

| Run | Checks | Instance |
|---|---|---|
| `scores_serial` | `TypeOK`, `NeverTwice`, `AckedCountedOnce`, `NothingForgotten`, `ProfileKept`, `KeepsTally` | 2 users, 3 requests, one at a time per user, 1 fault |
| `scores_concurrent` | `AtMostTwice`, `OwnQuizzesOnly`, `CountedWhenAcked` | 2 users, 3 requests in any interleaving, 1 fault |
| `scores_lost` (violation) | `ScoreAccumulates` | as above without faults |
| `streaks` | `TypeOK`, `StreakIsRun`, `ScoreIsSumOfPoints`, `PointsBounded`, `CountersComplete` | 8 half-days and 5 responses of 4 kinds of clients; 4 half-days and 4 responses with replay and travel; counters modulo 16 |
| `streaks_replayed_run` (violation) | `StreakIsRun` | with responses that were not scored when they came |
| `cache_spaced` | `TypeOK`, `CaughtUpIsFresh`, `ReportedDone`, `AllOrgsKept`, `ActsAsStore`, `Converges` | 1 server, 2 keys, one of them for all organisations, 2 admin calls at a time, 4 spaced changes, 2 faults |
| `cache_stale` (violation) | `Converges` | 1 server, 2 changes at any time, no faults |
| `delete_sweeps` | `TypeOK`, `SweepReachesAll` | 2 applications, 2 faults |
| `delete_forgotten` (violation) | `Forgotten` | 1 member, no faults |
| `surveys` | `TypeOK`, `NamesHidden`, `ShownToEntitled`, `DeletedByEntitled`, `AnsweredByAttendees`, `FormIsCurrent` | 2 users, 1 event, 1 survey, 1 response, 3 requests, 2 at a time |
| `survey_pages` | `TypeOK`, `NothingMissed`, `NothingTwice`, `PagesInOrder` | 7 lists, 3 surveys, 2 responses, 3 scores, 4 changes |
| `requests` | `TypeOK`, `MailedOnce`, `AllMailed`, `MailedToContacts`, `DataIsCurrent`, `ScoreFollowsCopies`, `CollectedOnce`, `MissedOnlyInFlight` | 3 contacts, 2 attempts, 2 faults; 1 survey, 2 responses, 4 changes; 2 responses, 5 hours, windows by date and by offsets of 1 and 2 hours |

**What they show.** With one request at a time, the score handlers are right in
spite of failed calls and restarts. With overlapping requests they are not
(`scores_lost`): a GET that replays while a POST is between its insert and its read
counts the response twice, and two POSTs lose one. What remains is in
`scores_concurrent`. The rules keep streak and score right for a client that stays
in its time zone; a replay goes from the newest response to the oldest and never
builds a streak (`streaks_replayed_run`). Copies of the configurations are
right if changes leave servers time to reload (`cache_spaced`); otherwise two reloads may
end in the wrong order, and a change made between a server's first load and the opening
of its stream is lost (`cache_stale`). With copies that are right, an admin's call is
judged by what is stored when it looks, its write touches no other document, and a success
without effect is only that of an update whose document has been deleted since. What
applies to all organisations never loses the flag that the checks look at. The daily sweep reaches everybody and
deletes nothing, because it passes the application id where the organisation id
belongs (`delete_forgotten`). The handlers of surveys ask who is an admin before
they write; what they promise holds for a role that was held at some time during
the request (`surveys`), not for the moment of the write. Pages that are cut from a
changing list repeat results when documents are added and skip some when they are
taken away; `survey_pages` shows that it is never the other way round, and that ties
are the only other reason. Stored responses mix two editions of a survey, the questions never
newer than the request and the rest never older. A client that repeats an alert because
it is told of an error has no contact mailed again, because all that is reported as an
error comes before the first mail: the price is that the client is told of success when
mails have failed. One that repeats it because it got no answer may have every contact mailed
again, since nothing remembers who was mailed. User data has two
halves of two moments, each of which is complete for what did not change. A score
goes by the type that a survey had when it was answered, and the replay agrees.
Collectors get each response once, but miss one that is dated at the end of a window
and stored after the window was read: `late` are exactly those (`requests`).

`MCRequests` puts `Alerts`, `UserData` and `Analytics` into one run. What they read is
changed within each of them and by none for another, so a behaviour of the run is one
of one module, and the other two stay as they are at first.

**Bounds.** Three requests are enough for one request of each kind to interfere
with the two others, and for a request to find the effects of an interleaving of
two. Five responses on eight half-days give runs, gaps, repeated days and both
sides of the 24-hour limit on a client's clock (offsets of -1, 1 and 3 half-days).
In `cache_spaced` four changes are
the creation of a configuration, its deletion and another creation between the look and the
write of a second call, and that write; they also show that a server recovers from a change
that its stream has skipped. One server is enough, since servers meet only in the
database and a change that is made through one reaches its own copy in the same way as that
of another; with spaced changes no server has two reloads at work, so that one slot is
enough; the proofs are for any number of both. In `cache_stale` two reload goroutines are the
least that can end in the wrong order. A stream that cannot get a
free slot waits: the bound on goroutines delays a reload and drops none. Faults
are bounded so that there is a time after the last of them, which the liveness
properties need; two cover a fault during the recovery from another. In `surveys`
the database starts with or without a survey, anonymous or sensitive, and with any
roles; three requests are a survey's creation or change, an answer and a look at it
or its deletion, two of them at work at once. One survey is enough, since no handler
looks at two, but for the unique index, which the survey at the start meets. Users
and request slots are symmetric. In `survey_pages` at most two surveys and two
responses, and three scores, are there at the start and four changes follow, so that a list can grow
by four or lose all it had between pages of one or two; the lists take each sort
order of the code, and the drafts have surveys with and without dates, with ties
and without. Its cfg has a constraint: once there have been changes of kinds that no
property is about, all properties hold for good, since `changes` only grows, and TLC
goes no further. In `requests` three contacts are one to mail, one to pass over and one
that changes; two attempts are one and its repetition, which may overlap; two faults are
any two of a failed mail, a client that gives up and an end of the process; four changes
are a response, an update of its survey, another response and a deletion; five hours
are two windows of two hours and a response in between.

**Fairness.** `ConfigCache`: goroutines of a running server are scheduled and a
stopped server is started again (`WF` of `Starting`, `Watching` and each reload).
`DeleteData`: timers fire, calls return, tokens expire. Nothing is assumed of
admins or users, and no fault has to happen. `Scores`, `Streaks`, `Surveys`,
`SurveyQuery`, `Alerts`, `UserData` and `Analytics` state safety only: a handler runs
once and ends, and nothing has to happen after it.

**Deadlock** is not checked where a model ends because its requests, changes or
time run out; `DeleteData` goes on for ever and is checked for it.

## 4. Proofs

Eight modules prove, for every value of the constants, every safety property that the
passing runs check. Each inductive invariant was checked by TLC on the module's run
before it was proved. They assume what the `ASSUME`s of the modules say: bounds are
natural numbers, marks such as `Gone` or `NoCall` are not taken for what they stand in
for, in `SurveyQuery` collections are finite, and in `ScoreRules` a counter has at least
two values, so that a streak of 1 fits into it. Four hypotheses say more and stand in
the theorem: `OneAtATime`, `Spaced`, `IdsApart` and `HomeIsScored`, each explained below.

| Module | Theorem | States |
|---|---|---|
| `ScoresProofs` | `TypeCorrect` | `Spec => []TypeOK` |
| | `CountedAtMostTwice` | `Spec => []AtMostTwice` |
| | `CountsOwnQuizzesOnly` | `Spec => []OwnQuizzesOnly` |
| | `AckedIsCounted` | `Spec => CountedWhenAcked` |
| | `SerialCountsOnce` | with `OneAtATime`: `Spec => []NeverTwice` |
| | `SerialKeepsAcked` | with `OneAtATime`: `Spec => []AckedCountedOnce` |
| | `SerialForgetsNothing` | with `OneAtATime`: `Spec => NothingForgotten` |
| | `SerialKeepsProfile` | with `OneAtATime`: `Spec => ProfileKept` |
| | `SerialKeepsTally` | with `OneAtATime`: `Spec => KeepsTally`, the refinement of `ScoreTally` |
| `ConfigCacheProofs` | `CacheTypeCorrect` | `Spec => []TypeOK` |
| | `CaughtUpServersAreFresh` | `Spaced /\ Spec => []CaughtUpIsFresh` |
| | `ReportsAreDone` | `Spaced /\ Spec => ReportedDone` |
| | `CachesNeverGoBack` | `Spaced /\ Spec => CacheNeverGoesBack` |
| | `ChangesAreEntitled` | `Spaced /\ Spec => ChangedByEntitled` |
| | `AllOrgsAreKept` | `Spec => AllOrgsKept` |
| | `CacheActsAsStore` | `Spaced /\ Spec => ActsAsStore`, the refinement of `ConfigStore` |
| `SurveysProofs` | `SurveysTypeCorrect` | `Spec => []TypeOK` |
| | `NamesStayHidden`, `ShowsToEntitled` | `Spec => []NamesHidden`, `Spec => []ShownToEntitled` |
| | `DeletesByEntitled` | `Spec => DeletedByEntitled` |
| | `AnswersByAttendees`, `FormsAreCurrent` | `Spec => AnsweredByAttendees`, `Spec => FormIsCurrent` |
| `SurveyQueryProofs` | `QueryTypeCorrect` | `Spec => []TypeOK` |
| | `PagesMissNothing` | `Spec => []NothingMissed` |
| | `PagesShowOnce`, `PagesKeepOrder` | `Spec => []NothingTwice`, `Spec => []PagesInOrder` |
| `StreaksProofs` (with the lemmas of `ScoreRulesProofs`) | `StreaksTypeCorrect` | `Spec => []TypeOK` |
| | `PointsStayBounded` | `Spec => []PointsBounded` |
| | `CountersStayComplete` | `Spec => []CountersComplete` |
| | `HomeStreakIsRun`, `HomeScoreIsSum` | with `HomeIsScored`: `Spec => []StreakIsRun`, `Spec => []ScoreIsSumOfPoints` |
| `RequestsProofs` | `RequestsTypeCorrect` | `MCSpec => []TypeOK`, of `MCRequests` |
| | `AlertsTypeCorrect` | `AlertsSpec => []AlertsTypeOK` |
| | `MailsOnce`, `MailsAll`, `MailsToContacts` | `AlertsSpec => []MailedOnce`, `[]AllMailed`, `[]MailedToContacts` |
| | `UserDataTypeCorrect` | `UserDataSpec => []UserDataTypeOK` |
| | `AnswersCurrentData`, `ScoreCountsCopies` | `UserDataSpec => []DataIsCurrent`, `[]ScoreFollowsCopies` |
| | `AnalyticsTypeCorrect` | `AnalyticsSpec => []AnalyticsTypeOK` |
| | `CollectsOnce`, `MissesOnlyInFlight` | `AnalyticsSpec => []CollectedOnce`, `[]MissedOnlyInFlight` |
| `DeleteDataProofs` | `DeleteTypeCorrect` | `Spec => []TypeOK` |
| | `SweepDeletesNothing` | `IdsApart /\ Spec => NothingGoes` |

*Scores.* Three lemmas say once what steps do, so that no invariant has to
split `Next` again: `ControlFlow` (how a request moves), `DraftOrigins` (where a
document in memory comes from) and `ScoreOrigins` (a score changes only to a draft
of a request of its user). `AtMostTwice` is not inductive, since it says nothing of
documents in memory: `TwiceInv` bounds stored and held documents alike, by one as
long as the response's own request has not added it and by two afterwards.
`OwnInv` does the same for `OwnQuizzesOnly`, and `HoldsOwnInv` says that the draft of a
request about to write a score counts its own response, unless that has been deleted. For one
request at a time `SerialInv` adds that no two requests of a user are at work, that
no score counts a response whose request is at work, and that a draft is the stored
score plus at most its own response (`DraftIsCurrent`); `NeverTwice` and
`AckedCountedOnce` are conjuncts of it, and `ScoreStep` draws the action properties
and the refinement from it. `ProfileInv` adds where a draft has its profile id from.

*Configuration cache.* `CaughtUpIsFresh` says nothing of a server that is busy.
`CacheInv` says, under `Spaced`, that whatever any goroutine has loaded is what the
database holds now, since no change is made while anything loaded is still to be stored;
that no copy has a version above the database's; that a server that is down has
nothing pending and no stream; and that one which has been told of every change, and
has missed none, is fresh or has a reload pending. A reload therefore stores the newest version
there is (`CachesNeverGoBack`). Of a call at work `CallInv` keeps what was true at its look:
the document it goes by was the one stored then, and its caller was allowed to change
it; `IdsInv` bounds ids by the number of changes, so that a new document gets an id that no
call at work goes by, and the id in a filter finds the document that was looked at or none. `WriteCases` says once what a write can be; `ReportsAreDone`, `ChangesAreEntitled`
and the refinement draw on it. In the refinement a copy that is set is what is stored
(`ServerRefines`), a call that passes its checks comes to the store (`AskRefines`), its
write, reported or not, is the end of the store's call (`WriteRefines`), and every other step
shows nothing. `AllOrgsInv` needs no hypothesis: every configuration for all organisations,
stored, copied, loaded or about to be written, has the flag, and every call at work for one is
of a system admin.

*Surveys.* `SurveysInv` is about each call at work (`CallInv`): its step is one that
its operation has (`CallShape`); from the moment it counts as admin, or as having
attended, it holds a ground for that in `held`, for the event of the very survey that
it goes on with (`Entitled`). `OneSurvey` says that all copies of a survey, stored, in a call's memory or
in a response, agree in what no update changes (event, creator, flags), so that the
ground holds for whichever copy the call writes or shows. `NotOlder` puts the edition
at the start of an answer's request between that of its questions and those of the stored
survey and of the form the call works with.

*Lists.* The properties compare pages of different moments, and offsets say nothing
of documents; what relates them is a count. `Below(key)` are the documents that match
now and come before a key. `SeenAreFirst`: as long as documents only leave the list or
go back in it, fewer than `i` of them are below the key of the `i`-th result.
`UnseenAreToCome`: as long as they only come or move ahead, and keys differ, a
document that is expected and not yet seen has at least as many below it as the
offset says, and the list has not ended. `RemovalsShrink` and `InsertionsGrow` show,
for every handler, filter and sort order, that `Below` only shrinks or grows;
`BelowAtMost` and `BelowAtLeast` that in any order the database may return exactly
`i - 1` documents come before the `i`-th, by the cardinality theorems of the library.

*Alerts.* `AttemptInv` is about each attempt by itself: a contact still in `todo` has not
been mailed, and each is there once (`OneEach`); an attempt that is before its loop, or
answered with an error, has mailed nobody (`ErrorMailsNone`); a contact that was steady and
has not been tried is still in `todo` (`SteadyToCome`); what the loop has read is among the
addresses held (`AddressesHeld`). `InTurn` relates the attempts: all but the last gave the
client an error or no answer.

*User data.* What there is now, what each goroutine has read, and the answer lie
between what has been there all the time and what has been there at some time of the
request (`NowIsBetween`, `ReadIsBetween`, `AnswerHasBoth`). `ScoreInv` relates the
score to the copies of surveys in the responses and to the one being stored.

*Analytics.* For a collector that asks with dates, what has been collected was dated
before the end of the last window, and collected once (`CollectedBefore`). For any, an
answer dated before that end is stored and has been collected, unless it is late
(`DatedBefore`). Both rest on `WindowGoesOn`: a window starts where the last one ended,
or, for a collector that asks with an offset, not later than that.

*Deletion.* Sections still to do stand for deleted members (`SectionsAreDeleted`).
`SweepDeletesNothing` generalizes what `delete_forgotten` shows: if no application
has the id of an organisation (`IdsApart`), as is so for ids drawn from one pool, no
step of any behaviour takes away a document.

*Score rules.* A replay goes through any number of responses, and so do the sums that
the properties compare it with. The induction theorems of the library take the formula
as a parameter, which the provers cannot instantiate; `NatSetInduction` and
`UpToInduction` say the same of a set of numbers, from the theorem that every set of
naturals has a least member. `Replay` then gives the loop of `CreateScore`: the score
after `i` turns is `UpdateScore` of that after `i - 1`, and its counters and streak keep
their types. The lemmas from `DivMod` to `SmallMod` are the arithmetic of days and of
counters modulo a width that is only a constant, which the SMT solver does not know.

*Streaks.* `StreaksInv` is for every client: its conjuncts are the bounds on points and
streak and the completeness of the counters. A replay is newest first and the sums are
oldest first, so each is carried through the replay from the last response to the first
(`SumBelow`, `SumAbove`, `SumModulo`), whatever the clocks say. `HomeInv` is for clients
that keep their time zone. `StreakIsRun` is not inductive: it does not say what day the
score stands at, nor that the run cannot be longer. `AtHome` adds that `prevDate` lies on
the day of the last response, that no response was created after it, and that the streak is
a run with a response on each of its days and none on the day before (`IsRun`), which
makes it the longest (`RunIsLongest`). A new response is on the same day, the next one, or a
later one (`DaysGrow`), and the three cases of `NextStreak` follow (`StreakFollowsRun`).
`HomeIsScored` says that the histories of such clients have no response that was stored
without being scored, since a replay breaks the streak (`streaks_replayed_run`), and
fewer responses than a counter has values, since a streak of 2^32 days would be 0.

*Only model-checked* are the liveness properties `Converges` and `SweepReachesAll`, since
neither fairness nor `ENABLED` is within the prover's reach.

## 5. Not modelled, and why

PROJECT.json lists every component with its status. Left out for good: parsing and
encoding of requests, the SDK's token checks, MongoDB itself (a call is atomic and
either made or not), the HTTP clients' details, empty BBs/TPS/System APIs, generated
documents and mocks, and storage functions that nobody calls. In `Scores`, two
concurrent writes of a score that happen to be equal in every field are told apart
by the model and not by MongoDB, which then reports that nothing was modified: the
handler's error is covered by `CallFails`. A response dated to an earlier day moves
the reference day of a streak back (`app_client.go` 302), which a client meets that
travels; the streak properties are stated for clients that do not. A page of
`SurveyQuery` is read in one step, though an aggregation may see a change while it
runs. The API documents call the bounds of a list `start_time_before` and so on,
where the handlers read `starts_before` (`apis_client.go` 135-151); the model has the
parameters that are read.

In `Alerts` the content of an alert is only complete or not, and the organisation and
application of contacts and alerts are one; push notifications are called by nobody.
`Analytics` has one clock for all instances of the service, and leaves out the filter by survey type, and the rounding of GET `/scores` in
its first version is left out of `SurveyQuery`. Five hazards have no property:
the list of listeners, a plain slice that one goroutine reads while another appends to
it (`database.go` 208), shows in no state of a model; and the two operations on
single responses that never match a document fail at their first call. A response without
stats makes every later replay panic (`app_client.go` 261), and a day that goes back lets a
streak grow (302): the models have both, but there is nothing that the code promises instead.

## 6. Plan

1. *Done:* `Scores` with `ScoreTally`; `ScoreRules`, `Streaks`; `ConfigCache` with
   `ConfigStore`; `DeleteData`; `Surveys`; `SurveyQuery`; `Alerts`, `UserData` and
   `Analytics`; proofs of every safety property.
2. Composition: `Surveys` with the deletions of `DeleteData`.
