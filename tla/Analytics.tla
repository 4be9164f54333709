------------------------------- MODULE Analytics -------------------------------
(***************************************************************************)
(* GET /analytics/survey-responses (driver/web/apis_analytics.go): a       *)
(* collector outside asks again and again for the anonymous responses of a *)
(* window of time, and cannot tell two responses to a survey apart, since  *)
(* each is sent with the id of its survey.  A response is dated before it  *)
(* is stored (core/app_client.go).  The unit of time is the hour, which    *)
(* time_offset counts in.                                                  *)
(***************************************************************************)
EXTENDS Integers, Documents

CONSTANTS
  AnswerIds,   \* ids for new responses
  NoInstant,   \* a start_date or end_date that is left out
  Offsets,     \* the time_offsets that a collector may use
  NoRequest,   \* no request is at work
  LastHour,    \* bound on the time
  MaxRefusals  \* bound on the requests and the responses that fail

\* A response: its date_created, and whether it has been stored.
Answer == [stamp : 0..LastHour, stored : BOOLEAN]

Interval == [start : Int, end : Int]

ASSUME AnalyticsAssumption ==
  /\ Offsets \subseteq Nat \ {0}
  /\ NoInstant \notin Nat
  /\ LastHour \in Nat /\ MaxRefusals \in Nat
  /\ Unborn \notin Answer /\ Gone \notin Answer

VARIABLES
  hour,
  answers,
  period,     \* the time_offset of a collector that asks at least that often, or 0 for
              \* one that asks with dates, from the end of one window to the next
  upto,       \* the end of the last window that the collector has got
  window,     \* that of the request at work
  refusals,
  \* For the properties only:
  collected,  \* how often the collector has got each response, up to twice
  late        \* responses that were not stored yet when their window was read

analyticsVars == <<hour, answers, period, upto, window, refusals, collected, late>>

AnalyticsTypeOK ==
  /\ hour \in 0..LastHour
  /\ answers \in [AnswerIds -> Answer \cup {Unborn, Gone}]
  /\ period \in Offsets \cup {0}
  /\ upto \in 0..hour
  /\ window \in Interval \cup {NoRequest}
  /\ refusals \in 0..MaxRefusals
  /\ collected \in [AnswerIds -> 0..2]
  /\ late \subseteq AnswerIds

AnalyticsInit ==
  /\ hour = 0 /\ upto = 0
  /\ answers = [a \in AnswerIds |-> Unborn]
  /\ period \in Offsets \cup {0}
  /\ window = NoRequest
  /\ refusals = 0
  /\ collected = [a \in AnswerIds |-> 0] /\ late = {}

Refusal == refusals < MaxRefusals /\ refusals' = refusals + 1
-------------------------------------------------------------------------------
(* The collector and the handler.                                          *)

\* The parameters that the collector may send; one with dates may forget the end,
\* and what a collector with an offset says of the start does not matter.
Parameters ==
  IF period = 0
  THEN [offset : {0}, start : {upto}, end : {NoInstant} \cup ((upto + 1)..hour)]
  ELSE [offset : {period}, start : {NoInstant, upto}, end : {NoInstant}]

\* Both dates, or an offset.
Refused(params) == params.offset = 0 /\ NoInstant \in {params.start, params.end}

\* A mistake: the offset is used for the start only.
WindowOfStart(params) ==
  [start |-> IF params.start = NoInstant THEN hour - params.offset ELSE params.start,
   end   |-> params.end]

\* The offset from now, unless there are both dates.
WindowOf(params) ==
  IF NoInstant \in {params.start, params.end}
  THEN [start |-> hour - params.offset, end |-> hour]
  ELSE [start |-> params.start, end |-> params.end]

Ask ==
  /\ window = NoRequest
  /\ \E params \in Parameters : ~Refused(params) /\ window' = WindowOf(params)
  /\ UNCHANGED <<hour, answers, period, upto, refusals, collected, late>>

\* Mistakes: a window with both its ends, or with neither.
WithinClosed(stamp, w) == w.start <= stamp /\ stamp <= w.end
WithinOpen(stamp, w)   == w.start < stamp /\ stamp < w.end

\* $gte and $lt.
Within(stamp, w) == w.start <= stamp /\ stamp < w.end

\* The responses that are dated in the window, stored already or not.
Dated(w) == {a \in Stored(answers) : Within(answers[a].stamp, w)}

\* GetAnonymousSurveyResponses, and the answer to the collector.
ReadWindow ==
  /\ window # NoRequest
  /\ collected' = [a \in AnswerIds |->
       IF a \in Dated(window) /\ answers[a].stored /\ collected[a] < 2
       THEN collected[a] + 1 ELSE collected[a]]
  /\ late' = late \cup {a \in Stored(answers) :
       /\ ~answers[a].stored
       /\ window.start <= answers[a].stamp /\ answers[a].stamp < window.end}
  /\ upto' = window.end
  /\ window' = NoRequest
  /\ UNCHANGED <<hour, answers, period, refusals>>

\* The collector gets no answer, and asks again.
ReadWindowFails ==
  /\ window # NoRequest
  /\ Refusal
  /\ window' = NoRequest
  /\ UNCHANGED <<hour, answers, period, upto, collected, late>>
-------------------------------------------------------------------------------
(* Meanwhile.                                                              *)

Unasked == UNCHANGED <<period, upto, window, collected, late>>

\* A collector with an offset comes back in time.
Tick ==
  /\ hour < LastHour /\ hour' = hour + 1
  /\ period # 0 => hour' - upto <= period
  /\ UNCHANGED <<answers, refusals>> /\ Unasked

\* CreateSurveyResponse dates the response, and then asks storage and the calendar.
StampAnswer(a) ==
  /\ a \in Free(answers)
  /\ answers' = [answers EXCEPT ![a] = [stamp |-> hour, stored |-> FALSE]]
  /\ UNCHANGED <<hour, refusals>> /\ Unasked

InsertAnswer(a) ==
  /\ a \in Stored(answers) /\ ~answers[a].stored
  /\ answers' = [answers EXCEPT ![a].stored = TRUE]
  /\ UNCHANGED <<hour, refusals>> /\ Unasked

\* The response is refused, or cannot be stored.
AnswerFails(a) ==
  /\ a \in Stored(answers) /\ ~answers[a].stored
  /\ Refusal
  /\ answers' = [answers EXCEPT ![a] = Gone]
  /\ UNCHANGED hour /\ Unasked

DeleteAnswer(a) ==
  /\ a \in Stored(answers) /\ answers[a].stored
  /\ answers' = [answers EXCEPT ![a] = Gone]
  /\ UNCHANGED <<hour, refusals>> /\ Unasked
-------------------------------------------------------------------------------
AnalyticsNext ==
  \/ Ask \/ ReadWindow \/ ReadWindowFails \/ Tick
  \/ \E a \in AnswerIds : StampAnswer(a) \/ InsertAnswer(a) \/ AnswerFails(a) \/ DeleteAnswer(a)

AnalyticsSpec == AnalyticsInit /\ [][AnalyticsNext]_analyticsVars
-------------------------------------------------------------------------------
(* Properties.                                                             *)

\* A collector that asks for one window after the other, and again for one that
\* failed, gets no response twice: also not one that was dated at the very end of a
\* window, or stored after its window had been read.
CollectedOnce == period = 0 => \A a \in AnswerIds : collected[a] <= 1

\* A collector, with dates or with an offset, misses no stored response that is
\* dated before the last window it got ended, but for those that were dated and not
\* stored yet when their window was read.
MissedOnlyInFlight ==
  \A a \in Stored(answers) :
    answers[a].stored /\ answers[a].stamp < upto /\ a \notin late => collected[a] >= 1
===============================================================================
