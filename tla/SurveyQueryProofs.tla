---------------------------- MODULE SurveyQueryProofs ----------------------------
(***************************************************************************)
(* Proofs about module SurveyQuery, for every value of its constants: any  *)
(* documents, lists, page sizes and number of changes between pages.  The  *)
(* argument counts the documents that come before a place in the list.     *)
(***************************************************************************)
EXTENDS SurveyQuery, FiniteSetTheorems, SequenceTheorems, TLAPS

\* What matches now and comes before this key.
Below(key) == {m \in Matching(query) : Precedes(Key(query, m), key)}

\* No more documents come before one that has been seen than were seen before it.
SeenAreFirst ==
  changes \subseteq Removes(query) \cup Neutral(query)
    => \A i \in DOMAIN seen : Cardinality(Below(seen[i].key)) < i

\* At least as many documents come before one that is still to be seen as have been seen.
ToCome(id) ==
  ~ended /\ id \in Matching(query) /\ Cardinality(Below(Key(query, id))) >= Len(seen)

UnseenAreToCome ==
  ~tied /\ changes \subseteq Inserts(query) \cup Neutral(query)
    => \A id \in expected : Listed(id) \/ ToCome(id)

QueryInv == TypeOK /\ SeenAreFirst /\ UnseenAreToCome /\ NothingTwice /\ PagesInOrder
-------------------------------------------------------------------------------
(* The order of keys.                                                      *)

\* Keys are compared part by part.
LEMMA PrecedesByParts ==
  ASSUME NEW a \in Keys, NEW b \in Keys
  PROVE  Precedes(a, b) <=> \/ a[1] < b[1]
                            \/ a[1] = b[1] /\ a[2] < b[2]
                            \/ a[1] = b[1] /\ a[2] = b[2] /\ a[3] < b[3]
<1> DEFINE At(i) == a[i] < b[i] /\ \A j \in 1..(i - 1) : a[j] = b[j]
<1>1. Precedes(a, b) <=> At(1) \/ At(2) \/ At(3)
  BY DEF Precedes
<1>2. At(1) <=> a[1] < b[1]
  OBVIOUS
<1>3. At(2) <=> a[1] = b[1] /\ a[2] < b[2]
  OBVIOUS
<1>4. At(3) <=> a[1] = b[1] /\ a[2] = b[2] /\ a[3] < b[3]
  OBVIOUS
<1> QED BY <1>1, <1>2, <1>3, <1>4

\* No key precedes itself, and one of two precedes the other.
LEMMA PrecedesTotal ==
  ASSUME NEW a \in Keys, NEW b \in Keys
  PROVE  ~Precedes(a, a) /\ (a # b => Precedes(a, b) \/ Precedes(b, a))
BY PrecedesByParts DEF Keys

\* What precedes a key precedes what that key does not come after.
LEMMA PrecedesTransitive ==
  ASSUME NEW a \in Keys, NEW b \in Keys, NEW c \in Keys
  PROVE  /\ Precedes(a, b) /\ Precedes(b, c) => Precedes(a, c)
         /\ ~Precedes(b, a) /\ Precedes(b, c) => Precedes(a, c)
BY PrecedesByParts DEF Keys
-------------------------------------------------------------------------------
(* What the lists are made of.                                             *)

\* A list is of one of three kinds.
LEMMA QueryType ==
  ASSUME TypeOK
  PROVE  /\ query.of \in {"surveys", "responses", "scores"}
         /\ query.limit \in Nat
         /\ query.public \in Answers /\ query.completed \in Answers
         /\ query.of # "surveys" => query.completed = "any"
BY QueryAssumption
   DEF TypeOK, Query, ClientQuery, AdminQuery, ResponseQuery, ScoreQuery,
       SurveyQueryOf, UnfilteredQueryOf, Answers

\* What matches in each.
LEMMA MatchingCases ==
  /\ query.of = "surveys" => Matching(query) = MatchingSurveys(query)
  /\ query.of = "responses" => Matching(query) = Stored(responses)
  /\ query.of = "scores" => Matching(query) = {x \in ScoreIds : Standing(scores[x]) # 0}
BY DEF Matching

\* And its keys.
LEMMA KeyCases ==
  ASSUME NEW id
  PROVE  /\ query.of = "surveys" => Key(query, id) = SurveyKey(query, id)
         /\ query.of = "responses" => Key(query, id) = <<0, -responses[id].created, 0>>
         /\ query.of = "scores" => Key(query, id) = <<0, -scores[id].points, 0>>
BY DEF Key

\* A survey that is stored has dates to sort by.
LEMMA SurveyKeyType ==
  ASSUME TypeOK, NEW s \in Stored(surveys) PROVE SurveyKey(query, s) \in Keys
<1>1. surveys[s] \in Survey
  BY DEF TypeOK, Stored
<1> DEFINE draft == surveys[s].draft
<1>2. draft.start \in Dates /\ draft.end \in Dates /\ draft.estimate \in Nat
  BY <1>1, QueryAssumption DEF Survey, Draft
<1>3. -surveys[s].created \in Int
  BY <1>1, QueryAssumption DEF Survey
<1>4. draft.end # NoDate => draft.end \in Int
  BY <1>2 DEF Dates
<1>5. /\ Rank(draft.start) \in Int /\ -Rank(draft.start) \in Int
      /\ Rank(draft.end) \in Int /\ -Rank(draft.end) \in Int
      /\ -draft.estimate \in Int
  BY <1>2 DEF Rank, Dates
<1>6. DateKey(query, draft) \in Int
  BY <1>5 DEF DateKey
<1> QED BY <1>3, <1>4, <1>5, <1>6 DEF SurveyKey, Keys

\* All of them, in this state and the next.
LEMMA SurveyKeysTyped == TypeOK => \A t \in Stored(surveys) : SurveyKey(query, t) \in Keys
BY SurveyKeyType

\* A score that matches has points.
LEMMA StandingIs ==
  ASSUME NEW score \in Standings \cup {Unborn}
  PROVE  /\ Standing(score) \in Nat
         /\ Standing(score) # 0 => score.points = Standing(score)
BY QueryAssumption DEF Standing, Score

\* What matches has a key to sort by.
LEMMA KeyType ==
  ASSUME TypeOK, NEW id \in Matching(query) PROVE Key(query, id) \in Keys
<1>1. CASE query.of = "surveys"
  BY <1>1, MatchingCases, KeyCases, SurveyKeyType DEF MatchingSurveys
<1>2. CASE query.of = "responses"
  <2>1. id \in Stored(responses)
    BY <1>2, MatchingCases
  <2>2. responses[id] \in Response
    BY <2>1 DEF TypeOK, Stored
  <2>3. -responses[id].created \in Int
    BY <2>2, QueryAssumption DEF Response
  <2> QED BY <1>2, <2>3, KeyCases DEF Keys
<1>3. CASE query.of = "scores"
  <2>1. id \in ScoreIds /\ Standing(scores[id]) # 0
    BY <1>3, MatchingCases
  <2>2. scores[id].points \in Nat
    BY <2>1, StandingIs DEF TypeOK
  <2>3. -scores[id].points \in Int
    BY <2>2
  <2> QED BY <1>3, <2>3, KeyCases DEF Keys
<1> QED BY <1>1, <1>2, <1>3, QueryType

\* A list is finite.
LEMMA MatchingFinite ==
  ASSUME TypeOK
  PROVE  Matching(query) \subseteq Ids /\ IsFiniteSet(Matching(query))
<1>1. \/ Matching(query) \subseteq SurveyIds
      \/ Matching(query) \subseteq ResponseIds
      \/ Matching(query) \subseteq ScoreIds
  BY QueryType, MatchingCases DEF MatchingSurveys, Stored, TypeOK
<1> QED BY <1>1, FS_Subset, QueryAssumption DEF Ids
-------------------------------------------------------------------------------
(* What the database returns.                                              *)

\* How many documents match.
Size == Cardinality(Matching(query))

\* An order holds each document once, none before one with a lower key.
LEMMA SortedIs ==
  ASSUME TypeOK, NEW p \in Sorted(query)
  PROVE  /\ Size \in Nat
         /\ p \in [1..Size -> Matching(query)]
         /\ \A i, j \in 1..Size : i # j => p[i] # p[j]
         /\ \A m \in Matching(query) : \E i \in 1..Size : p[i] = m
         /\ \A j \in 1..Size : \A i \in 1..(j - 1) : ~Precedes(Key(query, p[j]), Key(query, p[i]))
<1>1. Size \in Nat /\ IsFiniteSet(Matching(query))
  BY MatchingFinite, FS_CardinalityType DEF Size
<1>2. /\ p \in [1..Size -> Matching(query)]
      /\ \A i, j \in 1..Size : i # j => p[i] # p[j]
      /\ \A j \in DOMAIN p : \A i \in 1..(j - 1) : ~Precedes(Key(query, p[j]), Key(query, p[i]))
  BY DEF Sorted, SetToSeqs, Size
<1>3. p \in Injection(1..Size, Matching(query))
  BY <1>2 DEF Injection, IsInjective
<1>4. Cardinality(1..Size) = Size
  BY <1>1, FS_Interval
<1>5. p \in Surjection(1..Size, Matching(query))
  BY <1>1, <1>3, <1>4, FS_Injection DEF Size
<1>6. \A m \in Matching(query) : \E i \in 1..Size : p[i] = m
  BY <1>5 DEF Surjection
<1> QED BY <1>1, <1>2, <1>6

\* The first i documents are i documents.
LEMMA FirstOnes ==
  ASSUME TypeOK, NEW p \in Sorted(query), NEW i \in 0..Size
  PROVE  /\ IsFiniteSet({p[j] : j \in 1..i})
         /\ Cardinality({p[j] : j \in 1..i}) = i
<1> DEFINE first == {p[j] : j \in 1..i}
           f == [j \in 1..i |-> p[j]]
<1>1. Size \in Nat /\ \A j, k \in 1..Size : j # k => p[j] # p[k]
  BY SortedIs
<1>2. f \in Surjection(1..i, first)
  BY DEF Surjection
<1>3. f \in Injection(1..i, first)
  BY <1>1 DEF Injection, IsInjective
<1>4. IsFiniteSet(1..i) /\ Cardinality(1..i) = i
  BY <1>1, FS_Interval
<1> QED BY <1>2, <1>3, <1>4, FS_Surjection

\* Only the documents returned before it come before a document.
LEMMA BelowAtMost ==
  ASSUME TypeOK, NEW p \in Sorted(query), NEW i \in 1..Size
  PROVE  Cardinality(Below(Key(query, p[i]))) < i
<1>1. Size \in Nat
  BY SortedIs
<1> DEFINE first == {p[j] : j \in 1..(i - 1)}
<1>2. ASSUME NEW m \in Below(Key(query, p[i])) PROVE m \in first
  <2>1. m \in Matching(query) /\ Precedes(Key(query, m), Key(query, p[i]))
    BY DEF Below
  <2>2. PICK j \in 1..Size : p[j] = m
    BY <2>1, SortedIs
  <2>3. p[i] \in Matching(query)
    BY SortedIs
  <2>4. j # i
    BY <2>1, <2>2, <2>3, KeyType, PrecedesTotal
  <2>5. ~(i \in 1..(j - 1))
    BY <2>1, <2>2, SortedIs
  <2>6. j \in 1..(i - 1)
    BY <1>1, <2>4, <2>5
  <2> QED BY <2>2, <2>6
<1>3. i - 1 \in 0..Size
  BY <1>1
<1>4. IsFiniteSet(first) /\ Cardinality(first) = i - 1
  BY <1>3, FirstOnes
<1>5. Cardinality(Below(Key(query, p[i]))) <= i - 1
  BY <1>2, <1>4, FS_Subset
<1>6. Cardinality(Below(Key(query, p[i]))) \in Nat
  BY <1>2, <1>4, FS_Subset, FS_CardinalityType
<1> QED BY <1>1, <1>5, <1>6

\* If the first i documents come before a key, so do at least i.
LEMMA BelowAtLeast ==
  ASSUME TypeOK, NEW p \in Sorted(query), NEW i \in 0..Size, NEW key,
         \A j \in 1..i : Precedes(Key(query, p[j]), key)
  PROVE  Cardinality(Below(key)) >= i
<1>1. {p[j] : j \in 1..i} \subseteq Below(key)
  <2>1. ASSUME NEW j \in 1..i PROVE p[j] \in Matching(query)
    BY SortedIs
  <2> QED BY <2>1 DEF Below
<1>2. IsFiniteSet(Below(key))
  BY MatchingFinite, FS_Subset DEF Below
<1> DEFINE first == {p[j] : j \in 1..i}
<1>3. Cardinality(first) = i
  BY FirstOnes
<1> HIDE DEF first
<1>4. Cardinality(first) <= Cardinality(Below(key))
  BY <1>1, <1>2, FS_Subset DEF first
<1>5. Cardinality(Below(key)) \in Nat
  BY <1>2, FS_CardinalityType
<1> QED BY <1>3, <1>4, <1>5

\* A page holds the documents after the offset, up to its limit.
LEMMA PageIs ==
  ASSUME TypeOK, NEW p \in Sorted(query), NEW offset \in Nat
  PROVE  LET page == Page(p, offset, query.limit)
         IN  /\ page \in Seq(Matching(query))
             /\ \A i \in 1..Len(page) : offset + i \in 1..Size /\ page[i] = p[offset + i]
             /\ \/ Len(page) = 0 /\ Size <= offset
                \/ query.limit # 0 /\ Len(page) = query.limit
                \/ offset + Len(page) = Size
<1>1. Size \in Nat /\ p \in [1..Size -> Matching(query)] /\ query.limit \in Nat
  BY SortedIs, QueryType
<1>2. Len(p) = Size
  BY <1>1
<1> DEFINE end == IF query.limit = 0 THEN Size ELSE
                  IF offset + query.limit < Size THEN offset + query.limit ELSE Size
           page == Page(p, offset, query.limit)
<1>3. page = SubSeq(p, offset + 1, end)
  BY <1>2 DEF Page, Upto
<1>4. end \in Int /\ end <= Size /\ (end = Size \/ (query.limit # 0 /\ end = offset + query.limit))
  BY <1>1
<1>5. \A i \in (offset + 1)..end : p[i] \in Matching(query)
  BY <1>1, <1>4
<1> HIDE DEF end, page
<1>6. /\ page \in Seq(Matching(query))
      /\ Len(page) = IF offset + 1 <= end THEN end - offset ELSE 0
      /\ \A i \in 1..(end - offset) : page[i] = p[offset + i]
  <2> DEFINE start == offset + 1
  <2>1. start \in Int /\ \A i \in start..end : p[i] \in Matching(query)
    BY <1>5
  <2> HIDE DEF start
  <2>2. /\ SubSeq(p, start, end) \in Seq(Matching(query))
        /\ Len(SubSeq(p, start, end)) = IF start <= end THEN end - start + 1 ELSE 0
        /\ \A i \in 1..(end - start + 1) : SubSeq(p, start, end)[i] = p[start + i - 1]
    BY <1>4, <2>1, SubSeqProperties
  <2>3. page = SubSeq(p, start, end)
    BY <1>3 DEF start
  <2>4. /\ Len(page) = IF start <= end THEN end - start + 1 ELSE 0
        /\ \A i \in 1..(end - start + 1) : page[i] = p[start + i - 1]
    BY <2>2, <2>3
  <2>5. /\ end - start + 1 = end - offset
        /\ \A i \in Int : start + i - 1 = offset + i
    BY <1>4 DEF start
  <2>6. \A i \in 1..(end - offset) : page[i] = p[offset + i]
    BY <2>4, <2>5
  <2> QED BY <2>2, <2>3, <2>4, <2>5, <2>6 DEF start
<1>7. CASE offset + 1 <= end
  BY <1>1, <1>4, <1>6, <1>7 DEF page
<1>8. CASE ~(offset + 1 <= end)
  BY <1>1, <1>4, <1>6, <1>8 DEF page
<1> QED BY <1>7, <1>8
-------------------------------------------------------------------------------
(* The client.                                                             *)

\* A page adds the documents that the database returns after as many as were seen,
\* and is the last one only if none come after it.
LEMMA NextPageIs ==
  ASSUME TypeOK, NextPage
  PROVE  \E p \in Sorted(query) :
           /\ seen' \in Seq(Result) /\ Len(seen') >= Len(seen)
           /\ \A i \in 1..Len(seen) : seen'[i] = seen[i]
           /\ \A i \in (Len(seen) + 1)..Len(seen') :
                i \in 1..Size /\ seen'[i] = [id |-> p[i], key |-> Key(query, p[i])]
           /\ Len(seen') < Size => ended' = FALSE
           /\ ended' \in BOOLEAN
<1>1. PICK p \in Sorted(query) :
        LET page == Page(p, Len(seen), query.limit)
        IN  /\ seen' = seen \o [i \in DOMAIN page |-> [id |-> page[i], key |-> Key(query, page[i])]]
            /\ ended' = (query.limit = 0 \/ Len(page) < query.limit)
  BY DEF NextPage
<1> DEFINE page == Page(p, Len(seen), query.limit)
           results == [i \in DOMAIN page |-> [id |-> page[i], key |-> Key(query, page[i])]]
<1>2. seen \in Seq(Result) /\ Len(seen) \in Nat /\ query.limit \in Nat /\ Size \in Nat
  BY QueryType, SortedIs DEF TypeOK
<1>3. /\ page \in Seq(Matching(query))
      /\ \A i \in 1..Len(page) : Len(seen) + i \in 1..Size /\ page[i] = p[Len(seen) + i]
      /\ \/ Len(page) = 0 /\ Size <= Len(seen)
         \/ query.limit # 0 /\ Len(page) = query.limit
         \/ Len(seen) + Len(page) = Size
  BY <1>2, PageIs
<1>4. seen' = seen \o results /\ ended' = (query.limit = 0 \/ Len(page) < query.limit)
  BY <1>1
<1>5. Len(page) \in Nat /\ DOMAIN page = 1..Len(page)
  BY <1>3
<1>6. ASSUME NEW i \in 1..Len(page) PROVE [id |-> page[i], key |-> Key(query, page[i])] \in Result
  <2>1. page[i] \in Matching(query)
    BY <1>3
  <2> QED BY <2>1, MatchingFinite, KeyType DEF Result
<1> HIDE DEF page
<1>7. results \in Seq(Result) /\ Len(results) = Len(page)
  <2>1. results \in [1..Len(page) -> Result]
    BY <1>5, <1>6
  <2> HIDE DEF results
  <2> QED BY <1>5, <2>1
<1>8. \A i \in 1..Len(page) : results[i] = [id |-> page[i], key |-> Key(query, page[i])]
  BY <1>5
<1> HIDE DEF results
<1>9. /\ seen' \in Seq(Result) /\ Len(seen') = Len(seen) + Len(page)
      /\ \A i \in 1..Len(seen) : seen'[i] = seen[i]
      /\ \A i \in (Len(seen) + 1)..Len(seen') : seen'[i] = results[i - Len(seen)]
  <2>1. /\ seen \o results \in Seq(Result)
        /\ Len(seen \o results) = Len(seen) + Len(results)
        /\ \A i \in 1..(Len(seen) + Len(results)) :
             (seen \o results)[i] = IF i <= Len(seen) THEN seen[i] ELSE results[i - Len(seen)]
    BY <1>2, <1>7, ConcatProperties
  <2>2. /\ seen' \in Seq(Result) /\ Len(seen') = Len(seen) + Len(page)
        /\ \A i \in 1..(Len(seen) + Len(page)) :
             seen'[i] = IF i <= Len(seen) THEN seen[i] ELSE results[i - Len(seen)]
    BY <1>4, <1>7, <2>1
  <2> QED BY <1>2, <1>5, <2>2
<1>10. ASSUME NEW i \in (Len(seen) + 1)..Len(seen')
       PROVE  i \in 1..Size /\ seen'[i] = [id |-> p[i], key |-> Key(query, p[i])]
  <2>1. i - Len(seen) \in 1..Len(page) /\ Len(seen) + (i - Len(seen)) = i
    BY <1>2, <1>5, <1>9
  <2> QED BY <1>3, <1>8, <1>9, <2>1
<1>11. Len(seen') < Size => ended' = FALSE
  <2>1. Len(seen') < Size => query.limit # 0 /\ Len(page) = query.limit
    BY <1>2, <1>3, <1>5, <1>9
  <2>2. query.limit # 0 /\ Len(page) = query.limit
        => ~(query.limit = 0 \/ Len(page) < query.limit)
    BY <1>2
  <2> QED BY <1>4, <2>1, <2>2
<1> QED BY <1>2, <1>4, <1>5, <1>9, <1>10, <1>11

\* A change leaves the list that the client reads alone.
LEMMA ChangesKeepList ==
  ASSUME NEW kind, Changed(kind)
  PROVE  /\ ended = FALSE \/ ~ended
         /\ query' = query /\ seen' = seen /\ ended' = ended /\ tied' = tied
         /\ kind \in changes' /\ changes \subseteq changes'
         /\ (query.of = "scores" <=> kind \in {"gain", "loss"})
BY DEF Changed, list

\* All the actions that change documents.
Change ==
  \/ \E x \in ScoreIds : ChangeScore(x)
  \/ \E s \in SurveyIds : CreateSurvey(s) \/ UpdateSurvey(s) \/ DeleteSurvey(s)
  \/ \E r \in ResponseIds : CreateSurveyResponse(r)
  \/ \E gone \in SUBSET Stored(responses) : DeleteSurveyResponses(gone)

\* Every step keeps the types.
LEMMA TypeStep == TypeOK /\ [Next]_vars => TypeOK'
<1> SUFFICES ASSUME TypeOK, [Next]_vars PROVE TypeOK'
  OBVIOUS
<1>1. CASE NextPage
  <2>1. seen' \in Seq(Result) /\ ended' \in BOOLEAN
    BY <1>1, NextPageIs
  <2>2. tied' \in BOOLEAN
    BY <1>1 DEF NextPage, TypeOK
  <2> QED BY <1>1, <2>1, <2>2 DEF NextPage, TypeOK, data
<1> DEFINE Kept == /\ now' \in Age..LastTime /\ query' \in Queries /\ seen' \in Seq(Result)
                   /\ ended' \in BOOLEAN /\ tied' \in BOOLEAN
<1>2. ASSUME NEW kind \in {"create", "update", "delete", "answer", "unanswer", "gain", "loss"},
             Changed(kind)
      PROVE  /\ Kept
             /\ now' \in 1..LastTime
             /\ changes' \subseteq {"create", "update", "delete", "answer", "unanswer", "gain", "loss"}
  BY <1>2, QueryAssumption DEF Changed, list, TypeOK
<1>3. ASSUME NEW s \in SurveyIds, CreateSurvey(s) PROVE TypeOK'
  <2>1. PICK draft \in Drafts :
          surveys' = [surveys EXCEPT ![s] = [draft |-> draft, created |-> now']]
    BY <1>3 DEF CreateSurvey
  <2>2. Kept /\ now' \in 1..LastTime
    BY <1>2, <1>3 DEF CreateSurvey
  <2>3. [draft |-> draft, created |-> now'] \in Survey
    BY <2>2 DEF Survey
  <2>4. surveys' \in [SurveyIds -> Survey \cup {Unborn, Gone}]
    BY <2>1, <2>3 DEF TypeOK
  <2> QED BY <1>2, <1>3, <2>2, <2>4 DEF CreateSurvey, TypeOK
<1>4. ASSUME NEW s \in SurveyIds, UpdateSurvey(s) PROVE TypeOK'
  <2>1. PICK draft \in Drafts : surveys' = [surveys EXCEPT ![s] = Updated(surveys[s], draft)]
    BY <1>4 DEF UpdateSurvey
  <2>2. surveys[s] \in Survey
    BY <1>4 DEF UpdateSurvey, Stored, TypeOK
  <2>3. Updated(surveys[s], draft) \in Survey
    BY <2>2 DEF Updated, Survey
  <2>4. surveys' \in [SurveyIds -> Survey \cup {Unborn, Gone}]
    BY <2>1, <2>3 DEF TypeOK
  <2> QED BY <1>2, <1>4, <2>4 DEF UpdateSurvey, TypeOK
<1>5. ASSUME NEW s \in SurveyIds, DeleteSurvey(s) PROVE TypeOK'
  <2>1. surveys' \in [SurveyIds -> Survey \cup {Unborn, Gone}]
    BY <1>5 DEF DeleteSurvey, TypeOK
  <2> QED BY <1>2, <1>5, <2>1 DEF DeleteSurvey, TypeOK
<1>6. ASSUME NEW r \in ResponseIds, CreateSurveyResponse(r) PROVE TypeOK'
  <2>1. PICK s \in Stored(surveys) :
          responses' = [responses EXCEPT ![r] = [survey |-> s, created |-> now']]
    BY <1>6 DEF CreateSurveyResponse
  <2>2. Kept /\ now' \in 1..LastTime
    BY <1>2, <1>6 DEF CreateSurveyResponse
  <2>3. [survey |-> s, created |-> now'] \in Response
    BY <2>2 DEF Response, Stored, TypeOK
  <2>4. responses' \in [ResponseIds -> Response \cup {Unborn, Gone}]
    BY <2>1, <2>3 DEF TypeOK
  <2> QED BY <1>2, <1>6, <2>2, <2>4 DEF CreateSurveyResponse, TypeOK
<1>7. ASSUME NEW gone \in SUBSET Stored(responses), DeleteSurveyResponses(gone) PROVE TypeOK'
  <2>1. responses' \in [ResponseIds -> Response \cup {Unborn, Gone}]
    BY <1>7 DEF DeleteSurveyResponses, TypeOK
  <2> QED BY <1>2, <1>7, <2>1 DEF DeleteSurveyResponses, TypeOK
<1>8. ASSUME NEW x \in ScoreIds, ChangeScore(x) PROVE TypeOK'
  <2>1. scores' \in [ScoreIds -> Standings \cup {Unborn}]
    BY <1>8 DEF ChangeScore, TypeOK
  <2>2. Changed("gain") \/ Changed("loss")
    BY <1>8 DEF ChangeScore
  <2> QED BY <1>2, <1>8, <2>1, <2>2 DEF ChangeScore, TypeOK
<1>9. CASE UNCHANGED vars
  BY <1>9 DEF vars, data, list, TypeOK
<1> QED BY <1>1, <1>3, <1>4, <1>5, <1>6, <1>7, <1>8, <1>9 DEF Next
-------------------------------------------------------------------------------
(* What a change does to the list.                                         *)

\* A list of responses changes only with the responses.
LEMMA ResponseListSame ==
  ASSUME query.of = "responses", query' = query, responses' = responses
  PROVE  Matching(query)' = Matching(query) /\ \A m : Key(query, m)' = Key(query, m)
BY DEF Matching, Key, Stored

\* A list of surveys changes only with the surveys and with what the user has answered.
LEMMA SurveyListSame ==
  ASSUME query.of = "surveys", query' = query, NEW s,
         s \in Stored(surveys), s \in Stored(surveys)', surveys'[s] = surveys[s]
  PROVE  /\ Completed(s)' = Completed(s)
              => /\ s \in Matching(query)' <=> s \in Matching(query)
                 /\ Key(query, s)' = Key(query, s)
         /\ query.completed = "any" => (s \in Matching(query)' <=> s \in Matching(query))
         /\ s \in Matching(query) => Wanted(query.completed, Completed(s))
         /\ s \in Matching(query)' => Wanted(query.completed, Completed(s)')
<1> DEFINE draft == surveys[s].draft
           Fits == /\ Wanted(query.public, draft.public) /\ Wanted(query.archived, draft.archived)
                   /\ NotBefore(draft.start, query.startAfter) /\ NotBefore(query.startBefore, draft.start)
                   /\ NotBefore(draft.end, query.endAfter) /\ NotBefore(query.endBefore, draft.end)
<1>1. s \in Matching(query) <=> Fits /\ Wanted(query.completed, Completed(s))
  BY MatchingCases DEF MatchingSurveys
<1>2. s \in Matching(query)' <=> Fits /\ Wanted(query.completed, Completed(s)')
  <2>1. Matching(query)' = MatchingSurveys(query)'
    BY DEF Matching
  <2> QED BY <2>1 DEF MatchingSurveys
<1>3. Completed(s)' = Completed(s) => Key(query, s)' = Key(query, s)
  BY DEF Key, SurveyKey
<1>4. query.completed = "any" => Wanted(query.completed, Completed(s)) /\ Wanted(query.completed, Completed(s)')
  BY DEF Wanted
<1> HIDE DEF Fits
<1> QED BY <1>1, <1>2, <1>3, <1>4

\* Only the facets of a list of public surveys depend on what the user has answered, and
\* that with the answered ones comes last.
LEMMA AnsweredGoLast ==
  ASSUME TypeOK, TypeOK', query.of = "surveys", query' = query, NEW s,
         s \in Stored(surveys), s \in Stored(surveys)', surveys'[s] = surveys[s],
         Completed(s) => Completed(s)'
  PROVE  Key(query, s)' = Key(query, s) \/ Precedes(Key(query, s), Key(query, s)')
<1>1. Key(query, s) = SurveyKey(query, s) /\ Key(query, s)' = SurveyKey(query, s)'
  BY DEF Key
<1>2. SurveyKey(query, s) \in Keys /\ SurveyKey(query, s)' \in Keys
  <2>1. (TypeOK => \A t \in Stored(surveys) : SurveyKey(query, t) \in Keys)'
    BY SurveyKeysTyped, PTL
  <2> QED BY <2>1, SurveyKeyType
<1>3. CASE query.public # "yes"
  BY <1>1, <1>3 DEF SurveyKey
<1>4. CASE query.public = "yes" /\ (Completed(s)' <=> Completed(s))
  BY <1>1, <1>4 DEF SurveyKey
<1>5. CASE query.public = "yes" /\ ~Completed(s) /\ Completed(s)'
  <2>1. SurveyKey(query, s)[1] \in {1, 2}
    BY <1>5 DEF SurveyKey
  <2>2. SurveyKey(query, s)'[1] = 3
    BY <1>5 DEF SurveyKey
  <2>3. SurveyKey(query, s)[1] < SurveyKey(query, s)'[1]
    BY <2>1, <2>2
  <2> QED BY <1>1, <1>2, <2>3, PrecedesByParts
<1> QED BY <1>3, <1>4, <1>5

\* What the user has answered changes with the responses.
LEMMA CompletedSteps ==
  ASSUME TypeOK, NEW s
  PROVE  /\ responses' = responses => Completed(s)' = Completed(s)
         /\ \A r \in ResponseIds : CreateSurveyResponse(r) /\ Completed(s) => Completed(s)'
         /\ \A gone : DeleteSurveyResponses(gone) /\ Completed(s)' => Completed(s)
<1>1. responses' = responses => Completed(s)' = Completed(s)
  BY DEF Completed, Stored
<1>2. ASSUME NEW r \in ResponseIds, CreateSurveyResponse(r), Completed(s) PROVE Completed(s)'
  <2>1. PICK a \in Stored(responses) : responses[a].survey = s
    BY <1>2 DEF Completed
  <2>2. a # r /\ a \in ResponseIds
    BY <1>2, <2>1 DEF CreateSurveyResponse, Stored, TypeOK
  <2>3. responses'[a] = responses[a] /\ DOMAIN responses' = DOMAIN responses
    BY <1>2, <2>2 DEF CreateSurveyResponse, TypeOK
  <2>4. a \in Stored(responses)'
    BY <2>1, <2>3 DEF Stored
  <2> QED BY <2>1, <2>3, <2>4 DEF Completed
<1>3. ASSUME NEW gone, DeleteSurveyResponses(gone), Completed(s)' PROVE Completed(s)
  <2>1. PICK a \in Stored(responses)' : responses'[a].survey = s
    BY <1>3 DEF Completed
  <2>2. responses' = [r \in ResponseIds |-> IF r \in gone THEN Gone ELSE responses[r]]
    BY <1>3 DEF DeleteSurveyResponses
  <2>3. a \in ResponseIds /\ responses'[a] # Gone
    BY <2>1, <2>2 DEF Stored
  <2>4. responses'[a] = responses[a]
    BY <2>2, <2>3
  <2>5. a \in Stored(responses)
    BY <2>1, <2>3, <2>4 DEF Stored, TypeOK
  <2> QED BY <2>1, <2>4, <2>5 DEF Completed
<1> QED BY <1>1, <1>2, <1>3

\* A list is finite and its keys are keys, in this state and the next.
LEMMA ListTyped ==
  TypeOK => /\ IsFiniteSet(Matching(query))
            /\ \A m \in Matching(query) : Key(query, m) \in Keys
BY MatchingFinite, KeyType

\* The kinds of change that take documents out of a list.
LEMMA RemovesKinds ==
  ASSUME TypeOK, NEW kind \in Removes(query) \cup Neutral(query),
         query.of = "scores" <=> kind \in {"gain", "loss"}
  PROVE  \/ query.of = "responses" /\ kind \in {"unanswer", "create", "update", "delete"}
         \/ query.of = "surveys" /\ kind = "delete"
         \/ query.of = "surveys" /\ kind = "unanswer" /\ query.completed = "yes"
         \/ query.of = "surveys" /\ kind = "answer" /\ query.completed # "yes"
         \/ query.of = "scores" /\ kind = "loss"
<1>1. CASE query.of = "scores"
  BY <1>1, QueryType DEF Removes, Neutral
<1>2. CASE query.of = "responses"
  BY <1>2, QueryType DEF Removes, Neutral
<1>3. CASE query.of = "surveys" /\ query.completed = "yes"
  BY <1>3 DEF Removes, Neutral
<1>4. CASE query.of = "surveys" /\ query.completed # "yes"
  BY <1>4 DEF Removes, Neutral
<1> QED BY <1>1, <1>2, <1>3, <1>4, QueryType

\* The kinds of change that bring documents into a list.
LEMMA InsertsKinds ==
  ASSUME TypeOK, NEW kind \in Inserts(query) \cup Neutral(query),
         query.of = "scores" <=> kind \in {"gain", "loss"}
  PROVE  \/ query.of = "responses" /\ kind \in {"answer", "create", "update", "delete"}
         \/ query.of = "surveys" /\ kind = "create"
         \/ query.of = "surveys" /\ kind = "answer" /\ query.completed = "yes"
         \/ query.of = "surveys" /\ kind = "unanswer" /\ query.completed = "no"
         \/ query.of = "scores" /\ kind = "gain"
<1>1. CASE query.of = "scores"
  BY <1>1, QueryType DEF Inserts, Neutral
<1>2. CASE query.of = "responses"
  BY <1>2, QueryType DEF Inserts, Neutral
<1>3. CASE query.of = "surveys" /\ query.completed = "yes"
  BY <1>3 DEF Inserts, Neutral
<1>4. CASE query.of = "surveys" /\ query.completed = "no"
  BY <1>4 DEF Inserts, Neutral
<1>5. CASE query.of = "surveys" /\ query.completed = "any"
  BY <1>5 DEF Inserts, Neutral
<1> QED BY <1>1, <1>2, <1>3, <1>4, <1>5, QueryType DEF Answers

\* What is in the list after a change that removes was in it before, no further back.
StaysBehind(m) ==
  /\ m \in Matching(query)
  /\ Key(query, m)' = Key(query, m) \/ Precedes(Key(query, m), Key(query, m)')

\* A list of surveys shrinks when one is deleted, ...
LEMMA DeleteShrinks ==
  ASSUME TypeOK, query.of = "surveys", NEW s \in SurveyIds, DeleteSurvey(s),
         NEW m \in Matching(query)'
  PROVE  StaysBehind(m)
<1>1. query' = query
  BY ChangesKeepList DEF DeleteSurvey
<1>2. m \in Stored(surveys)'
  BY <1>1 DEF Matching, MatchingSurveys
<1>3. m # s /\ m \in Stored(surveys) /\ surveys'[m] = surveys[m]
  BY <1>2 DEF DeleteSurvey, Stored, TypeOK
<1>4. Completed(m)' = Completed(m)
  BY CompletedSteps DEF DeleteSurvey
<1> QED BY <1>1, <1>2, <1>3, <1>4, SurveyListSame DEF StaysBehind

\* ... when one is answered, or goes to the end of the list, ...
LEMMA AnswerShrinks ==
  ASSUME TypeOK, TypeOK', query.of = "surveys", query.completed # "yes",
         NEW r \in ResponseIds, CreateSurveyResponse(r), NEW m \in Matching(query)'
  PROVE  StaysBehind(m)
<1>1. query' = query /\ surveys' = surveys
  BY ChangesKeepList DEF CreateSurveyResponse
<1>2. m \in Stored(surveys)' /\ m \in Stored(surveys)
  BY <1>1 DEF Matching, MatchingSurveys, Stored
<1>3. Completed(m) => Completed(m)'
  BY CompletedSteps
<1>4. CASE query.completed = "any"
  BY <1>1, <1>2, <1>3, <1>4, SurveyListSame, AnsweredGoLast DEF StaysBehind
<1>5. CASE query.completed = "no"
  <2>1. Wanted(query.completed, Completed(m)')
    BY <1>1, <1>2, SurveyListSame
  <2>2. ~Completed(m)'
    BY <1>5, <2>1 DEF Wanted
  <2>3. Completed(m)' = Completed(m)
    BY <1>3, <2>2 DEF Completed
  <2> QED BY <1>1, <1>2, <2>3, SurveyListSame DEF StaysBehind
<1> QED BY <1>4, <1>5, QueryType DEF Answers

\* ... and a list of answered ones when answers are deleted.
LEMMA UnanswerShrinks ==
  ASSUME TypeOK, query.of = "surveys", query.completed = "yes",
         NEW gone, DeleteSurveyResponses(gone), NEW m \in Matching(query)'
  PROVE  StaysBehind(m)
<1>1. query' = query /\ surveys' = surveys
  BY ChangesKeepList DEF DeleteSurveyResponses
<1>2. m \in Stored(surveys)' /\ m \in Stored(surveys)
  BY <1>1 DEF Matching, MatchingSurveys, Stored
<1>3. Wanted(query.completed, Completed(m)')
  BY <1>1, <1>2, SurveyListSame
<1>4. Completed(m)'
  BY <1>3 DEF Wanted, Completed
<1>5. Completed(m)' = Completed(m)
  BY <1>4, CompletedSteps DEF Completed
<1> QED BY <1>1, <1>2, <1>5, SurveyListSame DEF StaysBehind

\* A list of responses shrinks when responses are deleted.
LEMMA DeleteResponsesShrinks ==
  ASSUME TypeOK, query.of = "responses", NEW gone, DeleteSurveyResponses(gone),
         NEW m \in Matching(query)'
  PROVE  StaysBehind(m)
<1>1. query' = query
  BY ChangesKeepList DEF DeleteSurveyResponses
<1>2. m \in Stored(responses)'
  BY <1>1 DEF Matching
<1>3. responses' = [r \in ResponseIds |-> IF r \in gone THEN Gone ELSE responses[r]]
  BY DEF DeleteSurveyResponses
<1>4. m \in ResponseIds /\ responses'[m] # Gone
  BY <1>2, <1>3 DEF Stored
<1>5. responses'[m] = responses[m]
  BY <1>3, <1>4
<1>6. m \in Stored(responses)
  BY <1>2, <1>4, <1>5 DEF Stored, TypeOK
<1>7. Key(query, m)' = Key(query, m)
  BY <1>1, <1>5 DEF Key
<1> QED BY <1>6, <1>7, MatchingCases DEF StaysBehind

\* A list of scores shrinks, or one goes back, when a user loses points.
LEMMA LossShrinks ==
  ASSUME TypeOK, TypeOK', query.of = "scores", NEW x \in ScoreIds, ChangeScore(x),
         ~Changed("gain"), NEW m \in Matching(query)'
  PROVE  StaysBehind(m)
<1>1. PICK score \in Standings :
        /\ scores' = [scores EXCEPT ![x] = score]
        /\ Standing(score) < Standing(scores[x]) /\ Changed("loss")
  BY DEF ChangeScore
<1>2. query' = query
  BY <1>1, ChangesKeepList
<1>3. m \in ScoreIds /\ Standing(scores'[m]) # 0
  BY <1>2 DEF Matching, Standing
<1>4. CASE m # x
  <2>1. scores'[m] = scores[m]
    BY <1>1, <1>3, <1>4 DEF TypeOK
  <2>2. Key(query, m)' = Key(query, m)
    BY <1>2, <2>1 DEF Key
  <2> QED BY <1>3, <2>1, <2>2, MatchingCases DEF StaysBehind
<1>5. CASE m = x
  <2>1. scores'[x] = score
    BY <1>1 DEF TypeOK
  <2>2. scores[x] \in Standings \cup {Unborn}
    BY DEF TypeOK
  <2>3. /\ Standing(score) \in Nat /\ Standing(scores[x]) \in Nat
        /\ Standing(score) # 0 => score.points = Standing(score)
        /\ Standing(scores[x]) # 0 => scores[x].points = Standing(scores[x])
    BY <2>2, StandingIs
  <2>4. Standing(scores[x]) # 0
    BY <1>1, <2>3
  <2>5. m \in Matching(query)
    BY <1>5, <2>4, MatchingCases
  <2>6. Standing(score) # 0
    BY <1>3, <1>5, <2>1
  <2>7. Key(query, m) = <<0, -Standing(scores[x]), 0>>
    BY <1>5, <2>3, <2>4, KeyCases
  <2>8. Key(query, m)' = <<0, -score.points, 0>>
    BY <1>2, <1>5, <2>1 DEF Key
  <2>9. Key(query, m)' = <<0, -Standing(score), 0>>
    BY <2>3, <2>6, <2>8
  <2>10. -Standing(scores[x]) < -Standing(score)
         /\ -Standing(scores[x]) \in Int /\ -Standing(score) \in Int
    BY <1>1, <2>3
  <2>11. <<0, -Standing(scores[x]), 0>> \in Keys /\ <<0, -Standing(score), 0>> \in Keys
    BY <2>10 DEF Keys
  <2>12. Precedes(Key(query, m), Key(query, m)')
    BY <2>7, <2>9, <2>10, <2>11, PrecedesByParts
  <2> QED BY <2>5, <2>12 DEF StaysBehind
<1> QED BY <1>4, <1>5

\* So no change that removes brings anything into a list, or forward in it.
LEMMA RemovalsShrink ==
  ASSUME TypeOK, TypeOK', Change, changes' \subseteq Removes(query) \cup Neutral(query),
         NEW m \in Matching(query)'
  PROVE  StaysBehind(m)
<1> DEFINE Kept == query.of = "responses" /\ query' = query /\ responses' = responses
<1>1. ASSUME Kept PROVE StaysBehind(m)
  BY <1>1, ResponseListSame DEF StaysBehind
<1> DEFINE Allowed(kind) == kind \in Removes(query) \cup Neutral(query)
                            /\ (query.of = "scores" <=> kind \in {"gain", "loss"})
<1>2. ASSUME NEW kind, Changed(kind) PROVE Allowed(kind) /\ query' = query
  BY <1>2, ChangesKeepList
<1>3. ASSUME NEW s \in SurveyIds, CreateSurvey(s) PROVE StaysBehind(m)
  <2>1. Allowed("create") /\ query' = query
    BY <1>2, <1>3 DEF CreateSurvey
  <2>2. query.of = "responses"
    BY <2>1, RemovesKinds
  <2> QED BY <1>1, <1>3, <2>1, <2>2 DEF CreateSurvey
<1>4. ASSUME NEW s \in SurveyIds, UpdateSurvey(s) PROVE StaysBehind(m)
  <2>1. Allowed("update") /\ query' = query
    BY <1>2, <1>4 DEF UpdateSurvey
  <2>2. query.of = "responses"
    BY <2>1, RemovesKinds
  <2> QED BY <1>1, <1>4, <2>1, <2>2 DEF UpdateSurvey
<1>5. ASSUME NEW s \in SurveyIds, DeleteSurvey(s) PROVE StaysBehind(m)
  <2>1. Allowed("delete") /\ query' = query
    BY <1>2, <1>5 DEF DeleteSurvey
  <2>2. query.of \in {"responses", "surveys"}
    BY <2>1, RemovesKinds
  <2> QED BY <1>1, <1>5, <2>1, <2>2, DeleteShrinks DEF DeleteSurvey
<1>6. ASSUME NEW r \in ResponseIds, CreateSurveyResponse(r) PROVE StaysBehind(m)
  <2>1. Allowed("answer")
    BY <1>2, <1>6 DEF CreateSurveyResponse
  <2>2. query.of = "surveys" /\ query.completed # "yes"
    BY <2>1, RemovesKinds
  <2> QED BY <1>6, <2>2, AnswerShrinks
<1>7. ASSUME NEW gone \in SUBSET Stored(responses), DeleteSurveyResponses(gone)
      PROVE  StaysBehind(m)
  <2>1. Allowed("unanswer")
    BY <1>2, <1>7 DEF DeleteSurveyResponses
  <2>2. query.of = "responses" \/ (query.of = "surveys" /\ query.completed = "yes")
    BY <2>1, RemovesKinds
  <2> QED BY <1>7, <2>2, DeleteResponsesShrinks, UnanswerShrinks
<1>8. ASSUME NEW x \in ScoreIds, ChangeScore(x) PROVE StaysBehind(m)
  <2>1. ~Changed("gain")
    BY <1>2, RemovesKinds
  <2>2. Changed("loss")
    BY <1>8, <2>1 DEF ChangeScore
  <2>3. Allowed("loss")
    BY <1>2, <2>2
  <2>4. query.of = "scores"
    BY <2>3, RemovesKinds
  <2> QED BY <1>8, <2>1, <2>4, LossShrinks
<1> QED BY <1>3, <1>4, <1>5, <1>6, <1>7, <1>8 DEF Change

\* What is in the list before a change that inserts is in it after it, no further back,
\* ...
StaysAhead(m) ==
  /\ m \in Matching(query)'
  /\ Key(query, m)' = Key(query, m) \/ Precedes(Key(query, m)', Key(query, m))

\* ... and in the same place, if it is expected.
StaysInPlace(m) ==
  /\ m \in Matching(query)'
  /\ Key(query, m)' = Key(query, m)

\* A list of surveys grows when one is created, ...
LEMMA CreateGrows ==
  ASSUME TypeOK, query.of = "surveys", NEW s \in SurveyIds, CreateSurvey(s),
         NEW m \in Matching(query)
  PROVE  StaysInPlace(m)
<1>1. query' = query
  BY ChangesKeepList DEF CreateSurvey
<1>2. m \in Stored(surveys)
  BY MatchingCases DEF MatchingSurveys
<1>3. m # s /\ m \in Stored(surveys)' /\ surveys'[m] = surveys[m]
  BY <1>2 DEF CreateSurvey, Stored, TypeOK
<1>4. Completed(m)' = Completed(m)
  BY CompletedSteps DEF CreateSurvey
<1> QED BY <1>1, <1>2, <1>3, <1>4, SurveyListSame DEF StaysInPlace

\* ... a list of answered surveys when one is answered, ...
LEMMA AnswerGrows ==
  ASSUME TypeOK, query.of = "surveys", query.completed = "yes",
         NEW r \in ResponseIds, CreateSurveyResponse(r), NEW m \in Matching(query)
  PROVE  StaysInPlace(m)
<1>1. query' = query /\ surveys' = surveys
  BY ChangesKeepList DEF CreateSurveyResponse
<1>2. m \in Stored(surveys)' /\ m \in Stored(surveys)
  BY <1>1, MatchingCases DEF MatchingSurveys, Stored
<1>3. Wanted(query.completed, Completed(m))
  BY <1>1, <1>2, SurveyListSame
<1>4. Completed(m)
  BY <1>3 DEF Wanted, Completed
<1>5. Completed(m)' = Completed(m)
  BY <1>4, CompletedSteps DEF Completed
<1> QED BY <1>1, <1>2, <1>5, SurveyListSame DEF StaysInPlace

\* ... and a list of unanswered ones when answers are deleted.
LEMMA UnanswerGrows ==
  ASSUME TypeOK, query.of = "surveys", query.completed = "no",
         NEW gone, DeleteSurveyResponses(gone), NEW m \in Matching(query)
  PROVE  StaysInPlace(m)
<1>1. query' = query /\ surveys' = surveys
  BY ChangesKeepList DEF DeleteSurveyResponses
<1>2. m \in Stored(surveys)' /\ m \in Stored(surveys)
  BY <1>1, MatchingCases DEF MatchingSurveys, Stored
<1>3. Wanted(query.completed, Completed(m))
  BY <1>1, <1>2, SurveyListSame
<1>4. ~Completed(m)
  BY <1>3 DEF Wanted
<1>5. Completed(m)' = Completed(m)
  BY <1>4, CompletedSteps DEF Completed
<1> QED BY <1>1, <1>2, <1>5, SurveyListSame DEF StaysInPlace

\* A list of responses grows when one is created.
LEMMA CreateResponseGrows ==
  ASSUME TypeOK, query.of = "responses", NEW r \in ResponseIds, CreateSurveyResponse(r),
         NEW m \in Matching(query)
  PROVE  StaysInPlace(m)
<1>1. query' = query
  BY ChangesKeepList DEF CreateSurveyResponse
<1>2. m \in Stored(responses)
  BY MatchingCases
<1>3. m # r /\ m \in ResponseIds
  BY <1>2 DEF CreateSurveyResponse, Stored, TypeOK
<1>4. responses'[m] = responses[m] /\ DOMAIN responses' = DOMAIN responses
  BY <1>3 DEF CreateSurveyResponse, TypeOK
<1>5. m \in Stored(responses)'
  BY <1>2, <1>4 DEF Stored
<1> QED BY <1>1, <1>4, <1>5 DEF StaysInPlace, Matching, Key

\* A list of scores grows, or one moves ahead in it, when a user gains points.
LEMMA GainGrows ==
  ASSUME TypeOK, query.of = "scores", NEW x \in ScoreIds, ChangeScore(x),
         ~Changed("loss"), NEW m \in Matching(query)
  PROVE  StaysAhead(m) /\ (m # x => StaysInPlace(m))
<1>1. PICK score \in Standings :
        /\ scores' = [scores EXCEPT ![x] = score]
        /\ Standing(score) > Standing(scores[x]) /\ Changed("gain")
  BY DEF ChangeScore
<1>2. query' = query
  BY <1>1, ChangesKeepList
<1>3. m \in ScoreIds /\ Standing(scores[m]) # 0
  BY MatchingCases
<1>4. CASE m # x
  <2>1. scores'[m] = scores[m]
    BY <1>1, <1>3, <1>4 DEF TypeOK
  <2>2. Key(query, m)' = Key(query, m)
    BY <1>2, <2>1 DEF Key
  <2>3. m \in Matching(query)'
    BY <1>2, <1>3, <2>1 DEF Matching, Standing
  <2> QED BY <2>2, <2>3 DEF StaysAhead, StaysInPlace
<1>5. CASE m = x
  <2>1. scores'[x] = score
    BY <1>1 DEF TypeOK
  <2>2. scores[x] \in Standings \cup {Unborn}
    BY DEF TypeOK
  <2>3. /\ Standing(score) \in Nat /\ Standing(scores[x]) \in Nat
        /\ Standing(score) # 0 => score.points = Standing(score)
        /\ Standing(scores[x]) # 0 => scores[x].points = Standing(scores[x])
    BY <2>2, StandingIs
  <2>4. Standing(score) # 0
    BY <1>1, <2>3
  <2>5. m \in Matching(query)'
    BY <1>2, <1>5, <2>1, <2>4 DEF Matching, Standing
  <2>6. Key(query, m) = <<0, -Standing(scores[x]), 0>>
    BY <1>3, <1>5, <2>3, KeyCases
  <2>7. Key(query, m)' = <<0, -score.points, 0>>
    BY <1>2, <1>5, <2>1 DEF Key
  <2>8. Key(query, m)' = <<0, -Standing(score), 0>>
    BY <2>3, <2>4, <2>7
  <2>9. -Standing(score) < -Standing(scores[x])
        /\ -Standing(scores[x]) \in Int /\ -Standing(score) \in Int
    BY <1>1, <2>3
  <2>10. <<0, -Standing(scores[x]), 0>> \in Keys /\ <<0, -Standing(score), 0>> \in Keys
    BY <2>9 DEF Keys
  <2>11. Precedes(Key(query, m)', Key(query, m))
    BY <2>6, <2>8, <2>9, <2>10, PrecedesByParts
  <2> QED BY <1>5, <2>5, <2>11 DEF StaysAhead
<1> QED BY <1>4, <1>5

\* So no change that inserts takes anything out of a list, or back in it.
LEMMA InsertionsGrow ==
  ASSUME TypeOK, Change, changes' \subseteq Inserts(query) \cup Neutral(query),
         NEW m \in Matching(query)
  PROVE  /\ StaysAhead(m)
         /\ m \in expected' => StaysInPlace(m)
<1> DEFINE Kept == query.of = "responses" /\ query' = query /\ responses' = responses
           Goal == StaysAhead(m) /\ (m \in expected' => StaysInPlace(m))
<1>0. StaysInPlace(m) => Goal
  BY DEF StaysAhead, StaysInPlace
<1>1. Kept => StaysInPlace(m)
  BY ResponseListSame DEF StaysInPlace
<1> DEFINE Allowed(kind) == kind \in Inserts(query) \cup Neutral(query)
                            /\ (query.of = "scores" <=> kind \in {"gain", "loss"})
<1>2. ASSUME NEW kind, Changed(kind) PROVE Allowed(kind) /\ query' = query
  BY <1>2, ChangesKeepList
<1>3. ASSUME NEW s \in SurveyIds, CreateSurvey(s) PROVE StaysInPlace(m)
  <2>1. Allowed("create") /\ query' = query
    BY <1>2, <1>3 DEF CreateSurvey
  <2>2. query.of \in {"responses", "surveys"}
    BY <2>1, InsertsKinds
  <2> QED BY <1>1, <1>3, <2>1, <2>2, CreateGrows DEF CreateSurvey
<1>4. ASSUME NEW s \in SurveyIds, UpdateSurvey(s) PROVE StaysInPlace(m)
  <2>1. Allowed("update") /\ query' = query
    BY <1>2, <1>4 DEF UpdateSurvey
  <2>2. query.of = "responses"
    BY <2>1, InsertsKinds
  <2> QED BY <1>1, <1>4, <2>1, <2>2 DEF UpdateSurvey
<1>5. ASSUME NEW s \in SurveyIds, DeleteSurvey(s) PROVE StaysInPlace(m)
  <2>1. Allowed("delete") /\ query' = query
    BY <1>2, <1>5 DEF DeleteSurvey
  <2>2. query.of = "responses"
    BY <2>1, InsertsKinds
  <2> QED BY <1>1, <1>5, <2>1, <2>2 DEF DeleteSurvey
<1>6. ASSUME NEW r \in ResponseIds, CreateSurveyResponse(r) PROVE StaysInPlace(m)
  <2>1. Allowed("answer")
    BY <1>2, <1>6 DEF CreateSurveyResponse
  <2>2. query.of = "responses" \/ (query.of = "surveys" /\ query.completed = "yes")
    BY <2>1, InsertsKinds
  <2> QED BY <1>6, <2>2, CreateResponseGrows, AnswerGrows
<1>7. ASSUME NEW gone \in SUBSET Stored(responses), DeleteSurveyResponses(gone)
      PROVE  StaysInPlace(m)
  <2>1. Allowed("unanswer")
    BY <1>2, <1>7 DEF DeleteSurveyResponses
  <2>2. query.of = "surveys" /\ query.completed = "no"
    BY <2>1, InsertsKinds
  <2> QED BY <1>7, <2>2, UnanswerGrows
<1>8. ASSUME NEW x \in ScoreIds, ChangeScore(x) PROVE Goal
  <2>1. ~Changed("loss")
    BY <1>2, InsertsKinds
  <2>2. Changed("gain")
    BY <1>8, <2>1 DEF ChangeScore
  <2>3. query.of = "scores"
    BY <1>2, <2>2, InsertsKinds
  <2>4. m \in expected' => m # x
    BY <1>8 DEF ChangeScore
  <2> QED BY <1>8, <2>1, <2>3, <2>4, GainGrows
<1> QED BY <1>0, <1>3, <1>4, <1>5, <1>6, <1>7, <1>8 DEF Change
-------------------------------------------------------------------------------
(* What a change does to the places of documents.                          *)

\* What matches next and comes before this key.
BelowNext(key) == {m \in Matching(query)' : Precedes(Key(query, m)', key)}

\* What will match is finite too, and has keys.
LEMMA NextTyped ==
  ASSUME TypeOK'
  PROVE  /\ IsFiniteSet(Matching(query)')
         /\ \A m \in Matching(query)' : Key(query, m)' \in Keys
<1>1. (TypeOK => /\ IsFiniteSet(Matching(query))
                 /\ \A m \in Matching(query) : Key(query, m) \in Keys)'
  BY ListTyped, PTL
<1> QED BY <1>1

\* A removal puts nothing before any place in the list.
LEMMA BelowShrinks ==
  ASSUME TypeOK, TypeOK', Change, changes' \subseteq Removes(query) \cup Neutral(query),
         NEW key \in Keys
  PROVE  /\ Cardinality(BelowNext(key)) \in Nat
         /\ Cardinality(BelowNext(key)) <= Cardinality(Below(key))
<1>1. ASSUME NEW m \in BelowNext(key) PROVE m \in Below(key)
  <2>1. m \in Matching(query)' /\ Precedes(Key(query, m)', key)
    BY DEF BelowNext
  <2>2. m \in Matching(query)
        /\ (Key(query, m)' = Key(query, m) \/ Precedes(Key(query, m), Key(query, m)'))
    BY <2>1, RemovalsShrink DEF StaysBehind
  <2>3. Key(query, m) \in Keys /\ Key(query, m)' \in Keys
    BY <2>1, <2>2, KeyType, NextTyped
  <2>4. Precedes(Key(query, m), key)
    BY <2>1, <2>2, <2>3, PrecedesTransitive
  <2> QED BY <2>2, <2>4 DEF Below
<1>2. IsFiniteSet(Below(key))
  BY MatchingFinite, FS_Subset DEF Below
<1> QED BY <1>1, <1>2, FS_Subset, FS_CardinalityType

\* An insertion takes nothing away from before any place in the list.
LEMMA BelowGrows ==
  ASSUME TypeOK, TypeOK', Change, changes' \subseteq Inserts(query) \cup Neutral(query),
         NEW key \in Keys
  PROVE  /\ Cardinality(BelowNext(key)) \in Nat
         /\ Cardinality(BelowNext(key)) >= Cardinality(Below(key))
<1>1. ASSUME NEW m \in Below(key) PROVE m \in BelowNext(key)
  <2>1. m \in Matching(query) /\ Precedes(Key(query, m), key)
    BY DEF Below
  <2>2. m \in Matching(query)'
        /\ (Key(query, m)' = Key(query, m) \/ Precedes(Key(query, m)', Key(query, m)))
    BY <2>1, InsertionsGrow DEF StaysAhead
  <2>3. Key(query, m) \in Keys /\ Key(query, m)' \in Keys
    BY <2>1, <2>2, KeyType, NextTyped
  <2>4. Precedes(Key(query, m)', key)
    BY <2>1, <2>2, <2>3, PrecedesTransitive
  <2> QED BY <2>2, <2>4 DEF BelowNext
<1>2. IsFiniteSet(BelowNext(key))
  BY NextTyped, FS_Subset DEF BelowNext
<1>3. Cardinality(BelowNext(key)) \in Nat /\ Cardinality(Below(key)) \in Nat
      /\ Cardinality(Below(key)) <= Cardinality(BelowNext(key))
  BY <1>1, <1>2, FS_Subset, FS_CardinalityType
<1> QED BY <1>3

\* What has been seen is a sequence of documents and keys.
LEMMA SeenType ==
  ASSUME TypeOK
  PROVE  /\ seen \in Seq(Result) /\ Len(seen) \in Nat /\ DOMAIN seen = 1..Len(seen)
         /\ \A i \in DOMAIN seen : seen[i].key \in Keys
<1>1. seen \in Seq(Result)
  BY DEF TypeOK
<1>2. Len(seen) \in Nat /\ DOMAIN seen = 1..Len(seen) /\ \A i \in DOMAIN seen : seen[i] \in Result
  BY <1>1
<1> QED BY <1>1, <1>2 DEF Result

\* Every change leaves the list itself alone, and there is none once it has been read.
LEMMA ChangeKeepsList ==
  ASSUME Change
  PROVE  /\ ~ended
         /\ query' = query /\ seen' = seen /\ ended' = ended /\ tied' = tied
         /\ changes \subseteq changes' /\ expected' \subseteq expected
<1>1. PICK kind : Changed(kind)
  BY DEF Change, ChangeScore, CreateSurvey, UpdateSurvey, DeleteSurvey,
         CreateSurveyResponse, DeleteSurveyResponses
<1>2. ~ended
  BY <1>1 DEF Changed
<1>3. expected' \subseteq expected
  BY DEF Change, ChangeScore, CreateSurvey, UpdateSurvey, DeleteSurvey,
         CreateSurveyResponse, DeleteSurveyResponses
<1> QED BY <1>1, <1>2, <1>3, ChangesKeepList

\* The kinds of change that a property is about depend on the list alone.
LEMMA KindsSame ==
  ASSUME query' = query
  PROVE  /\ Removes(query)' = Removes(query) /\ Inserts(query)' = Inserts(query)
         /\ Neutral(query)' = Neutral(query)
BY DEF Removes, Inserts, Neutral

\* Changes keep what has been said of the list.
LEMMA ChangeKeepsInv == QueryInv /\ TypeOK' /\ Change => QueryInv'
<1> SUFFICES ASSUME QueryInv, TypeOK', Change PROVE QueryInv'
  OBVIOUS
<1>1. /\ ~ended
      /\ query' = query /\ seen' = seen /\ ended' = ended /\ tied' = tied
      /\ changes \subseteq changes' /\ expected' \subseteq expected
  BY ChangeKeepsList
<1>2. /\ Removes(query)' = Removes(query) /\ Inserts(query)' = Inserts(query)
      /\ Neutral(query)' = Neutral(query)
  BY <1>1, KindsSame
<1>3. TypeOK
  BY DEF QueryInv
<1>4. SeenAreFirst'
  <2> SUFFICES ASSUME changes' \subseteq Removes(query) \cup Neutral(query),
                      NEW i \in DOMAIN seen
               PROVE  Cardinality(BelowNext(seen[i].key)) < i
    BY <1>1, <1>2 DEF SeenAreFirst, Below, BelowNext
  <2>1. Cardinality(Below(seen[i].key)) < i
    BY <1>1 DEF QueryInv, SeenAreFirst
  <2>2. seen[i].key \in Keys /\ i \in Nat
    BY <1>3, SeenType
  <2>3. /\ Cardinality(BelowNext(seen[i].key)) \in Nat
        /\ Cardinality(BelowNext(seen[i].key)) <= Cardinality(Below(seen[i].key))
    BY <1>3, <2>2, BelowShrinks
  <2>4. Cardinality(Below(seen[i].key)) \in Nat
    BY <1>3, MatchingFinite, FS_Subset, FS_CardinalityType DEF Below
  <2> QED BY <2>1, <2>2, <2>3, <2>4
<1>5. UnseenAreToCome'
  <2> SUFFICES ASSUME ~tied, changes' \subseteq Inserts(query) \cup Neutral(query),
                      NEW id \in expected', ~Listed(id)
               PROVE  /\ id \in Matching(query)'
                      /\ Cardinality(BelowNext(Key(query, id)')) >= Len(seen)
    BY <1>1, <1>2 DEF UnseenAreToCome, ToCome, Listed, Below, BelowNext
  <2>1. id \in Matching(query) /\ Cardinality(Below(Key(query, id))) >= Len(seen)
    BY <1>1 DEF QueryInv, UnseenAreToCome, ToCome
  <2>2. id \in Matching(query)' /\ Key(query, id)' = Key(query, id)
    BY <1>3, <2>1, InsertionsGrow DEF StaysInPlace
  <2>3. Key(query, id) \in Keys
    BY <1>3, <2>1, KeyType
  <2>4. /\ Cardinality(BelowNext(Key(query, id))) \in Nat
        /\ Cardinality(BelowNext(Key(query, id))) >= Cardinality(Below(Key(query, id)))
    BY <1>3, <2>3, BelowGrows
  <2>5. Cardinality(Below(Key(query, id))) \in Nat /\ Len(seen) \in Nat
    BY <1>3, SeenType, MatchingFinite, FS_Subset, FS_CardinalityType DEF Below
  <2> QED BY <2>1, <2>2, <2>4, <2>5
<1>6. NothingTwice'
  BY <1>1, <1>2 DEF QueryInv, NothingTwice
<1>7. PagesInOrder'
  BY <1>1, <1>2 DEF QueryInv, PagesInOrder
<1> QED BY <1>4, <1>5, <1>6, <1>7 DEF QueryInv
-------------------------------------------------------------------------------
(* What a page adds.                                                       *)

\* Reading a page changes no documents, and if nothing has been tied then no two
\* documents have the same key.
LEMMA PageKeepsPlaces ==
  ASSUME NextPage
  PROVE  /\ query' = query /\ changes' = changes /\ expected' = expected /\ ~ended
         /\ Matching(query)' = Matching(query)
         /\ \A m : Key(query, m)' = Key(query, m)
         /\ ~tied' => /\ ~tied
                      /\ \A x, y \in Matching(query) : x # y => Key(query, x) # Key(query, y)
<1>1. /\ query' = query /\ changes' = changes /\ expected' = expected /\ ~ended
      /\ surveys' = surveys /\ responses' = responses /\ scores' = scores
  BY DEF NextPage, data
<1>2. Matching(query)' = Matching(query)
  BY <1>1 DEF Matching, MatchingSurveys, Completed, Stored
<1>3. \A m : Key(query, m)' = Key(query, m)
  BY <1>1 DEF Key, SurveyKey, Completed, Stored
<1>4. tied' = (tied \/ \E x, y \in Matching(query) : x # y /\ Key(query, x) = Key(query, y))
  BY DEF NextPage
<1> QED BY <1>1, <1>2, <1>3, <1>4

\* A page keeps what has been said of the list.
LEMMA PageKeepsInv == QueryInv /\ TypeOK' /\ NextPage => QueryInv'
<1> SUFFICES ASSUME QueryInv, TypeOK', NextPage PROVE QueryInv'
  OBVIOUS
<1>1. /\ query' = query /\ changes' = changes /\ expected' = expected /\ ~ended
      /\ Matching(query)' = Matching(query)
      /\ \A m : Key(query, m)' = Key(query, m)
      /\ ~tied' => /\ ~tied
                   /\ \A x, y \in Matching(query) : x # y => Key(query, x) # Key(query, y)
  BY PageKeepsPlaces
<1>2. /\ Removes(query)' = Removes(query) /\ Inserts(query)' = Inserts(query)
      /\ Neutral(query)' = Neutral(query)
  BY <1>1, KindsSame
<1>3. TypeOK
  BY DEF QueryInv
<1>4. PICK p \in Sorted(query) :
        /\ seen' \in Seq(Result) /\ Len(seen') >= Len(seen)
        /\ \A i \in 1..Len(seen) : seen'[i] = seen[i]
        /\ \A i \in (Len(seen) + 1)..Len(seen') :
             i \in 1..Size /\ seen'[i] = [id |-> p[i], key |-> Key(query, p[i])]
        /\ Len(seen') < Size => ended' = FALSE
        /\ ended' \in BOOLEAN
  BY <1>3, NextPageIs
<1>5. /\ Len(seen) \in Nat /\ DOMAIN seen = 1..Len(seen)
      /\ Len(seen') \in Nat /\ DOMAIN seen' = 1..Len(seen')
      /\ \A i \in 1..Len(seen) : seen[i].key \in Keys
  BY <1>3, <1>4, SeenType
<1>6. /\ Size \in Nat
      /\ \A i \in 1..Size : p[i] \in Matching(query) /\ Key(query, p[i]) \in Keys
      /\ \A i, j \in 1..Size : i # j => p[i] # p[j]
      /\ \A m \in Matching(query) : \E i \in 1..Size : p[i] = m
      /\ \A j \in 1..Size : \A i \in 1..(j - 1) : ~Precedes(Key(query, p[j]), Key(query, p[i]))
  BY <1>3, SortedIs, KeyType
<1>7. ASSUME NEW i \in 1..Len(seen')
      PROVE  \/ i \in 1..Len(seen) /\ seen'[i] = seen[i]
             \/ /\ i \in 1..Size /\ i > Len(seen)
                /\ seen'[i].id = p[i] /\ seen'[i].key = Key(query, p[i])
  <2>1. CASE i \in 1..Len(seen)
    BY <1>4, <2>1
  <2>2. CASE i \notin 1..Len(seen)
    <3>1. i \in (Len(seen) + 1)..Len(seen') /\ i > Len(seen)
      BY <1>5, <2>2
    <3>2. i \in 1..Size /\ seen'[i] = [id |-> p[i], key |-> Key(query, p[i])]
      BY <1>4, <3>1
    <3> QED BY <3>1, <3>2
  <2> QED BY <2>1, <2>2
<1>8. SeenAreFirst'
  <2> SUFFICES ASSUME changes \subseteq Removes(query) \cup Neutral(query),
                      NEW i \in 1..Len(seen')
               PROVE  Cardinality(Below(seen'[i].key)) < i
    BY <1>1, <1>2, <1>5 DEF SeenAreFirst, Below
  <2>1. CASE i \in 1..Len(seen) /\ seen'[i] = seen[i]
    BY <1>5, <2>1 DEF QueryInv, SeenAreFirst
  <2>2. CASE i \in 1..Size /\ seen'[i].key = Key(query, p[i])
    BY <1>3, <2>2, BelowAtMost
  <2> QED BY <1>7, <2>1, <2>2
<1>9. ASSUME ~tied', NEW j \in 1..Size
      PROVE  Cardinality(Below(Key(query, p[j]))) >= j - 1
  <2>1. ASSUME NEW i \in 1..(j - 1) PROVE Precedes(Key(query, p[i]), Key(query, p[j]))
    <3>1. i \in 1..Size /\ i # j
      BY <1>6
    <3>2. Key(query, p[i]) # Key(query, p[j])
      BY <1>1, <1>6, <1>9, <3>1
    <3>3. ~Precedes(Key(query, p[j]), Key(query, p[i]))
      BY <1>6
    <3> QED BY <1>6, <3>1, <3>2, <3>3, PrecedesTotal
  <2>2. j - 1 \in 0..Size
    BY <1>6
  <2> QED BY <1>3, <2>1, <2>2, BelowAtLeast
<1>10. UnseenAreToCome'
  <2> SUFFICES ASSUME ~tied', changes \subseteq Inserts(query) \cup Neutral(query),
                      NEW id \in expected, \A i \in 1..Len(seen') : seen'[i].id # id
               PROVE  /\ ended' = FALSE /\ id \in Matching(query)
                      /\ Cardinality(Below(Key(query, id))) >= Len(seen')
    BY <1>1, <1>2, <1>5 DEF UnseenAreToCome, ToCome, Listed, Below
  <2>1. ~Listed(id)
    BY <1>4, <1>5 DEF Listed
  <2>2. id \in Matching(query) /\ Cardinality(Below(Key(query, id))) >= Len(seen)
    BY <1>1, <2>1 DEF QueryInv, UnseenAreToCome, ToCome
  <2>3. PICK i \in 1..Size : p[i] = id
    BY <1>6, <2>2
  <2>4. Cardinality(Below(Key(query, id))) < i
    BY <1>3, <2>3, BelowAtMost
  <2>5. Cardinality(Below(Key(query, id))) \in Nat
    BY <1>3, MatchingFinite, FS_Subset, FS_CardinalityType DEF Below
  <2>6. i > Len(seen)
    BY <1>5, <2>2, <2>4, <2>5
  <2>7. i > Len(seen')
    <3>1. ASSUME i \in (Len(seen) + 1)..Len(seen') PROVE FALSE
      <4>1. i \in 1..Len(seen')
        BY <1>5, <3>1
      <4>2. seen'[i] = [id |-> p[i], key |-> Key(query, p[i])]
        BY <1>4, <3>1
      <4>3. seen'[i].id = id
        BY <2>3, <4>2
      <4> QED BY <4>1, <4>3
    <3>2. i \in Nat /\ ~(i \in (Len(seen) + 1)..Len(seen'))
      BY <1>6, <3>1
    <3> QED BY <1>5, <2>6, <3>2
  <2>8. Cardinality(Below(Key(query, id))) >= i - 1
    BY <1>9, <2>3
  <2> QED BY <1>4, <1>5, <1>6, <2>2, <2>5, <2>7, <2>8
<1>11. NothingTwice'
  <2>1. ASSUME ~tied', changes \subseteq Removes(query) \cup Neutral(query),
               NEW i \in 1..Len(seen'), NEW j \in 1..Len(seen'), i < j,
               seen'[i].id = seen'[j].id, seen'[i].key = seen'[j].key
        PROVE  FALSE
    <3>1. CASE j \in 1..Len(seen)
      <4>1. i \in 1..Len(seen) /\ seen'[i] = seen[i] /\ seen'[j] = seen[j] /\ i # j
        BY <1>4, <1>5, <2>1, <3>1
      <4> QED BY <1>1, <1>5, <2>1, <3>1, <4>1 DEF QueryInv, NothingTwice
    <3>2. CASE j \notin 1..Len(seen)
      <4>1. j \in 1..Size /\ j > Len(seen) /\ seen'[j].id = p[j] /\ seen'[j].key = Key(query, p[j])
        BY <1>7, <3>2
      <4>2. CASE i \in 1..Len(seen) /\ seen'[i] = seen[i]
        <5>1. Cardinality(Below(Key(query, p[j]))) < i
          BY <1>5, <2>1, <4>1, <4>2 DEF QueryInv, SeenAreFirst
        <5>2. Cardinality(Below(Key(query, p[j]))) >= j - 1
          BY <1>9, <2>1, <4>1
        <5>3. Cardinality(Below(Key(query, p[j]))) \in Nat
          BY <1>3, MatchingFinite, FS_Subset, FS_CardinalityType DEF Below
        <5> QED BY <1>5, <2>1, <4>1, <4>2, <5>1, <5>2, <5>3
      <4>3. CASE i \in 1..Size /\ seen'[i].id = p[i]
        <5>1. i # j
          BY <1>5, <2>1
        <5> QED BY <1>6, <2>1, <4>1, <4>3, <5>1
      <4> QED BY <1>7, <4>2, <4>3
    <3> QED BY <3>1, <3>2
  <2>2. ASSUME NEW i \in 1..Len(seen'), NEW j \in 1..Len(seen'), i # j
        PROVE  i < j \/ j < i
    BY <1>5, <2>2
  <2> QED BY <1>1, <1>2, <1>5, <2>1, <2>2 DEF NothingTwice
<1>12. PagesInOrder'
  <2>1. ASSUME changes \subseteq Removes(query) \cup Neutral(query),
               NEW i \in 1..Len(seen'), NEW j \in 1..Len(seen'), i < j,
               Precedes(seen'[j].key, seen'[i].key)
        PROVE  FALSE
    <3>1. CASE j \in 1..Len(seen)
      <4>1. i \in 1..Len(seen) /\ seen'[i] = seen[i] /\ seen'[j] = seen[j]
        BY <1>4, <1>5, <2>1, <3>1
      <4> QED BY <1>5, <2>1, <3>1, <4>1 DEF QueryInv, PagesInOrder
    <3>2. CASE j \notin 1..Len(seen)
      <4>1. j \in 1..Size /\ j > Len(seen) /\ seen'[j].key = Key(query, p[j])
        BY <1>7, <3>2
      <4>2. CASE i \in 1..Len(seen) /\ seen'[i] = seen[i]
        <5> DEFINE key == seen[i].key
        <5>1. key \in Keys /\ Precedes(Key(query, p[j]), key)
          BY <1>5, <2>1, <4>1, <4>2
        <5> HIDE DEF key
        <5>2. ASSUME NEW k \in 1..j PROVE Precedes(Key(query, p[k]), key)
          <6>1. CASE k = j
            BY <5>1, <6>1
          <6>2. CASE k # j
            <7>1. k \in 1..(j - 1) /\ k \in 1..Size
              BY <1>6, <4>1, <6>2
            <7>2. ~Precedes(Key(query, p[j]), Key(query, p[k]))
              BY <1>6, <4>1, <7>1
            <7> QED BY <1>6, <4>1, <5>1, <7>1, <7>2, PrecedesTransitive
          <6> QED BY <6>1, <6>2
        <5>3. j \in 0..Size
          BY <1>6, <4>1
        <5>4. Cardinality(Below(key)) >= j
          BY <1>3, <5>2, <5>3, BelowAtLeast
        <5>5. Cardinality(Below(key)) < i
          BY <1>5, <2>1, <4>2 DEF QueryInv, SeenAreFirst, key
        <5>6. Cardinality(Below(key)) \in Nat
          BY <1>3, MatchingFinite, FS_Subset, FS_CardinalityType DEF Below
        <5> QED BY <1>5, <2>1, <5>4, <5>5, <5>6
      <4>3. CASE i \in 1..Size /\ seen'[i].key = Key(query, p[i])
        <5>1. i \in 1..(j - 1)
          BY <1>5, <2>1
        <5> QED BY <1>6, <2>1, <4>1, <4>3, <5>1
      <4> QED BY <1>7, <4>2, <4>3
    <3> QED BY <3>1, <3>2
  <2> QED BY <1>1, <1>2, <1>5, <2>1 DEF PagesInOrder
<1> QED BY <1>8, <1>10, <1>11, <1>12 DEF QueryInv
-------------------------------------------------------------------------------
(* The theorems.                                                           *)

\* When the client starts, all it expects is still to come.
LEMMA QueryInit == Init => QueryInv
<1> SUFFICES ASSUME Init PROVE QueryInv
  OBVIOUS
<1>1. TypeOK
  <2>1. now \in Age..LastTime /\ query \in Queries /\ seen \in Seq(Result)
        /\ ended \in BOOLEAN /\ tied \in BOOLEAN /\ changes = {}
    <3>1. /\ query \in Queries /\ now = Age /\ seen = <<>> /\ ended = FALSE /\ tied = FALSE
          /\ changes = {}
      BY DEF Init
    <3>2. Age \in Age..LastTime
      BY QueryAssumption
    <3>3. <<>> \in Seq(Result)
      OBVIOUS
    <3>4. FALSE \in BOOLEAN
      OBVIOUS
    <3> QED BY <3>1, <3>2, <3>3, <3>4
  <2>2. scores \in [ScoreIds -> Standings \cup {Unborn}]
    BY DEF Init
  <2>3. surveys \in [SurveyIds -> Survey \cup {Unborn, Gone}]
    BY QueryAssumption DEF Init, Survey
  <2>4. responses \in [ResponseIds -> Response \cup {Unborn, Gone}]
    <3>1. Stored(surveys) \subseteq SurveyIds
      BY <2>3 DEF Stored
    <3>2. [survey : Stored(surveys), created : 1..Age] \subseteq Response
      BY <3>1, QueryAssumption DEF Response
    <3> QED BY <3>2 DEF Init
  <2>5. expected \subseteq Ids
    <3>1. expected = Matching(query) /\ query \in Queries
      BY DEF Init
    <3>2. query.of \in {"surveys", "responses", "scores"}
      BY <3>1, QueryAssumption
         DEF Query, ClientQuery, AdminQuery, ResponseQuery, ScoreQuery,
             SurveyQueryOf, UnfilteredQueryOf
    <3> QED BY <2>3, <2>4, <3>1, <3>2, MatchingCases DEF MatchingSurveys, Stored, Ids
  <2> QED BY <2>1, <2>2, <2>3, <2>4, <2>5 DEF TypeOK
<1>2. seen = <<>> /\ DOMAIN seen = {} /\ Len(seen) = 0 /\ ended = FALSE /\ expected = Matching(query)
  BY DEF Init
<1>3. \A key : Cardinality(Below(key)) \in Nat
  BY <1>1, MatchingFinite, FS_Subset, FS_CardinalityType DEF Below
<1>4. UnseenAreToCome
  BY <1>2, <1>3 DEF UnseenAreToCome, ToCome
<1> QED BY <1>1, <1>2, <1>4 DEF QueryInv, SeenAreFirst, NothingTwice, PagesInOrder

\* What is said of the list always holds.
LEMMA QueryInvariant == Spec => []QueryInv
<1>1. QueryInv /\ [Next]_vars => QueryInv'
  <2> SUFFICES ASSUME QueryInv, [Next]_vars PROVE QueryInv'
    OBVIOUS
  <2>1. TypeOK'
    BY TypeStep DEF QueryInv
  <2>2. CASE NextPage
    BY <2>1, <2>2, PageKeepsInv
  <2>3. CASE Change
    BY <2>1, <2>3, ChangeKeepsInv
  <2>4. CASE UNCHANGED vars
    <3>1. /\ query' = query /\ changes' = changes /\ expected' = expected
          /\ surveys' = surveys /\ responses' = responses /\ scores' = scores
          /\ seen' = seen /\ ended' = ended /\ tied' = tied
      BY <2>4 DEF vars, data, list
    <3>2. Matching(query)' = Matching(query)
      BY <3>1 DEF Matching, MatchingSurveys, Completed, Stored
    <3>3. \A m : Key(query, m)' = Key(query, m)
      BY <3>1 DEF Key, SurveyKey, Completed, Stored
    <3>4. /\ Removes(query)' = Removes(query) /\ Inserts(query)' = Inserts(query)
          /\ Neutral(query)' = Neutral(query)
      BY <3>1, KindsSame
    <3> QED BY <2>1, <3>1, <3>2, <3>3, <3>4
            DEF QueryInv, SeenAreFirst, UnseenAreToCome, ToCome, Listed, Below,
                NothingTwice, PagesInOrder
  <2> QED BY <2>2, <2>3, <2>4 DEF Next, Change
<1> QED BY <1>1, QueryInit, PTL DEF Spec

\* The documents, the list and the changes are what the queries take them for.
THEOREM QueryTypeCorrect == Spec => []TypeOK
<1>1. QueryInv => TypeOK
  BY DEF QueryInv
<1> QED BY <1>1, QueryInvariant, PTL

\* However many documents are stored between the pages, a client that has read all of
\* them has got every document that matched when it began, unless the sort of a page
\* does not tell two documents apart: what it has yet to get stays behind its offset.
THEOREM PagesMissNothing == Spec => []NothingMissed
<1>1. QueryInv => NothingMissed
  BY DEF QueryInv, UnseenAreToCome, ToCome, NothingMissed
<1> QED BY <1>1, QueryInvariant, PTL

\* While documents only leave the list, or go back in it, no two pages show the same
\* document in the same place, unless the sort does not tell two documents apart.
THEOREM PagesShowOnce == Spec => []NothingTwice
<1>1. QueryInv => NothingTwice
  BY DEF QueryInv
<1> QED BY <1>1, QueryInvariant, PTL

\* Meanwhile all pages together are in the order of the list, ties or no ties.
THEOREM PagesKeepOrder == Spec => []PagesInOrder
<1>1. QueryInv => PagesInOrder
  BY DEF QueryInv
<1> QED BY <1>1, QueryInvariant, PTL
===============================================================================
