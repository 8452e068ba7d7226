------------------------ MODULE UpstreamRequestProofs ------------------------
(***************************************************************************)
(* TokensExact and AccountRight, for any number of requests, any limit and *)
(* any number of retries.                                                  *)
(*                                                                         *)
(* A request's reports and its status chain run behind its attempts: an    *)
(* attempt is reported when it is retried, answered or handled as an       *)
(* error.  Accounted states, for every pc, what the lists hold once the    *)
(* last attempt is added; Good adds how far the request has come.          *)
(***************************************************************************)
EXTENDS UpstreamRequest, FiniteSetTheorems, TLAPS

-----------------------------------------------------------------------------
(* Lists of chosen elements.                                               *)

\* A list grows with the sequence when the new element is chosen.
LEMMA SelectsGrow ==
    ASSUME NEW S, NEW out \in Seq(S), NEW seq \in Seq(S), NEW x \in S,
           NEW chosen \in SUBSET DOMAIN seq, Selects(out, seq, chosen)
    PROVE  Selects(Append(out, x), Append(seq, x), chosen \cup {Len(seq) + 1})
<1> DEFINE n == Len(seq) + 1
           more == chosen \cup {n}
<1>1. /\ Len(seq) \in Nat /\ DOMAIN seq = 1 .. Len(seq)
      /\ chosen \subseteq Nat /\ n \in Nat /\ n \notin chosen
  OBVIOUS
<1>2. IsFiniteSet(chosen) /\ Cardinality(chosen) \in Nat
  <2>1. IsFiniteSet(1 .. Len(seq))
    BY <1>1, FS_Interval
  <2> QED BY <1>1, <2>1, FS_Subset, FS_CardinalityType
<1>3. Cardinality(more) = Cardinality(chosen) + 1
  BY <1>1, <1>2, FS_AddElement, Zenon
<1>4. ASSUME NEW i \in more
      PROVE  Append(out, x)[Cardinality({j \in more : j <= i})] = Append(seq, x)[i]
  <2>1. CASE i = n
    <3>1. {j \in more : j <= i} = more
      BY <1>1, <2>1
    <3>2. Append(seq, x)[n] = x /\ Append(out, x)[Len(out) + 1] = x
      OBVIOUS
    <3> QED BY <1>3, <2>1, <3>1, <3>2, Zenon DEF Selects
  <2>2. CASE i \in chosen
    <3> DEFINE upto == {j \in chosen : j <= i}
    <3>1. {j \in more : j <= i} = upto
      BY <1>1, <2>2
    <3>2. Cardinality(upto) \in 1 .. Len(out)
      <4>1. IsFiniteSet(upto) /\ Cardinality(upto) <= Cardinality(chosen) /\ Cardinality(upto) \in Nat
        BY <1>2, FS_Subset, FS_CardinalityType
      <4>2. upto # {}
        BY <1>1, <2>2
      <4>3. Cardinality(upto) # 0
        BY <4>1, <4>2, FS_EmptySet, Zenon
      <4> QED BY <4>1, <4>3 DEF Selects
    <3>3. Append(seq, x)[i] = seq[i]
      BY <1>1, <2>2
    <3>4. out[Cardinality(upto)] = seq[i]
      BY <2>2 DEF Selects
    <3>5. Append(out, x)[Cardinality(upto)] = out[Cardinality(upto)]
      BY <3>2
    <3> QED BY <3>1, <3>3, <3>4, <3>5, Zenon
  <2> QED BY <2>1, <2>2, Zenon
<1>5. Len(Append(out, x)) = Cardinality(more)
  BY <1>3 DEF Selects
<1> QED BY <1>4, <1>5, Zenon DEF Selects

\* It stays as it is when the new element is not chosen.
LEMMA SelectsSkip ==
    ASSUME NEW S, NEW out, NEW seq \in Seq(S), NEW x \in S,
           NEW chosen \in SUBSET DOMAIN seq, Selects(out, seq, chosen)
    PROVE  Selects(out, Append(seq, x), chosen)
<1>1. \A i \in chosen : Append(seq, x)[i] = seq[i]
  OBVIOUS
<1> QED BY <1>1 DEF Selects

\* Nothing is chosen of the empty sequence.
LEMMA SelectsNone == Selects(<<>>, <<>>, {})
BY FS_EmptySet DEF Selects

-----------------------------------------------------------------------------
(* One request.                                                            *)

PCs == {"director", "admit", "attempt", "retry", "failed", "response",
        "modify", "error", "body", "drained", "done", "panic"}
Observation == {"failed", "success"}
StatusCode == {0, 200, 413, 499, 500, 502, 503, 504}
LastOutcome == Outcomes \cup {"none", "overloaded"}
Target == Targets \cup {"none"}
Result == [target : Target, outcome : Outcomes]
Row ==
    [pc : PCs, replayable : BOOLEAN, gone : BOOLEAN, target : Target,
     directorError : BOOLEAN, attempts : Seq(Result), left : 0 .. Retries,
     outcome : LastOutcome, chain : Seq(Outcomes),
     reports : Seq(Result), observed : Seq(Observation), released : BOOLEAN,
     code : StatusCode]

\* The last attempt has ended and is not dealt with yet.
Ended(q) == q.pc \in {"retry", "failed", "response", "modify"} \/ (q.pc = "error" /\ q.outcome # "overloaded")

LastResult(q) == [target |-> q.target, outcome |-> q.outcome]
Tells(q) == q.outcome \in Answers \cup Broken /\ q.target # "none"

\* What the reports and the status chain hold once the last attempt is added.
Accounted(q) ==
    /\ Selects(IF Ended(q) /\ Tells(q) THEN Append(q.reports, LastResult(q)) ELSE q.reports,
               q.attempts, Told(q))
    /\ Selects(IF q.pc \in {"response", "modify"} THEN Append(q.chain, q.outcome) ELSE q.chain,
               OutcomesOf(q), Made(q))

\* The retries a request has, and those it has used.
Allowed(q) == IF q.replayable THEN Retries ELSE 0
Bounded(q) ==
    IF q.pc \in {"director", "admit", "attempt"} THEN Len(q.attempts) + q.left <= Allowed(q)
    ELSE Len(q.attempts) + q.left <= 1 + Allowed(q)

\* How far the request has come.
Placed(q) ==
    /\ q.pc \in {"director", "admit"} => q.attempts = <<>>
    /\ q.pc = "director" => ~q.directorError /\ q.target = "none"
    /\ q.pc # "director" => (q.directorError <=> q.target = "none")
    /\ Ended(q) \/ q.pc \in {"body", "drained"} =>
         /\ q.attempts # <<>> /\ q.attempts[Len(q.attempts)] = LastResult(q)
         /\ q.directorError => q.outcome = "protocol"
    /\ q.directorError => Targets = {}
    /\ q.pc = "retry" => q.left > 0
    /\ q.pc = "panic" => Targets = {} /\ Retries # 0
    /\ q.pc = "error" /\ q.outcome = "overloaded" => q.attempts = <<>>
    /\ q.pc \in {"response", "modify", "body", "drained"} => q.outcome \in Answers
    /\ q.pc \in {"retry", "failed", "error"} => q.outcome \notin Answers \cup {"none"}
    /\ q.pc \in {"body", "drained"} => q.code = 200
    /\ q.pc \in {"director", "admit"} \/ Holds(q) => ~q.released
    /\ q.pc = "drained" => q.released

\* The answer of a finished request, as AnswerIsLast has it.
Answered(q) ==
    LET a == q.attempts
        last == IF a = <<>> THEN "none" ELSE a[Len(a)].outcome
    IN  /\ q.code = 200 <=> last \in Answers
        /\ q.code = 503 <=> a = <<>>
        /\ q.code = 499 => last \in {"canceled", "protocol"}
        /\ last \in {"canceled", "tooLarge"} => q.code \in {499, 413}

Good(q) ==
    /\ q \in Row
    /\ q.pc # "panic" => Accounted(q)
    /\ Bounded(q) /\ Placed(q)
    /\ q.pc = "done" => Answered(q)

-----------------------------------------------------------------------------
(* The steps of a request keep it good.                                    *)

LEMMA FreshGood == ASSUME NEW b \in BOOLEAN PROVE Good(Fresh(b)) /\ ~Holds(Fresh(b))
<1> DEFINE q == Fresh(b)
<1>1. q \in Row
  BY RequestConfig DEF Fresh, Row, PCs, Target, LastOutcome, StatusCode
<1>2. Told(q) = {} /\ Made(q) = {} /\ OutcomesOf(q) = <<>>
  BY DEF Fresh, Told, Made, OutcomesOf
<1>3. Accounted(q)
  BY <1>2, SelectsNone, Zenon DEF Fresh, Accounted, Ended
<1>4. Bounded(q) /\ Placed(q) /\ ~Holds(q)
  BY RequestConfig DEF Fresh, Bounded, Placed, Ended, Holds, Allowed
<1> QED BY <1>1, <1>3, <1>4 DEF Good, Fresh

\* A step of r changes r alone.
LEMMA SetRow ==
    ASSUME NEW r \in Requests, rq \in [Requests -> Row], NEW q \in Row, Set(r, q)
    PROVE  rq' \in [Requests -> Row] /\ rq'[r] = q /\ \A s \in Requests \ {r} : rq'[s] = rq[s]
BY DEF Set

LEMMA DirectorGood ==
    ASSUME NEW q, Good(q), q.pc = "director", NEW t \in Targets
    PROVE  Good([q EXCEPT !.pc = "admit", !.left = Allowed(q), !.target = t])
<1> DEFINE p == [q EXCEPT !.pc = "admit", !.left = Allowed(q), !.target = t]
<1>0. q \in Row /\ Allowed(q) \in 0 .. Retries /\ "admit" \in PCs /\ t \in Target
  BY RequestConfig DEF Good, Row, Allowed, PCs, Target
<1>1. p \in Row
  BY <1>0, Zenon DEF Row
<1>2. /\ p.pc = "admit" /\ p.left = Allowed(q) /\ p.target = t /\ Allowed(p) = Allowed(q)
      /\ p.attempts = q.attempts /\ p.chain = q.chain /\ p.reports = q.reports
      /\ p.directorError = q.directorError
  BY <1>1 DEF Row, Allowed
<1>3. Accounted(p)
  BY <1>2 DEF Good, Accounted, Ended, Told, Made, OutcomesOf
<1>4. Bounded(p) /\ Placed(p)
  BY <1>1, <1>2, RequestConfig DEF Good, Bounded, Placed, Ended, Holds, Allowed, Row
<1> QED BY <1>1, <1>2, <1>3, <1>4 DEF Good

LEMMA AdmitGood ==
    ASSUME NEW q, Good(q), q.pc = "admit"
    PROVE  Good([q EXCEPT !.pc = "attempt"]) /\ ~q.released
<1> DEFINE p == [q EXCEPT !.pc = "attempt"]
<1>0. q \in Row /\ "attempt" \in PCs
  BY DEF Good, PCs
<1>1. p \in Row
  BY <1>0, Zenon DEF Row
<1>2. /\ p.pc = "attempt" /\ p.left = q.left /\ p.target = q.target /\ Allowed(p) = Allowed(q)
      /\ p.attempts = q.attempts /\ p.chain = q.chain /\ p.reports = q.reports
      /\ p.directorError = q.directorError /\ p.released = q.released
  BY <1>0 DEF Row, Allowed
<1>3. Accounted(p)
  BY <1>2 DEF Good, Accounted, Ended, Told, Made, OutcomesOf
<1>4. Bounded(p) /\ Placed(p) /\ ~q.released
  BY <1>1, <1>2, RequestConfig DEF Good, Bounded, Placed, Ended, Holds
<1> QED BY <1>1, <1>2, <1>3, <1>4 DEF Good

LEMMA OverloadedGood ==
    ASSUME NEW q, Good(q), q.pc = "admit"
    PROVE  Good([q EXCEPT !.pc = "error", !.outcome = "overloaded"])
<1> DEFINE p == [q EXCEPT !.pc = "error", !.outcome = "overloaded"]
<1>0. q \in Row /\ "error" \in PCs /\ "overloaded" \in LastOutcome
  BY DEF Good, PCs, LastOutcome
<1>1. p \in Row
  BY <1>0, Zenon DEF Row
<1>2. /\ p.pc = "error" /\ p.outcome = "overloaded" /\ p.left = q.left /\ p.target = q.target
      /\ p.attempts = q.attempts /\ p.chain = q.chain /\ p.reports = q.reports
      /\ p.directorError = q.directorError /\ Allowed(p) = Allowed(q)
  BY <1>0 DEF Row, Allowed
<1>3. Accounted(p)
  BY <1>2 DEF Good, Accounted, Ended, Told, Made, OutcomesOf
<1>4. Bounded(p)
  BY <1>0, <1>2, RequestConfig DEF Good, Bounded, Row, Allowed
<1>5. Placed(p)
  BY <1>2 DEF Good, Placed, Ended, Holds, Answers
<1> QED BY <1>1, <1>2, <1>3, <1>4, <1>5 DEF Good

\* An attempt is added to what the lists owe, its answer to the chain later.
LEMMA AttemptGood ==
    ASSUME NEW q, Good(q), q.pc = "attempt", NEW o \in Possible(q)
    PROVE  Good([q EXCEPT !.pc = IF o \in Answers THEN "response"
                                 ELSE IF q.left > 0 THEN "retry" ELSE "failed",
                          !.outcome = o,
                          !.attempts = Append(@, [target |-> q.target, outcome |-> o]),
                          !.chain = Chained(q, o)])
<1> DEFINE next == IF o \in Answers THEN "response" ELSE IF q.left > 0 THEN "retry" ELSE "failed"
           result == [target |-> q.target, outcome |-> o]
           p == [q EXCEPT !.pc = next, !.outcome = o, !.attempts = Append(@, result),
                          !.chain = Chained(q, o)]
           n == Len(q.attempts) + 1
<1>0. q \in Row
  BY DEF Good
<1>1. o \in Outcomes /\ next \in PCs
  BY DEF Possible, Outcomes, Answers, Broken, PCs
<1>2. result \in Result /\ Chained(q, o) \in Seq(Outcomes) /\ o \in LastOutcome
  BY <1>0, <1>1 DEF Row, Result, Chained, LastOutcome
<1>3. p \in Row
  <2>1. Append(q.attempts, result) \in Seq(Result)
    BY <1>0, <1>2 DEF Row
  <2> HIDE DEF next, result
  <2> QED BY <1>0, <1>1, <1>2, <2>1, Zenon DEF Row
<1>4. /\ p.pc = next /\ p.outcome = o /\ p.attempts = Append(q.attempts, result)
      /\ p.chain = Chained(q, o) /\ p.reports = q.reports /\ p.left = q.left /\ p.target = q.target
      /\ p.directorError = q.directorError /\ p.released = q.released /\ Allowed(p) = Allowed(q)
  BY <1>0 DEF Row, Allowed
<1>5. /\ q.attempts \in Seq(Result) /\ q.reports \in Seq(Result) /\ q.chain \in Seq(Outcomes)
      /\ Len(q.attempts) \in Nat /\ q.left \in Nat
  BY <1>0 DEF Row
<1>6. /\ DOMAIN p.attempts = 1 .. n /\ DOMAIN q.attempts = 1 .. Len(q.attempts)
      /\ p.attempts[n] = result /\ Len(p.attempts) = n
      /\ \A i \in DOMAIN q.attempts : p.attempts[i] = q.attempts[i]
  BY <1>2, <1>4, <1>5
<1>7. Ended(p) /\ LastResult(p) = result
  BY <1>4 DEF Ended, LastResult
<1>8. Selects(q.reports, q.attempts, Told(q)) /\ Selects(q.chain, OutcomesOf(q), Made(q))
  BY DEF Good, Accounted, Ended
<1>9. Selects(IF Tells(p) THEN Append(p.reports, result) ELSE p.reports, p.attempts, Told(p))
  <2>1. Told(q) \in SUBSET DOMAIN q.attempts
    BY DEF Told
  <2>2. CASE Tells(p)
    <3>1. Told(p) = Told(q) \cup {n}
      BY <1>4, <1>5, <1>6, <2>2 DEF Told, Tells
    <3>2. Selects(Append(q.reports, result), Append(q.attempts, result), Told(q) \cup {n})
      <4> HIDE DEF result
      <4> QED BY <1>2, <1>5, <1>8, <2>1, SelectsGrow, Zenon
    <3> QED BY <1>4, <2>2, <3>1, <3>2, Zenon
  <2>3. CASE ~Tells(p)
    <3>1. Told(p) = Told(q)
      BY <1>4, <1>5, <1>6, <2>3 DEF Told, Tells
    <3> QED BY <1>2, <1>4, <1>5, <1>8, <2>1, <2>3, <3>1, SelectsSkip
  <2> QED BY <2>2, <2>3
<1>10. Selects(IF p.pc \in {"response", "modify"} THEN Append(p.chain, p.outcome) ELSE p.chain,
               OutcomesOf(p), Made(p))
  <2>1. Made(q) \in SUBSET DOMAIN OutcomesOf(q) /\ OutcomesOf(q) \in Seq(Outcomes)
    <3>1. \A i \in DOMAIN q.attempts : q.attempts[i] \in Result
      BY <1>5
    <3>2. \A i \in DOMAIN q.attempts : q.attempts[i].outcome \in Outcomes
      BY <3>1 DEF Result
    <3> QED BY <1>5, <1>6, <3>2 DEF Made, OutcomesOf
  <2>2. OutcomesOf(p) = Append(OutcomesOf(q), o) /\ Len(OutcomesOf(q)) + 1 = n
    BY <1>1, <1>5, <1>6 DEF OutcomesOf, Result
  <2>3. CASE o # "canceled"
    <3>1. Made(p) = Made(q) \cup {n}
      BY <1>5, <1>6, <2>3 DEF Made
    <3>2. (IF p.pc \in {"response", "modify"} THEN Append(p.chain, p.outcome) ELSE p.chain)
            = Append(q.chain, o)
      BY <1>1, <1>4, <2>3 DEF Chained, Outcomes, Answers, Broken
    <3>3. Selects(Append(q.chain, o), Append(OutcomesOf(q), o), Made(q) \cup {Len(OutcomesOf(q)) + 1})
      BY <1>1, <1>5, <1>8, <2>1, SelectsGrow
    <3> QED BY <2>2, <3>1, <3>2, <3>3, Zenon
  <2>4. CASE o = "canceled"
    <3>1. Made(p) = Made(q)
      BY <1>5, <1>6, <2>4 DEF Made
    <3>2. (IF p.pc \in {"response", "modify"} THEN Append(p.chain, p.outcome) ELSE p.chain) = q.chain
      BY <1>4, <2>4 DEF Chained, Answers, Broken
    <3>3. Selects(q.chain, Append(OutcomesOf(q), o), Made(q))
      BY <1>1, <1>8, <2>1, SelectsSkip
    <3> QED BY <2>2, <3>1, <3>2, <3>3, Zenon
  <2> QED BY <2>3, <2>4
<1>11. Accounted(p)
  BY <1>4, <1>7, <1>9, <1>10 DEF Accounted
<1>12. Bounded(p)
  <2>1. Len(q.attempts) + q.left <= Allowed(q) /\ Allowed(q) \in Nat
    BY RequestConfig DEF Good, Bounded, Allowed
  <2>2. p.pc \notin {"director", "admit", "attempt"}
    BY <1>4
  <2> HIDE DEF p, next, result
  <2> QED BY <1>4, <1>5, <1>6, <2>1, <2>2 DEF Bounded
<1>13. Placed(p)
  <2>1. q.directorError => o = "protocol"
    BY DEF Possible
  <2>2. o # "none" /\ o # "overloaded"
    BY <1>1 DEF Outcomes, Answers, Broken
  <2>3. p.attempts # <<>>
    <3> HIDE DEF p, result
    <3> QED BY <1>5, <1>6
  <2>4. p.pc = "retry" => p.left > 0
    BY <1>4
  <2>5. (q.directorError <=> q.target = "none") /\ (q.directorError => Targets = {}) /\ ~q.released
    BY DEF Good, Placed, Holds
  <2> QED BY <1>4, <1>6, <1>7, <2>1, <2>2, <2>3, <2>4, <2>5 DEF Placed, Ended, Holds
<1> QED BY <1>3, <1>4, <1>11, <1>12, <1>13 DEF Good

LEMMA DirectorErrorGood ==
    ASSUME NEW q, Good(q), q.pc = "director", Targets = {}
    PROVE  Good([q EXCEPT !.pc = "admit", !.left = Allowed(q), !.directorError = TRUE])
<1> DEFINE p == [q EXCEPT !.pc = "admit", !.left = Allowed(q), !.directorError = TRUE]
<1>0. q \in Row /\ Allowed(q) \in 0 .. Retries /\ "admit" \in PCs
  BY RequestConfig DEF Good, Row, Allowed, PCs
<1>1. p \in Row
  BY <1>0, Zenon DEF Row
<1>2. /\ p.pc = "admit" /\ p.left = Allowed(q) /\ p.target = q.target /\ Allowed(p) = Allowed(q)
      /\ p.attempts = q.attempts /\ p.chain = q.chain /\ p.reports = q.reports
      /\ p.directorError = TRUE /\ p.released = q.released
  BY <1>0 DEF Row, Allowed
<1>3. Accounted(p)
  BY <1>2 DEF Good, Accounted, Ended, Told, Made, OutcomesOf
<1>4. Bounded(p) /\ Placed(p)
  BY <1>0, <1>2, RequestConfig DEF Good, Bounded, Placed, Ended, Holds, Allowed, Row
<1> QED BY <1>1, <1>2, <1>3, <1>4 DEF Good

LEMMA RetryPanics ==
    ASSUME NEW q, Good(q), q.pc = "retry", Targets = {}
    PROVE  Good([q EXCEPT !.pc = "panic"])
<1> DEFINE p == [q EXCEPT !.pc = "panic"]
<1>0. q \in Row /\ "panic" \in PCs
  BY DEF Good, PCs
<1>1. p \in Row
  BY <1>0, Zenon DEF Row
<1>2. /\ p.pc = "panic" /\ p.left = q.left /\ p.target = q.target
      /\ p.attempts = q.attempts /\ p.directorError = q.directorError /\ Allowed(p) = Allowed(q)
  BY <1>0 DEF Row, Allowed
<1>3. Bounded(p) /\ Placed(p)
  BY <1>0, <1>2, RequestConfig DEF Good, Bounded, Placed, Ended, Holds, Allowed, Row
<1> QED BY <1>1, <1>2, <1>3 DEF Good

LEMMA ReportedType == ASSUME NEW q \in Row PROVE Reported(q) \in Seq(Result)
<1>1. q.reports \in Seq(Result) /\ q.target \in Target
  BY DEF Row
<1>2. CASE q.outcome \in Broken
  <2>1. LastResult(q) \in Result
    BY <1>1, <1>2 DEF LastResult, Result, Outcomes
  <2> QED BY <1>1, <2>1 DEF Reported, LastResult
<1> QED BY <1>1, <1>2 DEF Reported

LEMMA RetryStopsGood ==
    ASSUME NEW q, Good(q), q.pc = "retry"
    PROVE  Good([q EXCEPT !.pc = "failed", !.left = 0])
<1> DEFINE p == [q EXCEPT !.pc = "failed", !.left = 0]
<1>0. q \in Row /\ "failed" \in PCs /\ 0 \in 0 .. Retries
  BY RequestConfig DEF Good, PCs
<1>1. p \in Row
  BY <1>0, Zenon DEF Row
<1>2. /\ p.pc = "failed" /\ p.left = 0 /\ p.target = q.target /\ p.outcome = q.outcome
      /\ p.chain = q.chain /\ p.reports = q.reports /\ p.released = q.released
      /\ p.attempts = q.attempts /\ p.directorError = q.directorError /\ Allowed(p) = Allowed(q)
  BY <1>0 DEF Row, Allowed
<1>3. Accounted(p)
  BY <1>2 DEF Good, Accounted, Ended, Tells, LastResult, Told, Made, OutcomesOf
<1>4. Bounded(p)
  BY <1>0, <1>2, RequestConfig DEF Good, Bounded, Row, Allowed
<1>5. Placed(p)
  BY <1>2 DEF Good, Placed, Ended, LastResult, Holds
<1> QED BY <1>1, <1>2, <1>3, <1>4, <1>5 DEF Good

\* The failure of the attempt before is reported against its own target.
LEMMA RetryGood ==
    ASSUME NEW q, Good(q), q.pc = "retry", NEW t \in Targets
    PROVE  Good([q EXCEPT !.pc = "attempt", !.reports = Reported(q), !.target = t, !.left = @ - 1])
<1> DEFINE p == [q EXCEPT !.pc = "attempt", !.reports = Reported(q), !.target = t, !.left = @ - 1]
<1>a. q \in Row /\ q.left > 0 /\ q.outcome \in Outcomes \cup {"overloaded"}
  BY DEF Good, Placed, Row, LastOutcome
<1>0. q \in Row /\ "attempt" \in PCs /\ t \in Target /\ Reported(q) \in Seq(Result) /\ q.left - 1 \in 0 .. Retries
  <2>1. Reported(q) \in Seq(Result)
    BY <1>a, ReportedType
  <2>2. q.left - 1 \in 0 .. Retries
    BY <1>a, RequestConfig DEF Row
  <2> QED BY <1>a, <2>1, <2>2 DEF PCs, Target
<1>1. p \in Row
  BY <1>0, Zenon DEF Row
<1>2. /\ p.pc = "attempt" /\ p.left = q.left - 1 /\ p.target = t /\ p.outcome = q.outcome
      /\ p.chain = q.chain /\ p.reports = Reported(q) /\ p.released = q.released
      /\ p.attempts = q.attempts /\ p.directorError = q.directorError /\ Allowed(p) = Allowed(q)
  BY <1>0 DEF Row, Allowed
<1>b. q.target = "none" <=> q.directorError
  BY DEF Good, Placed
<1>3. Accounted(p)
  <2>1. Reported(q) = IF Ended(q) /\ Tells(q) THEN Append(q.reports, LastResult(q)) ELSE q.reports
    BY DEF Good, Placed, Reported, Ended, Tells, LastResult
  <2> QED BY <1>2, <2>1 DEF Good, Accounted, Ended, Told, Made, OutcomesOf
<1>4. Bounded(p)
  BY <1>0, <1>2, RequestConfig DEF Good, Bounded, Row, Allowed
<1>5. Placed(p)
  <2>1. ~q.directorError
    BY <1>b DEF Good, Placed
  <2> QED BY <1>2, <2>1, RequestConfig DEF Good, Placed, Ended, Holds
<1> QED BY <1>1, <1>2, <1>3, <1>4, <1>5 DEF Good

LEMMA FailsGood ==
    ASSUME NEW q, Good(q), q.pc = "failed"
    PROVE  Good([q EXCEPT !.pc = "error", !.released = TRUE, !.observed = Append(@, "failed")])
<1> DEFINE p == [q EXCEPT !.pc = "error", !.released = TRUE, !.observed = Append(@, "failed")]
<1>0. q \in Row /\ "error" \in PCs /\ Append(q.observed, "failed") \in Seq(Observation)
  BY DEF Good, PCs, Row, Observation
<1>1. p \in Row
  BY <1>0, Zenon DEF Row
<1>2. /\ p.pc = "error" /\ p.left = q.left /\ p.target = q.target /\ p.outcome = q.outcome
      /\ p.chain = q.chain /\ p.reports = q.reports
      /\ p.attempts = q.attempts /\ p.directorError = q.directorError /\ Allowed(p) = Allowed(q)
  BY <1>0 DEF Row, Allowed
<1>6. q.outcome # "overloaded"
  <2>1. Ended(q) /\ q.attempts # <<>> /\ q.attempts[Len(q.attempts)] = LastResult(q) /\ q.attempts \in Seq(Result)
    BY DEF Good, Placed, Ended, Row
  <2>2. LastResult(q) \in Result
    BY <2>1
  <2> QED BY <2>2 DEF LastResult, Result, Outcomes, Answers, Broken
<1>3. Accounted(p)
  <2>1. Ended(p) = Ended(q)
    BY <1>2, <1>6 DEF Ended
  <2> QED BY <1>2, <2>1 DEF Good, Accounted, Tells, LastResult, Told, Made, OutcomesOf
<1>4. Bounded(p)
  BY <1>0, <1>2, RequestConfig DEF Good, Bounded, Row, Allowed
<1>5. Placed(p)
  BY <1>2, <1>6 DEF Good, Placed, Ended, LastResult, Holds
<1> QED BY <1>1, <1>2, <1>3, <1>4, <1>5 DEF Good

LEMMA SucceedsGood ==
    ASSUME NEW q, Good(q), q.pc = "response"
    PROVE  Good([q EXCEPT !.pc = "modify", !.observed = Append(@, "success")])
<1> DEFINE p == [q EXCEPT !.pc = "modify", !.observed = Append(@, "success")]
<1>0. q \in Row /\ "modify" \in PCs /\ Append(q.observed, "success") \in Seq(Observation)
  BY DEF Good, PCs, Row, Observation
<1>1. p \in Row
  BY <1>0, Zenon DEF Row
<1>2. /\ p.pc = "modify" /\ p.left = q.left /\ p.target = q.target /\ p.outcome = q.outcome
      /\ p.chain = q.chain /\ p.reports = q.reports /\ p.released = q.released
      /\ p.attempts = q.attempts /\ p.directorError = q.directorError /\ Allowed(p) = Allowed(q)
  BY <1>0 DEF Row, Allowed
<1>3. Accounted(p)
  BY <1>2 DEF Good, Accounted, Ended, Tells, LastResult, Told, Made, OutcomesOf
<1>4. Bounded(p)
  BY <1>0, <1>2, RequestConfig DEF Good, Bounded, Row, Allowed
<1>5. Placed(p)
  BY <1>2 DEF Good, Placed, Ended, LastResult, Holds
<1> QED BY <1>1, <1>2, <1>3, <1>4, <1>5 DEF Good

LEMMA ModifyGood ==
    ASSUME NEW q, Good(q), q.pc = "modify"
    PROVE  Good([q EXCEPT !.pc = "body", !.chain = Append(@, q.outcome), !.code = 200,
                          !.reports = Append(@, [target |-> q.target, outcome |-> q.outcome])])
<1> DEFINE p == [q EXCEPT !.pc = "body", !.chain = Append(@, q.outcome), !.code = 200,
                          !.reports = Append(@, [target |-> q.target, outcome |-> q.outcome])]
<1>a. q \in Row /\ q.outcome \in Answers
  BY DEF Good, Placed
<1>0. q \in Row /\ "body" \in PCs /\ 200 \in StatusCode /\ Append(q.chain, q.outcome) \in Seq(Outcomes)
      /\ Append(q.reports, [target |-> q.target, outcome |-> q.outcome]) \in Seq(Result)
  BY <1>a DEF Row, PCs, StatusCode, Outcomes, Result
<1>1. p \in Row
  BY <1>0, Zenon DEF Row
<1>2. /\ p.pc = "body" /\ p.left = q.left /\ p.target = q.target /\ p.outcome = q.outcome
      /\ p.chain = Append(q.chain, q.outcome) /\ p.reports = Append(q.reports, LastResult(q))
      /\ p.released = q.released /\ p.code = 200
      /\ p.attempts = q.attempts /\ p.directorError = q.directorError /\ Allowed(p) = Allowed(q)
  BY <1>0 DEF Row, Allowed, LastResult
<1>b. q.target # "none" /\ q.outcome \in Answers
  BY <1>a DEF Good, Placed, Ended, Answers
<1>3. Accounted(p)
  <2>1. Ended(q) /\ Tells(q) /\ ~Ended(p)
    BY <1>2, <1>b DEF Ended, Tells
  <2> QED BY <1>2, <2>1 DEF Good, Accounted, Told, Made, OutcomesOf
<1>4. Bounded(p)
  BY <1>0, <1>2, RequestConfig DEF Good, Bounded, Row, Allowed
<1>5. Placed(p)
  BY <1>2 DEF Good, Placed, Ended, LastResult, Holds
<1> QED BY <1>1, <1>2, <1>3, <1>4, <1>5 DEF Good

\* The answer is that of the last attempt; its failure is reported now.
LEMMA ErrorGood ==
    ASSUME NEW q, Good(q), q.pc = "error", NEW c \in Codes(q)
    PROVE  Good([q EXCEPT !.pc = "done", !.code = c,
                          !.reports = IF q.directorError THEN @ ELSE Reported(q)])
<1> DEFINE told == IF q.directorError THEN q.reports ELSE Reported(q)
           p == [q EXCEPT !.pc = "done", !.code = c,
                          !.reports = IF q.directorError THEN @ ELSE Reported(q)]
<1>a. q \in Row /\ (Ended(q) \/ (q.outcome = "overloaded" /\ q.attempts = <<>>))
  BY DEF Good, Placed, Ended
<1>b. q.outcome \in Broken \cup {"canceled", "tooLarge", "overloaded"}
  BY DEF Good, Placed, Row, LastOutcome, Outcomes
<1>c. c \in StatusCode \ {0, 200}
  BY <1>b DEF Codes, StatusCode, Broken
<1>0. told \in Seq(Result) /\ "done" \in PCs /\ c \in StatusCode
  <2>1. Reported(q) \in Seq(Result)
    BY <1>a, ReportedType
  <2> QED BY <1>a, <1>c, <2>1 DEF Row, PCs
<1>1. p \in Row
  BY <1>a, <1>0, Zenon DEF Row
<1>2. /\ p.pc = "done" /\ p.left = q.left /\ p.target = q.target /\ p.outcome = q.outcome
      /\ p.chain = q.chain /\ p.reports = told /\ p.code = c
      /\ p.attempts = q.attempts /\ p.directorError = q.directorError /\ Allowed(p) = Allowed(q)
  BY <1>a DEF Row, Allowed
<1>3. Accounted(p)
  <2>1. told = IF Ended(q) /\ Tells(q) THEN Append(q.reports, LastResult(q)) ELSE q.reports
    BY <1>a, <1>b DEF Good, Placed, Reported, Ended, Tells, LastResult, Answers, Broken
  <2> HIDE DEF told, p
  <2> QED BY <1>2, <2>1 DEF Good, Accounted, Ended, Told, Made, OutcomesOf
<1>4. Bounded(p)
  BY <1>a, <1>2, RequestConfig DEF Good, Bounded, Row, Allowed
<1>5. Placed(p)
  BY <1>2 DEF Good, Placed, Ended, Holds
<1>6. Answered(p)
  <2>1. CASE q.outcome = "overloaded"
    <3>1. q.attempts = <<>>
      BY <2>1, <1>a DEF Ended
    <3>2. Codes(q) = {503}
      BY <2>1 DEF Codes
    <3>3. c = 503
      BY <3>2
    <3> HIDE DEF p
    <3> QED BY <1>2, <3>1, <3>3 DEF Answered, Answers
  <2>2. CASE q.outcome # "overloaded"
    <3>1. /\ q.attempts # <<>> /\ q.attempts[Len(q.attempts)].outcome = q.outcome
          /\ q.directorError => q.outcome = "protocol"
      BY <1>a, <2>2 DEF Good, Placed, LastResult
    <3>2. /\ c \notin {200, 503}
          /\ c = 499 => q.outcome \in {"canceled", "protocol"}
          /\ q.outcome \in {"canceled", "tooLarge"} => c \in {499, 413}
      BY <1>b, <2>2, <3>1 DEF Codes, Broken
    <3>3. q.outcome \notin Answers
      BY <1>b DEF Answers, Broken
    <3> HIDE DEF p
    <3> QED BY <1>2, <3>1, <3>2, <3>3 DEF Answered
  <2> QED BY <2>1, <2>2
<1> QED BY <1>1, <1>2, <1>3, <1>4, <1>5, <1>6 DEF Good

LEMMA BodyEndsGood ==
    ASSUME NEW q, Good(q), q.pc = "body"
    PROVE  Good([q EXCEPT !.released = TRUE, !.pc = "drained"])
<1> DEFINE p == [q EXCEPT !.released = TRUE, !.pc = "drained"]
<1>0. q \in Row /\ "drained" \in PCs
  BY DEF Good, PCs
<1>1. p \in Row
  BY <1>0, Zenon DEF Row
<1>2. /\ p.pc = "drained" /\ p.left = q.left /\ p.target = q.target /\ p.outcome = q.outcome
      /\ p.chain = q.chain /\ p.reports = q.reports /\ p.released = TRUE /\ p.code = q.code
      /\ p.attempts = q.attempts /\ p.directorError = q.directorError /\ Allowed(p) = Allowed(q)
  BY <1>0 DEF Row, Allowed
<1>3. Accounted(p)
  BY <1>2 DEF Good, Accounted, Ended, Told, Made, OutcomesOf
<1>4. Bounded(p)
  BY <1>0, <1>2, RequestConfig DEF Good, Bounded, Row, Allowed
<1>5. Placed(p)
  BY <1>2 DEF Good, Placed, Ended, LastResult, Holds
<1> QED BY <1>1, <1>2, <1>3, <1>4, <1>5 DEF Good

LEMMA BodyCloseGood ==
    ASSUME NEW q, Good(q), q.pc \in {"body", "drained"}
    PROVE  Good([q EXCEPT !.released = TRUE, !.pc = "done"])
<1> DEFINE p == [q EXCEPT !.released = TRUE, !.pc = "done"]
<1>0. q \in Row /\ "done" \in PCs
  BY DEF Good, PCs
<1>1. p \in Row
  BY <1>0, Zenon DEF Row
<1>2. /\ p.pc = "done" /\ p.left = q.left /\ p.target = q.target /\ p.outcome = q.outcome
      /\ p.chain = q.chain /\ p.reports = q.reports /\ p.released = TRUE /\ p.code = q.code
      /\ p.attempts = q.attempts /\ p.directorError = q.directorError /\ Allowed(p) = Allowed(q)
  BY <1>0 DEF Row, Allowed
<1>3. Accounted(p)
  BY <1>2 DEF Good, Accounted, Ended, Told, Made, OutcomesOf
<1>4. Bounded(p)
  BY <1>0, <1>2, RequestConfig DEF Good, Bounded, Row, Allowed
<1>5. Placed(p)
  BY <1>2 DEF Good, Placed, Ended, Holds
<1>6. Answered(p)
  <2>1. /\ q.attempts # <<>> /\ q.attempts[Len(q.attempts)].outcome = q.outcome
        /\ q.outcome \in Answers /\ q.code = 200
    BY DEF Good, Placed, LastResult
  <2> HIDE DEF p
  <2> QED BY <1>2, <2>1 DEF Answered, Answers
<1> QED BY <1>1, <1>2, <1>3, <1>4, <1>5, <1>6 DEF Good

LEMMA GoneGood == ASSUME NEW q, Good(q) PROVE Good([q EXCEPT !.gone = TRUE])
<1> DEFINE p == [q EXCEPT !.gone = TRUE]
<1>0. q \in Row
  BY DEF Good
<1>1. p \in Row
  BY <1>0, Zenon DEF Row
<1>2. /\ p.pc = q.pc /\ p.left = q.left /\ p.target = q.target /\ p.outcome = q.outcome
      /\ p.chain = q.chain /\ p.reports = q.reports /\ p.released = q.released /\ p.code = q.code
      /\ p.attempts = q.attempts /\ p.directorError = q.directorError /\ Allowed(p) = Allowed(q)
  BY <1>0 DEF Row, Allowed
<1>3. Accounted(q) => Accounted(p)
  BY <1>2 DEF Accounted, Ended, Tells, LastResult, Told, Made, OutcomesOf
<1>4. Bounded(p) /\ Placed(p)
  BY <1>2 DEF Good, Bounded, Placed, Ended, LastResult, Holds
<1>5. Answered(q) => Answered(p)
  BY <1>2 DEF Answered
<1> QED BY <1>1, <1>2, <1>3, <1>4, <1>5 DEF Good

-----------------------------------------------------------------------------
(* All requests, and the tokens.                                           *)

RowsGood == rq \in [Requests -> Row] /\ \A r \in Requests : Good(rq[r])

\* A request that panicked never gives its token back.
Keeps(q) == Holds(q) \/ q.pc = "panic"
Keepers == {r \in Requests : Keeps(rq[r])}
Counted == tokens = Cardinality(Keepers) /\ tokens <= Limit

IInv == RowsGood /\ Counted

LEMMA Tokens == ASSUME Counted PROVE IsFiniteSet(Keepers) /\ tokens \in Nat
BY RequestConfig, FS_Subset, FS_CardinalityType DEF Counted, Keepers

\* A step of r that leaves it good, and the tokens as many as their keepers.
LEMMA GoodStep ==
    ASSUME NEW r \in Requests, IInv, NEW q, Good(q), Set(r, q),
           \/ (Keeps(q) <=> Keeps(rq[r])) /\ tokens' = tokens
           \/ ~Keeps(rq[r]) /\ Keeps(q) /\ tokens' = tokens + 1 /\ tokens < Limit
           \/ Keeps(rq[r]) /\ ~Keeps(q) /\ tokens' = tokens - 1
    PROVE  IInv'
<1>1. /\ rq' \in [Requests -> Row] /\ rq'[r] = q
      /\ \A s \in Requests \ {r} : rq'[s] = rq[s]
  BY SetRow DEF IInv, RowsGood, Good
<1>2. RowsGood'
  BY <1>1 DEF IInv, RowsGood
<1>3. IsFiniteSet(Keepers) /\ tokens \in Nat /\ Limit \in Nat /\ Counted
  BY Tokens, RequestConfig DEF IInv
<1>4. CASE (Keeps(q) <=> Keeps(rq[r])) /\ tokens' = tokens
  <2>1. Keepers' = Keepers
    BY <1>1, <1>4 DEF Keepers
  <2> QED BY <1>2, <1>3, <1>4, <2>1 DEF Counted, IInv
<1>5. CASE ~Keeps(rq[r]) /\ Keeps(q) /\ tokens' = tokens + 1 /\ tokens < Limit
  <2>1. Keepers' = Keepers \cup {r} /\ r \notin Keepers
    BY <1>1, <1>5 DEF Keepers
  <2>2. Cardinality(Keepers') = Cardinality(Keepers) + 1
    BY <1>3, <2>1, FS_AddElement
  <2> QED BY <1>2, <1>3, <1>5, <2>2 DEF Counted, IInv
<1>6. CASE Keeps(rq[r]) /\ ~Keeps(q) /\ tokens' = tokens - 1
  <2>1. Keepers' = Keepers \ {r} /\ r \in Keepers
    BY <1>1, <1>6 DEF Keepers
  <2>2. Cardinality(Keepers') = Cardinality(Keepers) - 1
    BY <1>3, <2>1, FS_RemoveElement
  <2> QED BY <1>2, <1>3, <1>6, <2>2 DEF Counted, IInv
<1> QED BY <1>4, <1>5, <1>6

LEMMA InitGood == Init => IInv
<1> SUFFICES ASSUME Init PROVE IInv
  OBVIOUS
<1>1. \A r \in Requests : Good(rq[r]) /\ ~Keeps(rq[r])
  <2> SUFFICES ASSUME NEW r \in Requests PROVE Good(rq[r]) /\ ~Keeps(rq[r])
    OBVIOUS
  <2>1. PICK b \in BOOLEAN : rq[r] = Fresh(b)
    BY DEF Init
  <2> QED BY <2>1, FreshGood DEF Keeps, Fresh
<1>2. rq \in [Requests -> Row]
  BY <1>1 DEF Init, Good
<1>3. Keepers = {}
  BY <1>1 DEF Keepers
<1> QED BY <1>1, <1>2, <1>3, FS_EmptySet, RequestConfig DEF IInv, RowsGood, Counted, Init

\* Every step keeps the invariant.
LEMMA NextGood == ASSUME IInv, [Next]_vars PROVE IInv'
<1>1. CASE UNCHANGED vars
  BY <1>1 DEF IInv, RowsGood, Counted, Keepers, vars
<1>2. ASSUME NEW r \in Requests, Step(r) \/ ClientGone(r) PROVE IInv'
  <2> DEFINE q == rq[r]
  <2>1. Good(q) /\ q \in Row
    BY DEF IInv, RowsGood, Good
  <2>2. CASE Director(r)
    <3>1. CASE Targets = {}
      <4> DEFINE p == [q EXCEPT !.pc = "admit", !.left = Allowed(q), !.directorError = TRUE]
      <4>1. q.pc = "director" /\ Set(r, p) /\ tokens' = tokens
        BY <2>2, <3>1 DEF Director, Allowed
      <4>2. Good(p)
        BY <2>1, <3>1, <4>1, DirectorErrorGood, Zenon
      <4>3. Keeps(p) <=> Keeps(q)
        BY <2>1, <4>1 DEF Keeps, Holds, Row
      <4> HIDE DEF p, q
      <4> QED BY <4>1, <4>2, <4>3, GoodStep DEF q
    <3>2. CASE Targets # {}
      <4>1. PICK t \in Targets : Set(r, [q EXCEPT !.pc = "admit", !.left = Allowed(q), !.target = t])
        BY <2>2, <3>2, Zenon DEF Director, Allowed
      <4> DEFINE p == [q EXCEPT !.pc = "admit", !.left = Allowed(q), !.target = t]
      <4>2. q.pc = "director" /\ tokens' = tokens
        BY <2>2, Zenon DEF Director
      <4>3. Good(p)
        BY <2>1, <4>2, DirectorGood, Zenon
      <4>4. Keeps(p) <=> Keeps(q)
        BY <2>1, <4>2 DEF Keeps, Holds, Row
      <4>5. Set(r, p)
        BY <4>1
      <4> HIDE DEF p, q
      <4> QED BY <4>2, <4>3, <4>4, <4>5, GoodStep DEF q
    <3> QED BY <3>1, <3>2
  <2>3. CASE Admit(r)
    <3> DEFINE p == [q EXCEPT !.pc = "attempt"]
    <3>1. q.pc = "admit" /\ Set(r, p) /\ tokens' = tokens + 1 /\ tokens < Limit
      BY <2>3 DEF Admit
    <3>2. Good(p)
      BY <2>1, <3>1, AdmitGood
    <3>3. ~Keeps(q) /\ Keeps(p)
      BY <2>1, <3>1 DEF Keeps, Holds, Row
    <3> HIDE DEF p, q
    <3> QED BY <3>1, <3>2, <3>3, GoodStep DEF q
  <2>4. CASE Overloaded(r)
    <3> DEFINE p == [q EXCEPT !.pc = "error", !.outcome = "overloaded"]
    <3>1. q.pc = "admit" /\ Set(r, p) /\ tokens' = tokens
      BY <2>4 DEF Overloaded
    <3>2. Good(p)
      BY <2>1, <3>1, OverloadedGood, Zenon
    <3>3. Keeps(p) <=> Keeps(q)
      BY <2>1, <3>1 DEF Keeps, Holds, Row
    <3> HIDE DEF p, q
    <3> QED BY <3>1, <3>2, <3>3, GoodStep DEF q
  <2>5. ASSUME NEW o \in Outcomes, Attempt(r, o) PROVE IInv'
    <3> DEFINE next == IF o \in Answers THEN "response" ELSE IF q.left > 0 THEN "retry" ELSE "failed"
               p == [q EXCEPT !.pc = IF o \in Answers THEN "response"
                                     ELSE IF q.left > 0 THEN "retry" ELSE "failed",
                              !.outcome = o,
                              !.attempts = Append(@, [target |-> q.target, outcome |-> o]),
                              !.chain = Chained(q, o)]
    <3>1. q.pc = "attempt" /\ Set(r, p) /\ tokens' = tokens /\ o \in Possible(q)
      BY <2>5 DEF Attempt
    <3>2. Good(p)
      BY <2>1, <3>1, AttemptGood, Zenon
    <3>3. Keeps(p) <=> Keeps(q)
      <4>1. p.pc = next
        BY <2>1 DEF Row
      <4> QED BY <3>1, <4>1 DEF Keeps, Holds
    <3> HIDE DEF p, q
    <3> QED BY <3>1, <3>2, <3>3, GoodStep DEF q
  <2>6. CASE RetryStops(r)
    <3> DEFINE p == [q EXCEPT !.pc = "failed", !.left = 0]
    <3>1. q.pc = "retry" /\ Set(r, p) /\ tokens' = tokens
      BY <2>6 DEF RetryStops
    <3>2. Good(p)
      BY <2>1, <3>1, RetryStopsGood, Zenon
    <3>3. Keeps(p) <=> Keeps(q)
      BY <2>1, <3>1 DEF Keeps, Holds, Row
    <3> HIDE DEF p, q
    <3> QED BY <3>1, <3>2, <3>3, GoodStep DEF q
  <2>7. CASE Retry(r)
    <3>1. CASE Targets = {}
      <4> DEFINE p == [q EXCEPT !.pc = "panic"]
      <4>1. q.pc = "retry" /\ Set(r, p) /\ tokens' = tokens
        BY <2>7, <3>1 DEF Retry
      <4>2. Good(p)
        BY <2>1, <3>1, <4>1, RetryPanics
      <4>3. Keeps(p) <=> Keeps(q)
        BY <2>1, <4>1 DEF Keeps, Holds, Row
      <4> HIDE DEF p, q
      <4> QED BY <4>1, <4>2, <4>3, GoodStep DEF q
    <3>2. CASE Targets # {}
      <4>1. PICK t \in Targets :
              Set(r, [q EXCEPT !.pc = "attempt", !.reports = Reported(q), !.target = t, !.left = @ - 1])
        BY <2>7, <3>2, Zenon DEF Retry
      <4> DEFINE p == [q EXCEPT !.pc = "attempt", !.reports = Reported(q), !.target = t, !.left = @ - 1]
      <4>2. q.pc = "retry" /\ tokens' = tokens
        BY <2>7, Zenon DEF Retry
      <4>3. Good(p)
        BY <2>1, <4>2, RetryGood, Zenon
      <4>4. Keeps(p) <=> Keeps(q)
        BY <2>1, <4>2 DEF Keeps, Holds, Row
      <4>5. Set(r, p)
        BY <4>1
      <4> HIDE DEF p, q
      <4> QED BY <4>2, <4>3, <4>4, <4>5, GoodStep DEF q
    <3> QED BY <3>1, <3>2
  <2>8. CASE RoundTripFails(r)
    <3> DEFINE p == [q EXCEPT !.pc = "error", !.released = TRUE, !.observed = Append(@, "failed")]
    <3>1. q.pc = "failed" /\ Set(r, p) /\ tokens' = tokens - 1
      BY <2>8 DEF RoundTripFails
    <3>2. Good(p)
      BY <2>1, <3>1, FailsGood, Zenon
    <3>3. Keeps(q) /\ ~Keeps(p)
      BY <2>1, <3>1 DEF Keeps, Holds, Row
    <3> HIDE DEF p, q
    <3> QED BY <3>1, <3>2, <3>3, GoodStep DEF q
  <2>9. CASE RoundTripSucceeds(r)
    <3> DEFINE p == [q EXCEPT !.pc = "modify", !.observed = Append(@, "success")]
    <3>1. q.pc = "response" /\ Set(r, p) /\ tokens' = tokens
      BY <2>9 DEF RoundTripSucceeds
    <3>2. Good(p)
      BY <2>1, <3>1, SucceedsGood, Zenon
    <3>3. Keeps(p) <=> Keeps(q)
      BY <2>1, <3>1 DEF Keeps, Holds, Row
    <3> HIDE DEF p, q
    <3> QED BY <3>1, <3>2, <3>3, GoodStep DEF q
  <2>10. CASE ModifyResponse(r)
    <3> DEFINE p == [q EXCEPT !.pc = "body", !.chain = Append(@, q.outcome), !.code = 200,
                              !.reports = Append(@, [target |-> q.target, outcome |-> q.outcome])]
    <3>1. q.pc = "modify" /\ Set(r, p) /\ tokens' = tokens
      BY <2>10 DEF ModifyResponse
    <3>2. Good(p)
      BY <2>1, <3>1, ModifyGood, Zenon
    <3>3. Keeps(p) <=> Keeps(q)
      BY <2>1, <3>1 DEF Keeps, Holds, Row
    <3> HIDE DEF p, q
    <3> QED BY <3>1, <3>2, <3>3, GoodStep DEF q
  <2>11. CASE ErrorHandler(r)
    <3>1. PICK c \in Codes(q) : Set(r, [q EXCEPT !.pc = "done", !.code = c,
                                          !.reports = IF q.directorError THEN @ ELSE Reported(q)])
      BY <2>11, Zenon DEF ErrorHandler
    <3> DEFINE p == [q EXCEPT !.pc = "done", !.code = c,
                              !.reports = IF q.directorError THEN @ ELSE Reported(q)]
    <3>2. q.pc = "error" /\ tokens' = tokens
      BY <2>11 DEF ErrorHandler
    <3>3. Good(p)
      BY <2>1, <3>2, ErrorGood, Zenon
    <3>4. Keeps(p) <=> Keeps(q)
      BY <2>1, <3>2 DEF Keeps, Holds, Row
    <3>5. Set(r, p)
      BY <3>1
    <3> HIDE DEF p, q
    <3> QED BY <3>2, <3>3, <3>4, <3>5, GoodStep DEF q
  <2>12. CASE BodyEnds(r)
    <3> DEFINE p == [q EXCEPT !.released = TRUE, !.pc = "drained"]
    <3>1. q.pc = "body" /\ Set(r, p) /\ tokens' = tokens - 1
      BY <2>1, <2>12 DEF BodyEnds, ReleaseOnce, Good, Placed, Holds
    <3>2. Good(p)
      BY <2>1, <3>1, BodyEndsGood, Zenon
    <3>3. Keeps(q) /\ ~Keeps(p)
      BY <2>1, <3>1 DEF Keeps, Holds, Row
    <3> HIDE DEF p, q
    <3> QED BY <3>1, <3>2, <3>3, GoodStep DEF q
  <2>13. CASE BodyClose(r)
    <3> DEFINE p == [q EXCEPT !.released = TRUE, !.pc = "done"]
    <3>1. /\ Set(r, p)
          /\ \/ q.pc = "body" /\ tokens' = tokens - 1
             \/ q.pc = "drained" /\ tokens' = tokens
      BY <2>1, <2>13 DEF BodyClose, ReleaseOnce, Good, Placed, Holds
    <3>2. Good(p)
      BY <2>1, <3>1, BodyCloseGood, Zenon
    <3>3. ~Keeps(p) /\ (Keeps(q) <=> q.pc = "body")
      BY <2>1, <3>1 DEF Keeps, Holds, Row
    <3> HIDE DEF p, q
    <3> QED BY <3>1, <3>2, <3>3, GoodStep DEF q
  <2>14. CASE ClientGone(r)
    <3> DEFINE p == [q EXCEPT !.gone = TRUE]
    <3>1. Set(r, p) /\ tokens' = tokens
      BY <2>14 DEF ClientGone
    <3>2. Good(p)
      BY <2>1, GoneGood
    <3>3. Keeps(p) <=> Keeps(q)
      BY <2>1 DEF Keeps, Holds, Row
    <3> HIDE DEF p, q
    <3> QED BY <3>1, <3>2, <3>3, GoodStep DEF q
  <2> QED BY <1>2, <2>2, <2>3, <2>4, <2>5, <2>6, <2>7, <2>8, <2>9, <2>10, <2>11, <2>12, <2>13, <2>14
          DEF Step
<1> QED BY <1>1, <1>2 DEF Next

\* The inductive invariant of requests and tokens.
LEMMA Invariant == Spec => []IInv
BY InitGood, NextGood, PTL DEF Spec

\* TokensExact: the admission channel of a cluster (admissionTransport) holds
\* one token per request between admission and the end of its body, and no more
\* than max_in_flight, unless the upstream has no node and retries are on: the
\* retry of such a request panics and its token is lost.
THEOREM TokensKept == (Targets # {} \/ Retries = 0) /\ Spec => []TokensExact
<1>1. ASSUME Targets # {} \/ Retries = 0, IInv PROVE TokensExact
  <2>1. \A r \in Requests : rq[r].pc # "panic"
    BY <1>1 DEF IInv, RowsGood, Good, Placed
  <2>2. Keepers = {r \in Requests : Holds(rq[r])}
    BY <2>1 DEF Keepers, Keeps
  <2> QED BY <1>1, <2>2 DEF IInv, Counted, TokensExact
<1> SUFFICES ASSUME Targets # {} \/ Retries = 0 PROVE Spec => []TokensExact
  OBVIOUS
<1>2. IInv => TokensExact
  BY <1>1
<1> QED BY <1>2, Invariant, PTL

\* AccountRight: a request makes no more attempts than httpRetryCount allows;
\* once it has its answer, the health checker was told of each answer and each
\* transport failure once, in order and against the target it came from, the
\* status chain lists the attempts, and the answer is the last attempt's
\* (retryTransport, newModifyResponse, newErrorHandler).
THEOREM AccountKept == Spec => []AccountRight
<1>1. ASSUME IInv PROVE AccountRight
  <2>1. \A r \in Requests : Good(rq[r]) /\ rq[r] \in Row
    BY <1>1 DEF IInv, RowsGood, Good
  <2>2. TypeOK
    BY <1>1, <2>1, Tokens DEF IInv, TypeOK, Row, PCs, StatusCode
  <2>3. AttemptsBounded
    <3> SUFFICES ASSUME NEW r \in Requests PROVE Len(rq[r].attempts) <= 1 + Allowed(rq[r])
      BY DEF AttemptsBounded, Allowed
    <3>1. Len(rq[r].attempts) \in Nat /\ rq[r].left \in Nat /\ Allowed(rq[r]) \in Nat
      BY <2>1, RequestConfig DEF Row, Allowed
    <3>2. Bounded(rq[r])
      BY <2>1 DEF Good
    <3> QED BY <3>1, <3>2 DEF Bounded
  <2>4. OutcomesReportedOnce /\ ChainIsAttempts
    BY <2>1 DEF OutcomesReportedOnce, ChainIsAttempts, Good, Accounted, Ended
  <2>5. AnswerIsLast
    <3> SUFFICES ASSUME NEW r \in Requests, rq[r].pc \in {"body", "drained", "done"}
                 PROVE  Answered(rq[r])
      BY DEF AnswerIsLast, Answered
    <3>1. CASE rq[r].pc = "done"
      BY <2>1, <3>1 DEF Good
    <3>2. CASE rq[r].pc \in {"body", "drained"}
      <4>1. /\ rq[r].attempts # <<>> /\ rq[r].attempts[Len(rq[r].attempts)].outcome = rq[r].outcome
            /\ rq[r].outcome \in Answers /\ rq[r].code = 200
        <5>1. Placed(rq[r])
          BY <2>1 DEF Good
        <5> QED BY <3>2, <5>1 DEF Placed, LastResult
      <4> QED BY <4>1 DEF Answered, Answers
    <3> QED BY <3>1, <3>2
  <2> QED BY <2>2, <2>3, <2>4, <2>5 DEF AccountRight
<1> QED BY <1>1, Invariant, PTL

=============================================================================
