------------------------------ MODULE CronCheck ------------------------------
(***************************************************************************)
(* The cron check of a pipeline trigger (Pipeline.CheckCron and            *)
(* parseCronJobTime in src/pkg/client/devops/jenkins/pipeline.go).  The    *)
(* handler asks Jenkins's cron form validation, with the user's request    *)
(* headers, and reads the answer's HTML: the message and class of the      *)
(* last <div>, overridden by a <pre> as an error.  For the class "ok" the  *)
(* message, "Would last have run at <date>; would next run at <date>.",    *)
(* is parsed into the last and next run times.                             *)
(*                                                                         *)
(* Each step of the handler is an action; its input is the outcome of the *)
(* call it makes, or the document Jenkins sent.  A message is its parts   *)
(* between ";", each a run of words ending with a date and a time-zone name.  parseCronJobTime splits a     *)
(* part on spaces after its replacements and takes the six tokens before   *)
(* the last one as the date (the layout has six tokens): it is modelled by *)
(* those token counts.  A panic of the handler is the result Panic.        *)
(***************************************************************************)
EXTENDS Naturals, Sequences

CONSTANTS
  Dates,       \* model values: dates Jenkins formats (six tokens each)
  Zones,       \* time-zone names Jenkins appends to a date
  ZoneTokens,  \* ZoneTokens[z]: the words of zone name z
  NoDate,      \* model value: a part with no date in it
  Panic,       \* model value: the handler panicked
  NoResponse   \* model value: the handler has not returned yet

\* The words of a part before its date: "Would last have run" and
\* " would next run" (a leading space makes an empty first token); the
\* " at " before the date is removed by a replacement.
PrefixTokens == 4

Part == [date: Dates \cup {NoDate}, zone: Zones]
Msg == {<<p>> : p \in Part} \cup (Part \X Part)
Div == [class: {"ok", "warning", "error", ""}, msg: Msg]

\* The result interanlErrorMessage() builds.
Internal == [result |-> "error", message |-> "internal", last |-> NoDate,
             next |-> NoDate]

VARIABLES
  pc,        \* the step of CheckCron: "url", "do", "body", "doc" or "done"
  response   \* [res, err] returned by CheckCron, Panic or NoResponse

vars == <<pc, response>>

-----------------------------------------------------------------------------
(* parseCronJobTime.                                                       *)

\* strings.ReplaceAll(msg, "Coordinated Universal Time", "UTC").
Normalize(z) == IF z = "Coordinated Universal Time" THEN "UTC" ELSE z

\* The tokens of a part after the replacements.
TokenCount(part) ==
  IF part.date = NoDate THEN PrefixTokens
  ELSE PrefixTokens + 6 + ZoneTokens[Normalize(part.zone)]

\* tmp[count-7 : count-1] and time.Parse: the date if the window is
\* exactly the date's six tokens, a parse error if not, a panic if the
\* window starts before the first token.
ParsePart(part) ==
  LET count == TokenCount(part) IN
  IF count < 7 THEN Panic
  ELSE IF part.date /= NoDate /\ count - 7 = PrefixTokens THEN part.date
  ELSE "parseError"

\* Mutant of ParseCronJobTime: the next time is parsed from the first part.
ParseCronJobTimeFirstTwice(msg) ==
  LET last == ParsePart(msg[1]) IN
  IF last \in {Panic, "parseError"} THEN last
  ELSE LET next == ParsePart(msg[1]) IN
       IF next \in {Panic, "parseError"} THEN next
       ELSE <<last, next>>

\* The last time from times[0], then the next time from times[1], which
\* panics when the message has no ";".
ParseCronJobTime(msg) ==
  LET last == ParsePart(msg[1]) IN
  IF last \in {Panic, "parseError"} THEN last
  ELSE IF Len(msg) < 2 THEN Panic
  ELSE LET next == ParsePart(msg[2]) IN
       IF next \in {Panic, "parseError"} THEN next
       ELSE <<last, next>>

-----------------------------------------------------------------------------
(* CheckCron.                                                              *)

\* doc.Find("div").Each and doc.Find("pre").Each: the last div sets the
\* message and the class; a pre makes the result "error".
ReadDocument(div, pre) ==
  LET d == IF div = << >> THEN [class |-> "", msg |-> << >>]
           ELSE div[Len(div)]
  IN [result |-> IF pre THEN "error" ELSE d.class,
      message |-> d.msg, last |-> NoDate, next |-> NoDate]

\* Mutant of CheckCronParsed: a parse error returns the half-filled result.
CheckCronParsedKeepsResult(res) ==
  IF res.result /= "ok" THEN [res |-> res, err |-> FALSE]
  ELSE
  LET t == ParseCronJobTime(res.message) IN
  IF t = Panic THEN Panic
  ELSE IF t = "parseError" THEN [res |-> res, err |-> TRUE]
  ELSE [res |-> [res EXCEPT !.last = t[1], !.next = t[2]], err |-> FALSE]

\* The tail of CheckCron: for the class "ok" the message is parsed, and a
\* parse error returns interanlErrorMessage() with the error.
CheckCronParsed(res) ==
  IF res.result /= "ok" THEN [res |-> res, err |-> FALSE]
  ELSE
  LET t == ParseCronJobTime(res.message) IN
  IF t = Panic THEN Panic
  ELSE IF t = "parseError" THEN [res |-> Internal, err |-> TRUE]
  ELSE [res |-> [res EXCEPT !.last = t[1], !.next = t[2]], err |-> FALSE]

\* The handler returns.
Return(resp) == response' = resp /\ pc' = "done"

\* A client checks a cron expression.
NewRequest ==
  /\ pc = "done"
  /\ pc' = "url" /\ response' = NoResponse

\* Mutant of ParseURL: the error is recorded but the handler goes on.
ParseURLNoReturn(ok) ==
  /\ pc = "url"
  /\ pc' = "do"
  /\ IF ok THEN UNCHANGED response
     ELSE response' = [res |-> Internal, err |-> TRUE]

\* url.Parse of the cron service URL.
ParseURL(ok) ==
  /\ pc = "url"
  /\ IF ok THEN pc' = "do" /\ UNCHANGED response
     ELSE Return([res |-> Internal, err |-> TRUE])

\* client.Do, with its 30 second timeout.
Do(ok) ==
  /\ pc = "do"
  /\ IF ok THEN pc' = "body" /\ UNCHANGED response
     ELSE Return([res |-> Internal, err |-> TRUE])

\* getRespBody, then the status check: a status other than 200 or 400
\* returns interanlErrorMessage() with err, which is nil there.  (resp is
\* never nil once client.Do succeeded.)
ReadBody(ok, status) ==
  /\ pc = "body"
  /\ IF ~ok THEN Return([res |-> Internal, err |-> TRUE])
     ELSE IF status \notin {200, 400} THEN Return([res |-> Internal, err |-> FALSE])
     ELSE pc' = "doc" /\ UNCHANGED response

\* The document is read (goquery cannot fail on an in-memory reader) and,
\* for "ok", its message parsed.
ReadDocumentAndParse(div, pre) ==
  /\ pc = "doc"
  /\ Return(CheckCronParsed(ReadDocument(div, pre)))

Init == pc = "url" /\ response = NoResponse

Next ==
  \/ NewRequest
  \/ \E ok \in BOOLEAN : ParseURL(ok) \/ Do(ok)
  \/ \E ok \in BOOLEAN, s \in {200, 400, 503} : ReadBody(ok, s)
  \/ \E div \in {<< >>} \cup {<<x>> : x \in Div}, pre \in BOOLEAN :
       ReadDocumentAndParse(div, pre)

Spec == Init /\ [][Next]_vars

-----------------------------------------------------------------------------
(* Properties.                                                             *)

\* CheckCron has returned, without a panic.
Returned == response \notin {Panic, NoResponse}

TypeOK ==
  /\ pc \in {"url", "do", "body", "doc", "done"}
  /\ (pc = "done") = (response /= NoResponse)
  /\ \/ response \in {Panic, NoResponse}
     \/ /\ response.err \in BOOLEAN
        /\ response.res.result \in {"ok", "warning", "error", ""}
        /\ response.res.last \in Dates \cup {NoDate}
        /\ response.res.next \in Dates \cup {NoDate}

\* A returned error always comes with the internal-error result, never with
\* a half-filled one (a message still to be parsed, a class "ok").
ErrorMeansInternalResult ==
  Returned /\ response.err => response.res = Internal

\* A result "ok" carries the last and the next run times Jenkins wrote in
\* its message, in that order.
OkCarriesMessageTimes ==
  Returned /\ response.res.result = "ok" =>
    /\ Len(response.res.message) = 2
    /\ response.res.last = response.res.message[1].date
    /\ response.res.next = response.res.message[2].date

=============================================================================
