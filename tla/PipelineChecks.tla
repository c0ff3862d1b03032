---------------------------- MODULE PipelineChecks ----------------------------
(***************************************************************************)
(* The two checks of src/pkg/client/devops/jenkins/pipeline.go that read   *)
(* Jenkins's answer rather than decode it into a value: CheckPipelineName, *)
(* which reports a name as taken when the answer matches the regular       *)
(* expression >[^<]+<, and CheckScriptCompile, which decodes the answer as *)
(* one CheckScript and, when that fails, as a list of them, returning the  *)
(* first.  Neither has a caller under src/.                               *)
(*                                                                         *)
(* An answer of CheckPipelineName is a sequence of characters, of which    *)
(* only "<" and ">" matter to the expression: every other character is    *)
(* "x".  An answer of CheckScriptCompile is its JSON shape: an object, the *)
(* literal null, something else, or a list of objects and nulls.  A       *)
(* failed request returns its error, whose wording is left out.            *)
(***************************************************************************)
EXTENDS Integers, Sequences, SequencesExt

CONSTANTS
  MaxAnswer,  \* the longest answer of CheckPipelineName enumerated
  Nil,        \* model value: a nil pointer
  Panic,      \* model value: the handler panicked
  CheckError  \* model value: the check returned an error

Chars == {"<", ">", "x"}

\* The answers of Jenkins's checkJobName: FormValidation.ok() is an empty
\* div ("<div/>"); a taken name gives an error div holding an image tag and
\* a message, whose "<" are escaped.
JenkinsOk == <<"<", "x", ">">>
JenkinsError(msg) == <<"<", "x", ">", "<", "x", ">">> \o msg \o <<"<", "x", ">">>
JenkinsAnswers == {JenkinsOk} \cup {JenkinsError(m) : m \in {<<"x">>, <<"x", ">">>}}
NameAnswers == SeqOf(Chars, MaxAnswer) \cup JenkinsAnswers

\* JSON shapes of a checkScriptCompile answer: an object, null, something
\* else, or a list, with the shapes of its elements.
ScriptAnswers ==
  {[shape |-> sh, items |-> << >>] : sh \in {"object", "null", "other"}} \cup
  {[shape |-> "list", items |-> l] : l \in SeqOf({"object", "null"}, 2)}

VARIABLES
  nameAnswer,    \* Jenkins's answer to the last CheckPipelineName, or Nil
  nameResult,    \* its result: [exist |-> b] or CheckError, or Nil
  scriptAnswer,  \* Jenkins's answer to the last CheckScriptCompile, or Nil
  scriptResult   \* its result: "check", Nil, Panic or CheckError

vars == <<nameAnswer, nameResult, scriptAnswer, scriptResult>>

-----------------------------------------------------------------------------
(* The code.                                                               *)

\* regexp's scan for >[^<]+<, one character at a time: "out" outside a
\* match, "open" just after a ">", "tag" after ">" and at least one more
\* character that is not "<".
RECURSIVE Scan(_, _)
Scan(s, q) ==
  IF s = << >> THEN FALSE
  ELSE CASE q = "tag" /\ Head(s) = "<" -> TRUE
         [] q = "open" /\ Head(s) = "<" -> Scan(Tail(s), "out")
         [] q = "out" -> Scan(Tail(s), IF Head(s) = ">" THEN "open" ELSE "out")
         [] OTHER -> Scan(Tail(s), "tag")

\* reg.FindString(string(res)) != "": the answer holds a match.
FindsMatch(s) == Scan(s, "out")

\* CheckPipelineName: SendPureRequest, then the match.
CheckPipelineName(a) ==
  /\ nameAnswer' = a
  /\ \/ nameResult' = CheckError
     \/ nameResult' = [exist |-> FindsMatch(a)]

\* json.Unmarshal into []*CheckScript succeeded: resJson[0], which is out
\* of range in an empty list and a nil pointer for a null element.
DecodeScriptList(l) ==
  IF l = << >> THEN Panic ELSE IF l[1] = "null" THEN Nil ELSE "check"

\* CheckScriptCompile: SendPureRequest, then the answer decoded as one
\* CheckScript (a JSON null leaves it zero) and, failing that, as a list.
CheckScriptCompile(a) ==
  /\ scriptAnswer' = a
  /\ \/ scriptResult' = CheckError
     \/ scriptResult' =
          CASE a.shape \in {"object", "null"} -> "check"
            [] a.shape = "other" -> CheckError
            [] OTHER -> DecodeScriptList(a.items)

-----------------------------------------------------------------------------

NameIdle == nameAnswer' = Nil /\ nameResult' = Nil
ScriptIdle == scriptAnswer' = Nil /\ scriptResult' = Nil

Init == nameAnswer = Nil /\ nameResult = Nil /\ scriptAnswer = Nil /\ scriptResult = Nil

Next ==
  \/ \E a \in NameAnswers : CheckPipelineName(a) /\ ScriptIdle
  \/ \E a \in ScriptAnswers : CheckScriptCompile(a) /\ NameIdle

Spec == Init /\ [][Next]_vars

-----------------------------------------------------------------------------
(* Properties.                                                             *)

TypeOK ==
  /\ nameAnswer \in NameAnswers \cup {Nil}
  /\ nameResult \in [exist: BOOLEAN] \cup {CheckError, Nil}
  /\ scriptAnswer \in ScriptAnswers \cup {Nil}
  /\ scriptResult \in {"check", Nil, Panic, CheckError}

=============================================================================
