----------------------------- MODULE SvnSourceXml -----------------------------
(***************************************************************************)
(* The SVN source conversions of the Jenkins job configuration XML         *)
(* (src/pkg/client/devops/jenkins/internal/svn.go): a multi-branch SVN     *)
(* source (SvnSource) and a single SVN source (SingleSvnSource) are        *)
(* written into the <source> element of a job with etree, and read back    *)
(* from it when the job is loaded.                                         *)
(*                                                                         *)
(* An etree element is a record of its tag, its attributes (in order),     *)
(* its text and its child elements; CreateElement appends a child,         *)
(* SetText sets the text, and SelectElement returns the first child with a *)
(* tag.  Field values are drawn from a small set of strings with "" (the   *)
(* zero value, which the encoders leave out).  Each step converts one       *)
(* source: encode into a fresh <source> element, then decode.              *)
(***************************************************************************)
EXTENDS Sequences, SequencesExt

CONSTANTS
  Strs,  \* non-empty field values
  Nil    \* model value: a nil pointer (no source given, no element found)

Strings == Strs \cup {""}

SvnSource == [ScmId: Strings, Remote: Strings, CredentialId: Strings,
              Includes: Strings, Excludes: Strings]
SingleSvnSource == [ScmId: Strings, Remote: Strings, CredentialId: Strings]

VARIABLES
  kind,    \* "svn" or "single": which conversion the last step made
  input,   \* the source given to the encoder, or Nil
  xml,     \* the <source> element the encoder produced
  output   \* the source the decoder read back from it

vars == <<kind, input, xml, output>>

-----------------------------------------------------------------------------
(* etree.                                                                  *)

NewElement(tag) == [tag |-> tag, attrs |-> << >>, text |-> "", children |-> << >>]

Leaf(tag, text) == [NewElement(tag) EXCEPT !.text = text]

WithAttrs(e, as) == [e EXCEPT !.attrs = @ \o as]

WithChildren(e, cs) == [e EXCEPT !.children = @ \o cs]

SelectElement(e, tag) ==
  LET i == SelectInSeq(e.children, LAMBDA c : c.tag = tag) IN
  IF i = 0 THEN Nil ELSE e.children[i]

\* The leaves whose text is set, as the encoders' `if x != ""` guards.
NonEmpty(leaves) == SelectSeq(leaves, LAMBDA c : c.text /= "")

-----------------------------------------------------------------------------
(* The conversions.                                                        *)

AppendSvnSourceToEtree(source, s) ==
  IF s = Nil THEN source
  ELSE WithChildren(
         WithAttrs(source, << <<"class", "jenkins.scm.impl.subversion.SubversionSCMSource">>,
                              <<"plugin", "subversion">> >>),
         <<Leaf("id", s.ScmId)>> \o
         NonEmpty(<<Leaf("credentialsId", s.CredentialId), Leaf("remoteBase", s.Remote),
                    Leaf("includes", s.Includes), Leaf("excludes", s.Excludes)>>))

AppendSingleSvnSourceToEtree(source, s) ==
  IF s = Nil THEN source
  ELSE
  LET location ==
        WithChildren(NewElement("hudson.scm.SubversionSCM_-ModuleLocation"),
          NonEmpty(<<Leaf("remote", s.Remote), Leaf("credentialsId", s.CredentialId)>>) \o
          <<Leaf("local", "."), Leaf("depthOption", "infinity"),
            Leaf("ignoreExternalsOption", "true"),
            Leaf("cancelProcessOnExternalsFail", "true")>>)
      scm ==
        WithChildren(
          WithAttrs(NewElement("scm"), << <<"class", "hudson.scm.SubversionSCM">>,
                                           <<"plugin", "subversion">> >>),
          <<WithChildren(NewElement("locations"), <<location>>)>>)
  IN
  WithChildren(
    WithAttrs(source, << <<"class", "jenkins.scm.impl.SingleSCMSource">>,
                         <<"plugin", "scm-api">> >>),
    <<Leaf("id", s.ScmId), Leaf("name", "master"), scm,
      NewElement("excludedRegions"), NewElement("includedRegions"),
      NewElement("excludedUsers"), NewElement("excludedRevprop"),
      NewElement("excludedCommitMessages"),
      WithAttrs(NewElement("workspaceUpdater"),
                << <<"class", "hudson.scm.subversion.UpdateUpdater">> >>),
      Leaf("ignoreDirPropChanges", "false"), Leaf("filterChangelog", "false"),
      Leaf("quietOperation", "true")>>)

\* `if x := e.SelectElement(tag); x != nil { field = x.Text() }`: the text
\* of the first child with the tag, or the zero value.
TextOf(e, tag) ==
  LET c == SelectElement(e, tag) IN IF c = Nil THEN "" ELSE c.text

\* Mutant of GetSvnSourcefromEtree: the remote is looked up under the tag
\* the single source uses.
GetSvnSourceReadsRemote(source) ==
  [ScmId |-> "", Remote |-> TextOf(source, "remote"),
   CredentialId |-> TextOf(source, "credentialsId"),
   Includes |-> TextOf(source, "includes"), Excludes |-> TextOf(source, "excludes")]

GetSvnSourcefromEtree(source) ==
  [ScmId |-> "", Remote |-> TextOf(source, "remoteBase"),
   CredentialId |-> TextOf(source, "credentialsId"),
   Includes |-> TextOf(source, "includes"), Excludes |-> TextOf(source, "excludes")]

\* The chain scm / locations / ModuleLocation, each step guarded by a nil
\* check; a missing link leaves the zero value.
GetSingleSvnSourceFromEtree(source) ==
  LET scm == SelectElement(source, "scm")
      locations == IF scm = Nil THEN Nil ELSE SelectElement(scm, "locations")
      loc == IF locations = Nil THEN Nil
             ELSE SelectElement(locations, "hudson.scm.SubversionSCM_-ModuleLocation")
  IN
  IF loc = Nil THEN [ScmId |-> "", Remote |-> "", CredentialId |-> ""]
  ELSE [ScmId |-> "", Remote |-> TextOf(loc, "remote"),
        CredentialId |-> TextOf(loc, "credentialsId")]

-----------------------------------------------------------------------------

ConvertSvn(s) ==
  /\ kind' = "svn" /\ input' = s
  /\ xml' = AppendSvnSourceToEtree(NewElement("source"), s)
  /\ output' = GetSvnSourcefromEtree(xml')

ConvertSingleSvn(s) ==
  /\ kind' = "single" /\ input' = s
  /\ xml' = AppendSingleSvnSourceToEtree(NewElement("source"), s)
  /\ output' = GetSingleSvnSourceFromEtree(xml')

Init ==
  /\ kind = "svn" /\ input = Nil /\ xml = NewElement("source")
  /\ output = GetSvnSourcefromEtree(xml)

Next ==
  \/ \E s \in SvnSource \cup {Nil} : ConvertSvn(s)
  \/ \E s \in SingleSvnSource \cup {Nil} : ConvertSingleSvn(s)

Spec == Init /\ [][Next]_vars

-----------------------------------------------------------------------------
(* Properties.                                                             *)

TypeOK ==
  /\ kind \in {"svn", "single"}
  /\ input \in SvnSource \cup SingleSvnSource \cup {Nil}
  /\ output \in SvnSource \cup SingleSvnSource

\* What the decoder reads back is what was encoded: every field but ScmId
\* (written to <id>, which neither decoder reads) survives the round trip
\* through the job XML, for both kinds of source, empty fields and a nil
\* source (read back as the zero value) included.
RoundTrip ==
  LET zero == [f \in DOMAIN output |-> ""] IN
  output = [f \in DOMAIN output |->
              IF f = "ScmId" \/ input = Nil THEN zero[f] ELSE input[f]]

=============================================================================
