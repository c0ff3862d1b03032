---------------------------- MODULE PipelineTypes ----------------------------
(***************************************************************************)
(* The helpers of the pipeline API types                                   *)
(* (src/pkg/api/devops/v1alpha3/pipeline_types.go) that compute rather     *)
(* than hold: GetGitURL of a multi-branch pipeline, and the Gitlab         *)
(* source's Jenkins project path, GetJenkinsProjectPath, with its inverse  *)
(* SetRepoFromJenkinsProjectPath.                                          *)
(*                                                                         *)
(* Both are about the characters of names, so a name is a sequence of      *)
(* characters: Chars, and "/" where the name may hold one.  A Gitlab owner *)
(* is a group path, which holds "/" for a subgroup; a repository name      *)
(* never does.  A host prefix of GetGitURL's format is one token.  A       *)
(* source is abstracted to the fields the helpers read; a nil pointer is   *)
(* Nil.                                                                    *)
(***************************************************************************)
EXTENDS Sequences, SequencesExt

CONSTANTS
  Chars,     \* characters of names, other than "/"
  MaxOwner,  \* the longest Gitlab owner path
  MaxRepo,   \* the longest repository name
  Nil        \* model value: a nil pointer

Slash == "/"

\* GitlabSource (Owner and Repo; the other fields are not read here).
GitlabSource == [Owner: SeqOf(Chars \cup {Slash}, MaxOwner), Repo: SeqOf(Chars, MaxRepo)]

\* GithubSource, GitlabSource and BitbucketServerSource as GetGitURL reads
\* them: an owner and a repository of one character each, which is enough
\* to tell two sources apart.
RepoSource == {[Owner |-> <<c>>, Repo |-> <<c>>] : c \in Chars}

\* MultiBranchPipeline: its SourceType and the sources it may hold.  A
\* pipeline edited from one source type to another keeps the old source.
SourceTypes == {"git", "github", "gitlab", "bitbucket_server", "svn", "single_svn"}
MultiBranchPipeline ==
  [SourceType: SourceTypes,
   GitSource: {Nil} \cup {[Url |-> <<c>>] : c \in Chars},
   GitHubSource: {Nil} \cup RepoSource,
   GitlabSource: {Nil} \cup RepoSource,
   BitbucketServerSource: {Nil} \cup RepoSource]

VARIABLES
  pipeline,  \* the MultiBranchPipeline of the last GetGitURL call, or Nil
  gitURL,    \* what it returned
  gitlab,    \* the GitlabSource of the last project path round trip, or Nil
  path,      \* its Jenkins project path
  restored   \* the source SetRepoFromJenkinsProjectPath filled from the path

vars == <<pipeline, gitURL, gitlab, path, restored>>

-----------------------------------------------------------------------------
(* The code.                                                               *)

\* fmt.Sprintf("https://<host>/%s/%s", owner, repo)
RepoURL(host, s) == <<host, Slash>> \o s.Owner \o <<Slash>> \o s.Repo

GetGitURL(b) ==
  CASE b.SourceType = "git" /\ b.GitSource /= Nil -> b.GitSource.Url
    [] b.SourceType = "github" /\ b.GitHubSource /= Nil ->
         RepoURL("https://github.com", b.GitHubSource)
    [] b.SourceType = "gitlab" /\ b.GitlabSource /= Nil ->
         RepoURL("https://gitlab.com", b.GitlabSource)
    [] b.SourceType = "bitbucket_server" /\ b.BitbucketServerSource /= Nil ->
         RepoURL("https://bitbucket.org", b.BitbucketServerSource)
    [] OTHER -> << >>

GetJenkinsProjectPath(s) == s.Owner \o <<Slash>> \o s.Repo

\* strings.Split(path, "/"): the parts between the slashes, the whole path
\* when it holds none.
RECURSIVE Split(_)
Split(str) ==
  LET i == SelectInSeq(str, LAMBDA c : c = Slash) IN
  IF i = 0 THEN <<str>>
  ELSE <<SubSeq(str, 1, i - 1)>> \o Split(SubSeq(str, i + 1, Len(str)))

\* A plausible bug: the path taken as "owner/repo", the repo as the second
\* part.
SetRepoFromSecondPart(s, p) ==
  LET parts == Split(p) IN
  IF Len(parts) > 1 THEN [s EXCEPT !.Repo = parts[2]] ELSE s

SetRepoFromJenkinsProjectPath(s, p) ==
  LET parts == Split(p) IN
  IF Len(parts) > 0 THEN [s EXCEPT !.Repo = Last(parts)] ELSE s

-----------------------------------------------------------------------------
(* Calls.  The helpers share nothing, so a call to one finds the other    *)
(* with no result.                                                         *)

URLIdle == pipeline' = Nil /\ gitURL' = << >>
PathIdle == gitlab' = Nil /\ path' = << >> /\ restored' = Nil

GitURL(b) ==
  /\ pipeline' = b
  /\ gitURL' = GetGitURL(b)
  /\ PathIdle

\* The path of a source, read back into a source of the same owner whose
\* repository is not known yet.
ProjectPathRoundTrip(s) ==
  /\ gitlab' = s
  /\ path' = GetJenkinsProjectPath(s)
  /\ restored' = SetRepoFromJenkinsProjectPath([s EXCEPT !.Repo = << >>], path')
  /\ URLIdle

Init ==
  /\ pipeline = Nil /\ gitURL = << >>
  /\ gitlab = Nil /\ path = << >> /\ restored = Nil

Next ==
  \/ \E b \in MultiBranchPipeline : GitURL(b)
  \/ \E s \in GitlabSource : ProjectPathRoundTrip(s)

Spec == Init /\ [][Next]_vars

-----------------------------------------------------------------------------
(* Properties.                                                             *)

TypeOK ==
  /\ pipeline \in MultiBranchPipeline \cup {Nil}
  /\ gitlab \in GitlabSource \cup {Nil}
  /\ restored \in GitlabSource \cup {Nil}

\* SetRepoFromJenkinsProjectPath gives back the repository that
\* GetJenkinsProjectPath wrote, for an owner in a subgroup ("a/b") too.
RepoSurvivesProjectPath == gitlab /= Nil => restored = gitlab

=============================================================================
