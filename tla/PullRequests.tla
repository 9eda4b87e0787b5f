------------------------------ MODULE PullRequests ------------------------------
(***************************************************************************)
(* The commands of a pipeline on its pull request (pkg/cmd/pr): comment,   *)
(* label, push and variables.                                              *)
(*                                                                         *)
(* Each looks at the pull request first and acts then.  Several pipelines  *)
(* of the pull request run at the same time, people change it meanwhile,   *)
(* calls to the git server fail, and pipelines are run again.              *)
(***************************************************************************)
EXTENDS Naturals, Sequences, SequencesExt, FiniteSetsExt

CONSTANTS
  Nil,          \* no name, no value, nobody
  Pipelines,    \* the commands that run together, and their options
  Bot,          \* the user that the pipelines are
  PageSize,     \* the comments of a page
  People,       \* what people comment: <<name, value>>, an assignment, or <<Nil, text>>
  Sanitized(_), \* sanitizeLabelName: Nil if nothing is left
  MatchesLabel(_), \* the regular expression of --matches
  MaxEvents,    \* bound on what people do
  MaxFailures   \* bound on calls that fail and on commands that are run again

VARIABLES
  commands, \* those of the pipelines, with their options
  comments, \* of the pull request: id, author, body, and the pipeline it is from (a history)
  history,  \* whether the comments were ever more than a page, and the pipelines that have deleted
            \* comments and not added theirs since
  labels,   \* of the pull request
  branches, \* the commits of its branch and of its base
  env,      \* the file of pr variables: blocks, the newest first
  proc,     \* the commands: where they are and what they have seen
  events, failures, ids

vars == <<commands, comments, history, labels, branches, env, proc, events, failures, ids>>

(* Of a command: the comments to delete; those it has read, the ones there *)
(* were when it started and the next page; the commits or the labels it    *)
(* has, those that were cloned and those that the remote branch has as far *)
(* as is known.                                                            *)
Idle == [pc |-> "idle", todo |-> {}, read |-> <<>>, since |-> {}, page |-> 1, local |-> {}, cloned |-> {}, lease |-> {}]

Init ==
  /\ commands \in Pipelines
  /\ comments = <<>> /\ history = [crowded |-> FALSE, replacing |-> {}]
  /\ labels = {}
  /\ branches = [pr |-> {0}, base |-> {}]
  /\ env = [c \in DOMAIN commands |-> <<>>]
  /\ proc = [c \in DOMAIN commands |-> Idle]
  /\ events = 0 /\ failures = 0 /\ ids = 1

Is(c, kind) == commands[c].kind = kind
At(c, pc) == proc[c].pc = pc
Goto(c, pc) == proc' = [proc EXCEPT ![c].pc = pc]
Own(c, comment) == comment.by = Bot /\ comment.body = commands[c].body

AddComment(author, body, pipeline) ==
  /\ comments' = Append(comments, [id |-> ids, by |-> author, body |-> body, from |-> pipeline])
  /\ history' = [crowded |-> history.crowded \/ Len(comments) >= PageSize, replacing |-> history.replacing \ {pipeline}]
  /\ ids' = ids + 1

(* A call to the git server that fails ends the command; it may be run     *)
(* again.  The answer of one that succeeded can be lost, too.              *)
Fail(c) ==
  /\ proc[c].pc \notin {"idle", "done", "failed"} /\ failures < MaxFailures
  /\ failures' = failures + 1
  /\ Goto(c, "failed")
  /\ UNCHANGED <<commands, comments, history, labels, branches, env, events, ids>>

Answered(c, pc) ==
  \/ Goto(c, pc) /\ UNCHANGED failures
  \/ failures < MaxFailures /\ failures' = failures + 1 /\ Goto(c, "failed")

Rerun(c) ==
  /\ proc[c].pc \in {"done", "failed"} /\ failures < MaxFailures
  /\ failures' = failures + 1
  /\ proc' = [proc EXCEPT ![c] = Idle]
  /\ UNCHANGED <<commands, comments, history, labels, branches, env, events, ids>>

-----------------------------------------------------------------------------
(* People                                                                  *)

Event == events < MaxEvents /\ events' = events + 1 /\ UNCHANGED <<commands, env, proc, failures>>

Write(body) ==
  /\ Event
  /\ AddComment("someone", body, Nil)
  /\ UNCHANGED <<labels, branches>>

SetLabel(l) ==
  /\ Event /\ labels' \in {labels \cup {l}, labels \ {l}}
  /\ UNCHANGED <<comments, history, branches, ids>>

PushCommit(b) ==
  /\ Event /\ branches' = [branches EXCEPT ![b] = @ \cup {ids}] /\ ids' = ids + 1
  /\ UNCHANGED <<comments, history, labels>>

-----------------------------------------------------------------------------
(* pr comment                                                              *)

Page(n) == SubSeq(comments, (n - 1) * PageSize + 1, IF n * PageSize < Len(comments) THEN n * PageSize ELSE Len(comments))

(* Mutant of Similar: takes the comment of anybody.                        *)
SimilarOfAnybody(c, list) == {x.id : x \in {y \in Range(list) : y.body = commands[c].body}}

Similar(c, list) == {x.id : x \in {y \in Range(list) : Own(c, y)}}

(* Run, commentPullRequestWithStrategy and list: the first page of the     *)
(* comments.                                                               *)
Comment(c) ==
  /\ Is(c, "comment") /\ At(c, "idle")
  /\ LET similar == IF commands[c].strategy \in {"create-if-not-exists", "delete-and-create"} THEN Similar(c, Page(1)) ELSE {}
     IN proc' = [proc EXCEPT
          ![c].todo = similar,
          ![c].pc = IF similar = {} THEN "create" ELSE IF commands[c].strategy = "create-if-not-exists" THEN "done" ELSE "delete"]
  /\ UNCHANGED <<commands, comments, history, labels, branches, env, events, failures, ids>>

(* delete, the oldest first: that it is gone already is an error.          *)
DeleteComment(c) ==
  /\ At(c, "delete")
  /\ LET id == Min(proc[c].todo)
     IN \/ /\ \E k \in DOMAIN comments : comments[k].id = id /\ comments' = RemoveAt(comments, k)
           /\ proc' = [proc EXCEPT ![c].todo = @ \ {id}, ![c].pc = IF proc[c].todo = {id} THEN "create" ELSE "delete"]
           /\ history' = [history EXCEPT !.replacing = @ \cup {c}]
        \/ /\ \A k \in DOMAIN comments : comments[k].id # id
           /\ Goto(c, "failed") /\ UNCHANGED <<comments, history>>
  /\ UNCHANGED <<commands, labels, branches, env, events, failures, ids>>

CreateComment(c) ==
  /\ At(c, "create")
  /\ AddComment(Bot, commands[c].body, c)
  /\ Answered(c, "done")
  /\ UNCHANGED <<commands, labels, branches, env, events>>

-----------------------------------------------------------------------------
(* pr label                                                                *)

Label(c) ==
  /\ Is(c, "label") /\ At(c, "idle")
  /\ Goto(c, IF commands[c].label \in labels \/ (commands[c].matching /\ ~ \E l \in labels : MatchesLabel(l))
             THEN "done" ELSE "label")
  /\ UNCHANGED <<commands, comments, history, labels, branches, env, events, failures, ids>>

AddLabel(c) ==
  /\ At(c, "label")
  /\ labels' = labels \cup {commands[c].label}
  /\ Answered(c, "done")
  /\ UNCHANGED <<commands, comments, history, branches, env, events, ids>>

-----------------------------------------------------------------------------
(* pr push                                                                 *)

(* The workspace has a commit of its own on top of the branch as it was    *)
(* cloned, or in place of it, when history was rewritten.  The remote      *)
(* branch is tracked, or it is not.                                        *)
Clone(c) ==
  /\ Is(c, "push") /\ At(c, "idle")
  /\ \E rewritten, tracked \in BOOLEAN :
       LET remote == branches.pr \cup branches.base
       IN proc' = [proc EXCEPT
            ![c].pc = "push", ![c].cloned = remote,
            ![c].local = {ids} \cup IF rewritten THEN {} ELSE remote,
            ![c].lease = IF tracked THEN {branches.pr} ELSE {}]
  /\ ids' = ids + 1
  /\ UNCHANGED <<commands, comments, history, labels, branches, env, events, failures>>

(* Mutant of Accepts: with --force.                                        *)
AcceptsForced(c, b) == commands[c].force \/ branches[b] \subseteq proc[c].local

(* git push, --force-with-lease when forced                                *)
Accepts(c, b) ==
  branches[b] \subseteq proc[c].local \/ (b = "pr" /\ commands[c].force /\ branches[b] \in proc[c].lease)

(* Without a pull request the current branch is pushed, never by force.    *)
Push(c) ==
  /\ At(c, "push")
  /\ \E b \in IF commands[c].ignoreMissing THEN {"pr", "base"} ELSE {"pr"} :
       IF Accepts(c, b) THEN branches' = [branches EXCEPT ![b] = proc[c].local] /\ Answered(c, "done")
       ELSE UNCHANGED <<branches, failures>> /\ Goto(c, "failed")
  /\ UNCHANGED <<commands, comments, history, labels, env, events, ids>>

-----------------------------------------------------------------------------
(* pr variables                                                            *)

CommentIds == {x.id : x \in Range(comments)}

(* The pull request as it is discovered: its labels.                       *)
Discover(c) ==
  /\ Is(c, "variables") /\ At(c, "idle")
  /\ proc' = [proc EXCEPT ![c].pc = "page", ![c].local = labels, ![c].since = CommentIds]
  /\ UNCHANGED <<commands, comments, history, labels, branches, env, events, failures, ids>>

(* Mutant of LastPage: the pages are counted from 0.                           *)
LastPageBefore == (Len(comments) + PageSize - 1) \div PageSize - 1

(* The last page, as the response says.                                    *)
LastPage == (Len(comments) + PageSize - 1) \div PageSize

(* loadPRComments: one page.                                               *)
loadPRComments(c) ==
  /\ At(c, "page")
  /\ proc' = [proc EXCEPT ![c].read = @ \o Page(proc[c].page), ![c].page = @ + 1,
                          ![c].pc = IF proc[c].page + 1 <= LastPage THEN "page" ELSE "write"]
  /\ UNCHANGED <<commands, comments, history, labels, branches, env, events, failures, ids>>

(* parseComments: the last value of a name                                 *)
Parsed(list, name) ==
  LET mine == {k \in DOMAIN list : list[k].body[1] = name} IN IF mine = {} THEN Nil ELSE list[Max(mine)].body[2]

Names == {t[1] : t \in People} \ {Nil}

(* displayPullRequest and modifyVariables: what the file has comes after.  *)
WriteVariables(c) ==
  /\ At(c, "write")
  /\ env' = [env EXCEPT ![c] = <<[labels |-> {Sanitized(l) : l \in proc[c].local} \ {Nil},
                                  values |-> [n \in Names |-> Parsed(proc[c].read, n)]]>> \o @]
  /\ Goto(c, "done")
  /\ UNCHANGED <<commands, comments, history, labels, branches, events, failures, ids>>

RunNext(c) ==
  \/ Comment(c) \/ DeleteComment(c) \/ CreateComment(c)
  \/ Label(c) \/ AddLabel(c)
  \/ Clone(c) \/ Push(c)
  \/ Discover(c) \/ loadPRComments(c) \/ WriteVariables(c)
  \/ Fail(c) \/ Rerun(c)

Some(kinds) == \E c \in DOMAIN commands : commands[c].kind \in kinds

(* People do what some of the commands looks at.                           *)
Next ==
  \/ Some({"comment", "variables"}) /\ \E body \in People : Write(body)
  \/ Some({"label", "variables"}) /\ \E l \in {"deployed", "ready"} : SetLabel(l)
  \/ Some({"push"}) /\ \E b \in DOMAIN branches : PushCommit(b)
  \/ \E c \in DOMAIN commands : RunNext(c)

Spec == Init /\ [][Next]_vars

-----------------------------------------------------------------------------
(* Properties.                                                             *)

Comments(c) == {k \in DOMAIN comments : Own(c, comments[k])}
Posting(c) == {d \in DOMAIN commands : Is(d, "comment") /\ commands[d].body = commands[c].body}

(* Calls that fail, answers that are lost and pipelines that overlap or    *)
(* run again notwithstanding: as long as the comments fit on the page that *)
(* is listed, a pipeline has one comment at most, unless its strategy is   *)
(* to add one each time.  However many there are, the comment of one that  *)
(* ended well is shown, unless another pipeline is replacing it.           *)
CommentedOnce ==
  ~ history.crowded => \A j, k \in DOMAIN comments :
    comments[j].from = comments[k].from /\ comments[k].from # Nil /\ commands[comments[k].from].strategy # "create" => j = k

Shown ==
  \A c \in DOMAIN commands :
    Is(c, "comment") /\ At(c, "done") =>
      \/ Comments(c) # {}
      \/ \E d \in Posting(c) : d \in history.replacing

Commented == CommentedOnce /\ Shown

(* No push drops a commit that the workspace has not seen, whatever was    *)
(* pushed since it was cloned and however its history was rewritten.       *)
KeepsUnseen ==
  \A b \in DOMAIN branches : branches[b] \ branches'[b] \subseteq
    UNION {proc[c].cloned : c \in {d \in DOMAIN commands : At(d, "push") /\ proc'[d] # proc[d]}}

PushKeepsUnseen == [][KeepsUnseen]_vars

(* What pr variables writes takes account of every comment that was there  *)
(* when it started, if none of them was deleted meanwhile: the value of a  *)
(* name is that of a comment with no other one for it after it.            *)
ReadsComments ==
  \A c \in DOMAIN commands :
    env'[c] # env[c] /\ proc[c].since \subseteq CommentIds =>
      \A n \in Names :
        LET before == {k \in DOMAIN comments : comments[k].body[1] = n /\ comments[k].id \in proc[c].since}
        IN before # {} =>
             \E k \in DOMAIN comments :
               /\ comments[k].body = <<n, env'[c][1].values[n]>>
               /\ \A j \in before : j <= k

CommentsRead == [][ReadsComments]_vars
=============================================================================
