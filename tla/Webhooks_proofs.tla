--------------------------- MODULE Webhooks_proofs ---------------------------
(* Theorems about the webhooks of SourceRepositories, for any repositories, *)
(* hooks and servers, any number of faults and any executions: what the git *)
(* server has after updates that fail, are killed (WebhookUpdate) and       *)
(* overlap (its instance O).                                                *)
EXTENDS MCWebhooks, FiniteSetTheorems, FunctionTheorems, SequenceTheorems, TLAPS

-----------------------------------------------------------------------------
(* Types.                                                                  *)

Annotations == [status : {"none", "creating", "failed", "true"}, error : BOOLEAN]

RunRecord ==
  [pc : {"idle", "next", "creating", "list", "delete", "failed", "created"},
   todo : Seq(Repos), skip : SUBSET Repos, listed : SUBSET Hook, hmac : BOOLEAN]

(* An execution at work has a repository to work on.                       *)
WellFormed(x) == x \in RunRecord /\ (x.pc # "idle" => x.todo # <<>>)

Busy == \A u \in Updaters : WellFormed(run[u])

LEMMA IdleWellFormed == WellFormed(Idle)
  BY DEF WellFormed, RunRecord, Idle

(* The repository an execution works on.                                   *)
LEMMA RepoIsOne ==
  ASSUME Busy, NEW u \in Updaters, run[u].pc # "idle"
  PROVE  Repo(u) \in Repos
  BY DEF Busy, WellFormed, RunRecord, Repo

(* After a repository comes the next one or the end.                       *)
LEMMA ProceedProperties ==
  ASSUME Busy, NEW u \in Updaters, run[u].pc # "idle"
  PROVE  WellFormed(Proceed(u)) /\ Proceed(u).pc \in {"idle", "next"}
  <1>1. run[u] \in RunRecord /\ run[u].todo \in Seq(Repos) /\ run[u].todo # <<>>
    BY DEF Busy, WellFormed, RunRecord
  <1>2. CASE Len(run[u].todo) = 1
    BY <1>2, IdleWellFormed DEF Proceed, Idle
  <1>3. CASE Len(run[u].todo) # 1
    <2>1. Proceed(u) = [run[u] EXCEPT !.pc = "next", !.todo = Tail(@), !.listed = {}]
      BY <1>3 DEF Proceed
    <2>2. Tail(run[u].todo) \in Seq(Repos) /\ Len(Tail(run[u].todo)) = Len(run[u].todo) - 1
      BY <1>1
    <2>3. Len(run[u].todo) \in Nat /\ Len(run[u].todo) # 0
      BY <1>1
    <2>4. Tail(run[u].todo) # <<>>
      <3>1. Len(Tail(run[u].todo)) # 0
        BY <1>3, <2>2, <2>3
      <3>2. Len(<<>>) = 0
        OBVIOUS
      <3> QED BY <3>1, <3>2, Zenon
    <2> QED BY <1>1, <2>1, <2>2, <2>4 DEF WellFormed, RunRecord
  <1> QED BY <1>2, <1>3

LEMMA GiveUpProperties ==
  ASSUME Busy, NEW u \in Updaters, run[u].pc # "idle"
  PROVE  WellFormed(GiveUp(u)) /\ GiveUp(u).pc \in {"idle", "next"}
  BY ProceedProperties, IdleWellFormed DEF GiveUp, Idle

(* A step of one execution.                                                *)
LEMMA RunStep ==
  ASSUME TypeOK, Busy, NEW u \in Updaters, NEW x, WellFormed(x), run' = [run EXCEPT ![u] = x]
  PROVE  run' \in [Updaters -> RunRecord] /\ Busy'
  <1>1. run \in [Updaters -> RunRecord]
    BY DEF TypeOK, RunRecord
  <1>2. x \in RunRecord
    BY DEF WellFormed
  <1>3. \A v \in Updaters : run'[v] = IF v = u THEN x ELSE run[v]
    BY <1>1
  <1>4. \A v \in Updaters : WellFormed(run'[v])
    BY <1>3 DEF Busy
  <1>5. run' \in [Updaters -> RunRecord]
    BY <1>1, <1>2
  <1> QED BY <1>4, <1>5 DEF Busy, WellFormed, RunRecord

(* A failing call counts.                                                  *)
LEMMA FailsProperties ==
  ASSUME TypeOK, NEW kind, Fails(kind)
  PROVE  faults' \in 0 .. MaxFaults /\ kind \in FaultKinds
  BY WebhookUpdateAssumption DEF TypeOK, Fails

(* What annotate can do.                                                   *)
LEMMA AnnotateProperties ==
  ASSUME TypeOK, NEW u \in Updaters, Repo(u) \in Repos, NEW a \in Annotations, Annotate(u, a)
  PROVE  /\ sr' \in [Repos -> Annotations]
         /\ current' \in [Updaters -> SUBSET Repos]
         /\ faults' \in 0 .. MaxFaults
         /\ sr' \in {sr, [sr EXCEPT ![Repo(u)] = a]}
         /\ "api" \notin FaultKinds /\ Repo(u) \in current[u]
              => sr' = [sr EXCEPT ![Repo(u)] = a] /\ current'[u] = current[u]
  <1>1. sr \in [Repos -> Annotations] /\ current \in [Updaters -> SUBSET Repos] /\ faults \in 0 .. MaxFaults
    BY DEF TypeOK, Annotations
  <1>2. [sr EXCEPT ![Repo(u)] = a] \in [Repos -> Annotations]
    BY <1>1
  <1>3. CASE /\ Repo(u) \in current[u] /\ sr' = [sr EXCEPT ![Repo(u)] = a]
             /\ current' = [v \in Updaters |-> IF v = u THEN current[v] ELSE current[v] \ {Repo(u)}]
             /\ UNCHANGED faults
    BY <1>1, <1>2, <1>3
  <1>4. CASE Repo(u) \notin current[u] /\ UNCHANGED <<sr, current, faults>>
    BY <1>1, <1>4
  <1>5. CASE /\ Fails("api")
             /\ \/ /\ sr' = [sr EXCEPT ![Repo(u)] = a]
                   /\ current' = [v \in Updaters |-> current[v] \ {Repo(u)}]
                \/ /\ current' = [current EXCEPT ![u] = @ \ {Repo(u)}]
                   /\ UNCHANGED sr
    BY <1>1, <1>2, <1>5, FailsProperties
  <1> QED BY <1>3, <1>4, <1>5 DEF Annotate

TypeInv == TypeOK /\ Busy

LEMMA InitTypeInv == Init => TypeInv
  <1> SUFFICES ASSUME Init PROVE TypeInv
    OBVIOUS
  <1>1. PICK old \in [Repos -> SUBSET Targets] : hooks = [r \in Repos |-> {OldHook(r, t) : t \in old[r]}]
    BY DEF Init
  <1>2. \A r \in Repos, t \in Targets : OldHook(r, t) \in Hook
    BY Zenon DEF OldHook, Hook
  <1>3. hooks \in [Repos -> SUBSET Hook]
    BY <1>1, <1>2
  <1>4. WellFormed(Idle) /\ Idle \in RunRecord
    BY IdleWellFormed DEF WellFormed
  <1>5. run \in [Updaters -> RunRecord] /\ Busy
    BY <1>4 DEF Init, Busy
  <1>6. sr \in [Repos -> Annotations] /\ current \in [Updaters -> SUBSET Repos] /\ faults \in 0 .. MaxFaults /\ missed \subseteq Repos
    BY WebhookUpdateAssumption DEF Init, Annotations
  <1> QED BY <1>3, <1>5, <1>6 DEF TypeInv, TypeOK, RunRecord, Annotations

(* The fields of an execution, one by one.                                 *)
LEMMA SetField ==
  ASSUME TypeInv, NEW u \in Updaters
  PROVE  /\ run[u] \in RunRecord /\ run \in [Updaters -> RunRecord]
         /\ run[u].pc # "idle" =>
              /\ \A c \in {"list", "creating", "delete", "failed", "created"}, s \in SUBSET Hook, b \in BOOLEAN :
                   /\ WellFormed([run[u] EXCEPT !.pc = c])
                   /\ WellFormed([run[u] EXCEPT !.listed = s])
                   /\ WellFormed([run[u] EXCEPT !.pc = c, !.listed = s])
                   /\ WellFormed([run[u] EXCEPT !.pc = c, !.hmac = b])
              /\ \A b \in BOOLEAN :
                   /\ WellFormed([Proceed(u) EXCEPT !.hmac = b])
                   /\ WellFormed([GiveUp(u) EXCEPT !.hmac = b])
  <1>1. run[u] \in RunRecord /\ run \in [Updaters -> RunRecord]
    BY DEF TypeInv, Busy, WellFormed, TypeOK, RunRecord
  <1>2. run[u].pc # "idle" => run[u].todo # <<>>
    BY DEF TypeInv, Busy, WellFormed
  <1>3. run[u].pc # "idle" => WellFormed(Proceed(u)) /\ WellFormed(GiveUp(u))
    BY ProceedProperties, GiveUpProperties DEF TypeInv
  <1>4. ASSUME run[u].pc # "idle", NEW c \in {"list", "creating", "delete", "failed", "created"},
               NEW s \in SUBSET Hook, NEW b \in BOOLEAN
        PROVE  /\ WellFormed([run[u] EXCEPT !.pc = c])
               /\ WellFormed([run[u] EXCEPT !.listed = s])
               /\ WellFormed([run[u] EXCEPT !.pc = c, !.listed = s])
               /\ WellFormed([run[u] EXCEPT !.pc = c, !.hmac = b])
    <2>1. WellFormed([run[u] EXCEPT !.pc = c])
      BY <1>1, <1>2, <1>4 DEF WellFormed, RunRecord
    <2>2. WellFormed([run[u] EXCEPT !.listed = s])
      BY <1>1, <1>2, <1>4 DEF WellFormed, RunRecord
    <2>3. WellFormed([run[u] EXCEPT !.pc = c, !.listed = s])
      BY <1>1, <1>2, <1>4 DEF WellFormed, RunRecord
    <2>4. WellFormed([run[u] EXCEPT !.pc = c, !.hmac = b])
      BY <1>1, <1>2, <1>4 DEF WellFormed, RunRecord
    <2> QED BY <2>1, <2>2, <2>3, <2>4
  <1>5. run[u].pc # "idle" =>
          \A b \in BOOLEAN : /\ WellFormed([Proceed(u) EXCEPT !.hmac = b])
                            /\ WellFormed([GiveUp(u) EXCEPT !.hmac = b])
    <2> SUFFICES ASSUME run[u].pc # "idle", NEW b \in BOOLEAN
                 PROVE  /\ WellFormed([Proceed(u) EXCEPT !.hmac = b])
                        /\ WellFormed([GiveUp(u) EXCEPT !.hmac = b])
      OBVIOUS
    <2>1. WellFormed([Proceed(u) EXCEPT !.hmac = b])
      BY <1>3 DEF WellFormed, RunRecord
    <2>2. WellFormed([GiveUp(u) EXCEPT !.hmac = b])
      BY <1>3 DEF WellFormed, RunRecord
    <2> QED BY <2>1, <2>2
  <1> QED BY <1>1, <1>4, <1>5, Zenon

LEMMA StartTypeInv ==
  ASSUME TypeInv, NEW u \in Updaters, Start(u)
  PROVE  TypeInv'
  <1>1. PICK skip \in SUBSET Repos :
          run' = [run EXCEPT ![u] = [Idle EXCEPT !.pc = "next", !.todo = RepoOrder, !.skip = skip]]
    BY DEF Start
  <1>2. WellFormed([Idle EXCEPT !.pc = "next", !.todo = RepoOrder, !.skip = skip])
    BY WebhookUpdateAssumption DEF Start, WellFormed, RunRecord, Idle
  <1>3. run' \in [Updaters -> RunRecord] /\ Busy'
    BY <1>1, <1>2, RunStep DEF TypeInv
  <1> QED BY <1>3 DEF Start, TypeInv, TypeOK, RunRecord

LEMMA BeginTypeInv ==
  ASSUME TypeInv, NEW u \in Updaters, Begin(u)
  PROVE  TypeInv'
  <1>1. run[u].pc # "idle"
    BY DEF Begin
  <1>2. run[u].hmac \in BOOLEAN
    BY SetField DEF RunRecord
  <1> DEFINE hmac == run[u].hmac \/ Repo(u) \notin BitbucketCloud
  <1>3. hmac \in BOOLEAN
    BY <1>2, Zenon
  <1>4. \/ run' = [run EXCEPT ![u] = Proceed(u)]
        \/ run' = [run EXCEPT ![u] = [Proceed(u) EXCEPT !.hmac = hmac]]
        \/ run' = [run EXCEPT ![u] = [GiveUp(u) EXCEPT !.hmac = hmac]]
        \/ run' = [run EXCEPT ![u] = [run[u] EXCEPT !.pc = "creating", !.hmac = hmac]]
    BY DEF Begin
  <1> HIDE DEF hmac
  <1>5. /\ WellFormed(Proceed(u)) /\ WellFormed([Proceed(u) EXCEPT !.hmac = hmac])
        /\ WellFormed([GiveUp(u) EXCEPT !.hmac = hmac])
        /\ WellFormed([run[u] EXCEPT !.pc = "creating", !.hmac = hmac])
    BY <1>1, <1>3, SetField, ProceedProperties DEF TypeInv
  <1>6. run' \in [Updaters -> RunRecord] /\ Busy'
    BY <1>4, <1>5, RunStep DEF TypeInv
  <1> QED BY <1>6 DEF Begin, TypeInv, TypeOK, RunRecord

LEMMA MarkTypeInv ==
  ASSUME TypeInv, NEW u \in Updaters, MarkCreating(u) \/ MarkFailed(u) \/ MarkTrue(u)
  PROVE  TypeInv'
  <1>1. run[u].pc # "idle" /\ UNCHANGED <<hooks, missed>>
    BY DEF MarkCreating, MarkFailed, MarkTrue
  <1>2. Repo(u) \in Repos /\ sr \in [Repos -> Annotations]
    BY <1>1, RepoIsOne DEF TypeInv, TypeOK, Annotations
  <1>3. PICK a \in Annotations : Annotate(u, a)
    <2>1. /\ [sr[Repo(u)] EXCEPT !.status = "creating"] \in Annotations
          /\ [sr[Repo(u)] EXCEPT !.status = "true"] \in Annotations
          /\ [status |-> "failed", error |-> TRUE] \in Annotations
      BY <1>2 DEF Annotations
    <2> QED BY <2>1 DEF MarkCreating, MarkFailed, MarkTrue
  <1>4. sr' \in [Repos -> Annotations] /\ current' \in [Updaters -> SUBSET Repos] /\ faults' \in 0 .. MaxFaults
    BY <1>2, <1>3, AnnotateProperties DEF TypeInv
  <1>5. PICK x : WellFormed(x) /\ run' = [run EXCEPT ![u] = x]
    <2>1. \/ run' = [run EXCEPT ![u] = [run[u] EXCEPT !.pc = "list"]]
          \/ run' = [run EXCEPT ![u] = GiveUp(u)]
          \/ run' = [run EXCEPT ![u] = Proceed(u)]
      BY DEF MarkCreating, MarkFailed, MarkTrue
    <2>2. WellFormed([run[u] EXCEPT !.pc = "list"]) /\ WellFormed(GiveUp(u)) /\ WellFormed(Proceed(u))
      BY <1>1, SetField, ProceedProperties, GiveUpProperties DEF TypeInv
    <2> QED BY <2>1, <2>2
  <1>6. run' \in [Updaters -> RunRecord] /\ Busy'
    BY <1>5, RunStep DEF TypeInv
  <1> QED BY <1>1, <1>4, <1>6 DEF TypeInv, TypeOK, RunRecord, Annotations

LEMMA ListTypeInv ==
  ASSUME TypeInv, NEW u \in Updaters, ListHooks(u)
  PROVE  TypeInv'
  <1>1. run[u].pc # "idle" /\ UNCHANGED <<hooks, sr, current>>
    BY DEF ListHooks
  <1>2. hooks[Repo(u)] \in SUBSET Hook
    BY <1>1, RepoIsOne DEF TypeInv, TypeOK
  <1>3. PICK s \in SUBSET Hook : run' = [run EXCEPT ![u] = [run[u] EXCEPT !.pc = "delete", !.listed = s]]
    <2>1. {h \in hooks[Repo(u)] : h.target \in Matching} \in SUBSET Hook
      BY <1>2
    <2>2. \E s \in SUBSET Hook : run' = [run EXCEPT ![u].pc = "delete", ![u].listed = s]
      BY <2>1 DEF ListHooks
    <2> QED BY <2>2, SetField
  <1>4. WellFormed([run[u] EXCEPT !.pc = "delete", !.listed = s])
    BY <1>1, SetField
  <1>5. run' \in [Updaters -> RunRecord] /\ Busy'
    BY <1>3, <1>4, RunStep DEF TypeInv
  <1>6. faults' \in 0 .. MaxFaults
    BY FailsProperties DEF ListHooks, TypeInv, TypeOK
  <1>7. missed' \subseteq Repos
    BY <1>1, RepoIsOne DEF ListHooks, TypeInv, TypeOK
  <1> QED BY <1>1, <1>5, <1>6, <1>7 DEF TypeInv, TypeOK, RunRecord

LEMMA DeleteTypeInv ==
  ASSUME TypeInv, NEW u \in Updaters, DeleteHook(u)
  PROVE  TypeInv'
  <1>1. run[u].pc # "idle" /\ UNCHANGED <<sr, current, missed>> /\ run[u] \in RunRecord
    BY SetField DEF DeleteHook
  <1>2. PICK h \in run[u].listed :
          /\ hooks' \in {hooks, [hooks EXCEPT ![Repo(u)] = @ \ {h}]}
          /\ \/ run' = [run EXCEPT ![u].listed = @ \ {h}]
             \/ run' = [run EXCEPT ![u].pc = "failed"]
    BY DEF DeleteHook
  <1>3. hooks' \in [Repos -> SUBSET Hook]
    <2>1. Repo(u) \in Repos /\ hooks \in [Repos -> SUBSET Hook]
      BY <1>1, RepoIsOne DEF TypeInv, TypeOK
    <2>2. hooks[Repo(u)] \ {h} \in SUBSET Hook
      BY <2>1
    <2>3. [hooks EXCEPT ![Repo(u)] = @ \ {h}] \in [Repos -> SUBSET Hook]
      BY <2>1, <2>2
    <2> QED BY <1>2, <2>1, <2>3
  <1>4. PICK x : WellFormed(x) /\ run' = [run EXCEPT ![u] = x]
    <2>1. run[u].listed \ {h} \in SUBSET Hook
      BY <1>1 DEF RunRecord
    <2>2. \/ run' = [run EXCEPT ![u] = [run[u] EXCEPT !.listed = run[u].listed \ {h}]]
          \/ run' = [run EXCEPT ![u] = [run[u] EXCEPT !.pc = "failed"]]
      BY <1>2, SetField
    <2>3. /\ WellFormed([run[u] EXCEPT !.listed = run[u].listed \ {h}])
          /\ WellFormed([run[u] EXCEPT !.pc = "failed"])
      BY <1>1, <2>1, SetField
    <2> QED BY <2>2, <2>3
  <1>5. run' \in [Updaters -> RunRecord] /\ Busy'
    BY <1>4, RunStep DEF TypeInv
  <1>6. faults' \in 0 .. MaxFaults
    BY FailsProperties DEF DeleteHook, TypeInv, TypeOK
  <1> QED BY <1>1, <1>3, <1>5, <1>6 DEF TypeInv, TypeOK, RunRecord

(* The hook that CreateHook makes.                                         *)
NewHook(u) == [id |-> CHOOSE i \in FreshIds : TRUE, target |-> Endpoint, signed |-> run[u].hmac]

LEMMA NewHookProperties ==
  ASSUME TypeInv, NEW u \in Updaters, FreshIds # {}
  PROVE  NewHook(u) \in Hook /\ NewHook(u).target = Endpoint
  <1>1. run[u].hmac \in BOOLEAN
    BY SetField DEF RunRecord
  <1>2. (CHOOSE i \in FreshIds : TRUE) \in HookIds
    BY DEF FreshIds
  <1> QED BY <1>1, <1>2, WebhookUpdateAssumption DEF NewHook, Hook

LEMMA CreateTypeInv ==
  ASSUME TypeInv, NEW u \in Updaters, CreateHook(u)
  PROVE  TypeInv'
  <1>1. run[u].pc # "idle" /\ UNCHANGED <<sr, current, missed>>
    BY DEF CreateHook
  <1>2. hooks' \in {hooks, [hooks EXCEPT ![Repo(u)] = @ \cup {NewHook(u)}]}
    BY DEF CreateHook, NewHook
  <1>3. NewHook(u) \in Hook
    BY NewHookProperties DEF CreateHook
  <1>4. hooks' \in [Repos -> SUBSET Hook]
    BY <1>1, <1>2, <1>3, RepoIsOne DEF TypeInv, TypeOK
  <1>5. PICK c \in {"created", "failed"} : run' = [run EXCEPT ![u] = [run[u] EXCEPT !.pc = c]]
    <2>1. \E c \in {"created", "failed"} : run' = [run EXCEPT ![u].pc = c]
      BY DEF CreateHook
    <2> QED BY <2>1, SetField
  <1>6. WellFormed([run[u] EXCEPT !.pc = c])
    BY <1>1, SetField
  <1>7. run' \in [Updaters -> RunRecord] /\ Busy'
    BY <1>5, <1>6, RunStep DEF TypeInv
  <1>8. faults' \in 0 .. MaxFaults
    BY FailsProperties DEF CreateHook, TypeInv, TypeOK
  <1> QED BY <1>1, <1>4, <1>7, <1>8 DEF TypeInv, TypeOK, RunRecord

LEMMA NextTypeInv == TypeInv /\ [Next]_vars => TypeInv'
  <1> SUFFICES ASSUME TypeInv, [Next]_vars PROVE TypeInv'
    OBVIOUS
  <1>1. CASE UNCHANGED vars
    BY <1>1 DEF vars, TypeInv, TypeOK, Busy
  <1>2. ASSUME NEW u \in Updaters, Kill(u) PROVE TypeInv'
    <2>1. run' \in [Updaters -> RunRecord] /\ Busy'
      BY <1>2, IdleWellFormed, RunStep DEF Kill, TypeInv
    <2>2. faults' \in 0 .. MaxFaults
      BY <1>2, FailsProperties DEF Kill, TypeInv
    <2> QED BY <1>2, <2>1, <2>2 DEF Kill, TypeInv, TypeOK, RunRecord
  <1>3. ASSUME NEW u \in Updaters, Update(u) PROVE TypeInv'
    BY <1>3, StartTypeInv, BeginTypeInv, MarkTypeInv, ListTypeInv, DeleteTypeInv, CreateTypeInv DEF Update
  <1> QED BY <1>1, <1>2, <1>3 DEF Next

(* Types, and that an execution at work has a repository to work on        *)
(* (pkg/cmd/webhook/update).                                               *)
THEOREM TypeCorrect == Spec => [](TypeOK /\ Busy)
  <1>1. TypeInv /\ [Next]_vars => TypeInv'
    BY NextTypeInv
  <1> QED BY <1>1, InitTypeInv, PTL DEF Spec, TypeInv

-----------------------------------------------------------------------------
(* One execution at a time, and annotations that can be written.           *)

OneAtATime == /\ "api" \notin FaultKinds
              /\ \A u, v \in Updaters : u = v

(* How far the repository at work is: while it has no hook for certain, it *)
(* is not marked.                                                          *)
Progress(u) ==
  /\ run[u].pc # "idle" => current[u] = Repos
  /\ run[u].pc \in {"list", "delete", "failed"} => sr[Repo(u)].status # "true"
  /\ run[u].pc = "created" => Live(Repo(u)) # {}

Marked == MarkedTrueHasHook /\ \A u \in Updaters : Progress(u)

LEMMA InitMarked == Init => Marked
  <1> SUFFICES ASSUME Init PROVE Marked
    OBVIOUS
  <1>1. \A r \in Repos : sr[r].status = "none"
    BY DEF Init
  <1>2. \A u \in Updaters : run[u].pc = "idle"
    BY DEF Init, Idle
  <1> QED BY <1>1, <1>2 DEF Marked, MarkedTrueHasHook, Progress

(* An execution that goes on to the next repository, or ends.              *)
LEMMA MovesOn ==
  ASSUME TypeInv, TypeInv', Marked, MarkedTrueHasHook', OneAtATime, NEW u \in Updaters,
         run'[u].pc \in {"idle", "next", "creating"}, run'[u].pc # "idle" => current'[u] = Repos
  PROVE  Marked'
  BY DEF Marked, Progress, OneAtATime

LEMMA AnnotationMarked ==
  ASSUME TypeInv, TypeInv', Marked, OneAtATime, NEW u \in Updaters,
         MarkCreating(u) \/ MarkFailed(u) \/ MarkTrue(u)
  PROVE  Marked'
  <1>1. run[u].pc # "idle" /\ hooks' = hooks /\ run \in [Updaters -> RunRecord]
    BY SetField DEF MarkCreating, MarkFailed, MarkTrue
  <1>2. Repo(u) \in Repos /\ current[u] = Repos /\ sr \in [Repos -> Annotations]
    BY <1>1, RepoIsOne DEF TypeInv, TypeOK, Annotations, Marked, Progress
  <1>3. \A r \in Repos : Live(r)' = Live(r)
    BY <1>1 DEF Live
  <1>4. ASSUME MarkCreating(u) PROVE Marked'
    <2> DEFINE a == [sr[Repo(u)] EXCEPT !.status = "creating"]
    <2>1. a \in Annotations /\ a.status = "creating" /\ Annotate(u, a)
      BY <1>2, <1>4 DEF Annotations, MarkCreating
    <2>2. sr' = [sr EXCEPT ![Repo(u)] = a] /\ current'[u] = current[u]
      BY <1>2, <2>1, AnnotateProperties DEF OneAtATime, TypeInv
    <2>3. run'[u].pc = "list" /\ run'[u].todo = run[u].todo
      BY <1>1, <1>4 DEF MarkCreating, RunRecord
    <2>4. sr'[Repo(u)].status = "creating" /\ \A r \in Repos \ {Repo(u)} : sr'[r] = sr[r]
      BY <1>2, <2>1, <2>2
    <2>5. MarkedTrueHasHook'
      BY <1>3, <2>4 DEF Marked, MarkedTrueHasHook
    <2>6. Progress(u)'
      BY <1>2, <2>2, <2>3, <2>4 DEF Progress, Repo
    <2> QED BY <2>5, <2>6 DEF Marked, OneAtATime
  <1>5. ASSUME MarkFailed(u) PROVE Marked'
    <2> DEFINE a == [status |-> "failed", error |-> TRUE]
    <2>1. a \in Annotations /\ a.status = "failed" /\ Annotate(u, a)
      BY <1>5 DEF Annotations, MarkFailed
    <2>2. sr' = [sr EXCEPT ![Repo(u)] = a] /\ current'[u] = current[u]
      BY <1>2, <2>1, AnnotateProperties DEF OneAtATime, TypeInv
    <2>3. run'[u].pc \in {"idle", "next"}
      BY <1>1, <1>5, GiveUpProperties DEF MarkFailed, TypeInv
    <2>4. MarkedTrueHasHook'
      BY <1>2, <1>3, <2>1, <2>2 DEF Marked, MarkedTrueHasHook
    <2> QED BY <1>2, <2>2, <2>3, <2>4, MovesOn
  <1>6. ASSUME MarkTrue(u) PROVE Marked'
    <2> DEFINE a == [sr[Repo(u)] EXCEPT !.status = "true"]
    <2>1. a \in Annotations /\ Annotate(u, a) /\ Live(Repo(u)) # {}
      BY <1>2, <1>6 DEF Annotations, MarkTrue, Marked, Progress
    <2>2. sr' = [sr EXCEPT ![Repo(u)] = a] /\ current'[u] = current[u]
      BY <1>2, <2>1, AnnotateProperties DEF OneAtATime, TypeInv
    <2>3. run'[u].pc \in {"idle", "next"}
      BY <1>1, <1>6, ProceedProperties DEF MarkTrue, TypeInv
    <2>4. MarkedTrueHasHook'
      BY <1>2, <1>3, <2>1, <2>2 DEF Marked, MarkedTrueHasHook
    <2> QED BY <1>2, <2>2, <2>3, <2>4, MovesOn
  <1> QED BY <1>4, <1>5, <1>6

LEMMA NextMarked ==
  ASSUME TypeInv, TypeInv', Marked, OneAtATime, [Next]_vars
  PROVE  Marked'
  <1>1. CASE UNCHANGED vars
    BY <1>1 DEF vars, Marked, MarkedTrueHasHook, Progress, Live, Repo
  <1>2. ASSUME NEW u \in Updaters, Kill(u) PROVE Marked'
    <2>1. MarkedTrueHasHook'
      BY <1>2 DEF Kill, Marked, MarkedTrueHasHook, Live
    <2>2. run'[u].pc = "idle"
      BY <1>2, SetField DEF Kill, Idle
    <2> QED BY <2>1, <2>2, MovesOn
  <1>3. ASSUME NEW u \in Updaters, Start(u) PROVE Marked'
    <2>1. MarkedTrueHasHook'
      BY <1>3 DEF Start, Marked, MarkedTrueHasHook, Live
    <2>2. run'[u].pc = "next" /\ current'[u] = Repos
      <3>1. run \in [Updaters -> RunRecord] /\ current \in [Updaters -> SUBSET Repos]
        BY SetField DEF TypeInv, TypeOK
      <3>2. PICK skip \in SUBSET Repos :
              run' = [run EXCEPT ![u] = [Idle EXCEPT !.pc = "next", !.todo = RepoOrder, !.skip = skip]]
        BY <1>3 DEF Start
      <3>3. current'[u] = Repos
        BY <1>3, <3>1 DEF Start
      <3> QED BY <3>1, <3>2, <3>3 DEF Idle
    <2> QED BY <2>1, <2>2, MovesOn
  <1>4. ASSUME NEW u \in Updaters, Begin(u) PROVE Marked'
    <2>1. MarkedTrueHasHook'
      BY <1>4 DEF Begin, Marked, MarkedTrueHasHook, Live
    <2>2. run[u].pc # "idle" /\ current'[u] = Repos
      BY <1>4 DEF Begin, Marked, Progress
    <2>3. run'[u].pc \in {"idle", "next", "creating"}
      <3>1. /\ run[u] \in RunRecord /\ run \in [Updaters -> RunRecord]
            /\ Proceed(u) \in RunRecord /\ Proceed(u).pc \in {"idle", "next"}
            /\ GiveUp(u) \in RunRecord /\ GiveUp(u).pc \in {"idle", "next"}
        BY <2>2, SetField, ProceedProperties, GiveUpProperties DEF TypeInv, WellFormed
      <3>2. \E b : run'[u] \in {Proceed(u), [Proceed(u) EXCEPT !.hmac = b], [GiveUp(u) EXCEPT !.hmac = b],
                              [run[u] EXCEPT !.pc = "creating", !.hmac = b]}
        BY <1>4, <3>1 DEF Begin
      <3> QED BY <3>1, <3>2 DEF RunRecord
    <2> QED BY <2>1, <2>2, <2>3, MovesOn
  <1>5. ASSUME NEW u \in Updaters, ListHooks(u) PROVE Marked'
    <2>1. MarkedTrueHasHook'
      BY <1>5 DEF ListHooks, Marked, MarkedTrueHasHook, Live
    <2>2. run'[u].pc = "delete" /\ run'[u].todo = run[u].todo
      <3>1. run[u] \in RunRecord /\ run \in [Updaters -> RunRecord]
        BY SetField
      <3>2. \E s : run' = [run EXCEPT ![u].pc = "delete", ![u].listed = s]
        BY <1>5 DEF ListHooks
      <3> QED BY <3>1, <3>2 DEF RunRecord
    <2>3. Progress(u)'
      BY <1>5, <2>2 DEF ListHooks, Marked, Progress, Repo
    <2> QED BY <2>1, <2>3 DEF Marked, OneAtATime
  <1>6. ASSUME NEW u \in Updaters, DeleteHook(u) PROVE Marked'
    <2>1. run'[u].pc \in {"delete", "failed"} /\ run'[u].todo = run[u].todo
      <3>1. run[u] \in RunRecord /\ run \in [Updaters -> RunRecord] /\ run[u].pc = "delete"
        BY <1>6, SetField DEF DeleteHook
      <3>2. (\E s : run' = [run EXCEPT ![u].listed = s]) \/ run' = [run EXCEPT ![u].pc = "failed"]
        BY <1>6 DEF DeleteHook
      <3> QED BY <3>1, <3>2 DEF RunRecord
    <2>2. \A r \in Repos \ {Repo(u)} : hooks'[r] = hooks[r]
      BY <1>6, RepoIsOne DEF DeleteHook, TypeInv, TypeOK
    <2>3. sr' = sr /\ current' = current /\ run[u].pc = "delete"
      BY <1>6 DEF DeleteHook
    <2>4. MarkedTrueHasHook'
      BY <2>2, <2>3 DEF Marked, MarkedTrueHasHook, Progress, Live
    <2>5. Progress(u)'
      BY <2>1, <2>3 DEF Marked, Progress, Repo
    <2> QED BY <2>4, <2>5 DEF Marked, OneAtATime
  <1>7. ASSUME NEW u \in Updaters, CreateHook(u) PROVE Marked'
    <2>1. run'[u].pc \in {"created", "failed"} /\ run'[u].todo = run[u].todo
      <3>1. run[u] \in RunRecord /\ run \in [Updaters -> RunRecord]
        BY SetField
      <3>2. run' = [run EXCEPT ![u].pc = "created"] \/ run' = [run EXCEPT ![u].pc = "failed"]
        BY <1>7 DEF CreateHook
      <3> QED BY <3>1, <3>2 DEF RunRecord
    <2>2. sr' = sr /\ current' = current /\ run[u].pc = "delete" /\ Repo(u) \in Repos
      BY <1>7, RepoIsOne DEF CreateHook, TypeInv
    <2> DEFINE more == [hooks EXCEPT ![Repo(u)] = @ \cup {NewHook(u)}]
    <2>10. hooks' \in {hooks, more} /\ (hooks' = more \/ run' = [run EXCEPT ![u].pc = "failed"])
      BY <1>7 DEF CreateHook, NewHook
    <2>11. (\A r \in Repos : hooks[r] \subseteq more[r]) /\ NewHook(u) \in more[Repo(u)]
      BY <2>2 DEF TypeInv, TypeOK
    <2> HIDE DEF more
    <2>3. \A r \in Repos : hooks[r] \subseteq hooks'[r]
      BY <2>10, <2>11
    <2>4. MarkedTrueHasHook'
      BY <2>2, <2>3 DEF Marked, MarkedTrueHasHook, Live
    <2>5. run'[u].pc = "created" => NewHook(u) \in hooks'[Repo(u)]
      <3>1. run[u] \in RunRecord /\ run \in [Updaters -> RunRecord]
        BY SetField
      <3>2. [run EXCEPT ![u].pc = "failed"][u].pc = "failed"
        BY <3>1 DEF RunRecord
      <3> QED BY <2>10, <2>11, <3>2
    <2>6. run'[u].pc = "created" => Live(Repo(u))' # {}
      BY <1>7, <2>1, <2>5, NewHookProperties DEF CreateHook, Live, Repo
    <2>7. Progress(u)'
      BY <2>1, <2>2, <2>6 DEF Marked, Progress, Repo
    <2> QED BY <2>4, <2>7 DEF Marked, OneAtATime
  <1> QED BY <1>1, <1>2, <1>3, <1>4, <1>5, <1>6, <1>7, AnnotationMarked DEF Next, Update

(* One execution at a time whose annotations can be written: a repository   *)
(* marked "true" has its webhook, wherever the command fails or is killed   *)
(* (pkg/cmd/webhook/update).                                                *)
THEOREM MarkedTrueMeansHook ==
  ASSUME OneAtATime
  PROVE  Spec => []MarkedTrueHasHook
  <1>1. TypeInv /\ Marked /\ [Next]_vars => (TypeInv /\ Marked)'
    BY NextTypeInv, NextMarked
  <1>2. Init => TypeInv /\ Marked
    BY InitTypeInv, InitMarked
  <1>3. Marked => MarkedTrueHasHook
    BY DEF Marked
  <1> QED BY <1>1, <1>2, <1>3, PTL DEF Spec

-----------------------------------------------------------------------------
(* The types again, of the executions that overlap.                        *)

OAnnotations == [status : {"none", "creating", "failed", "true"}, error : BOOLEAN]

ORunRecord ==
  [pc : {"idle", "next", "creating", "list", "delete", "failed", "created"},
   todo : Seq(Repos), skip : SUBSET Repos, listed : SUBSET O!Hook, hmac : BOOLEAN]

(* An execution at work has a repository to work on.                       *)
OWellFormed(x) == x \in ORunRecord /\ (x.pc # "idle" => x.todo # <<>>)

OBusy == \A u \in OUpdaters : OWellFormed(orun[u])

LEMMA OIdleWellFormed == OWellFormed(O!Idle)
  BY DEF OWellFormed, ORunRecord, O!Idle

(* The repository an execution works on.                                   *)
LEMMA ORepoIsOne ==
  ASSUME OBusy, NEW u \in OUpdaters, orun[u].pc # "idle"
  PROVE  O!Repo(u) \in Repos
  BY DEF OBusy, OWellFormed, ORunRecord, O!Repo

(* After a repository comes the next one or the end.                       *)
LEMMA OProceedProperties ==
  ASSUME OBusy, NEW u \in OUpdaters, orun[u].pc # "idle"
  PROVE  OWellFormed(O!Proceed(u)) /\ O!Proceed(u).pc \in {"idle", "next"}
  <1>1. orun[u] \in ORunRecord /\ orun[u].todo \in Seq(Repos) /\ orun[u].todo # <<>>
    BY DEF OBusy, OWellFormed, ORunRecord
  <1>2. CASE Len(orun[u].todo) = 1
    BY <1>2, OIdleWellFormed DEF O!Proceed, O!Idle
  <1>3. CASE Len(orun[u].todo) # 1
    <2>1. O!Proceed(u) = [orun[u] EXCEPT !.pc = "next", !.todo = Tail(@), !.listed = {}]
      BY <1>3 DEF O!Proceed
    <2>2. Tail(orun[u].todo) \in Seq(Repos) /\ Len(Tail(orun[u].todo)) = Len(orun[u].todo) - 1
      BY <1>1
    <2>3. Len(orun[u].todo) \in Nat /\ Len(orun[u].todo) # 0
      BY <1>1
    <2>4. Tail(orun[u].todo) # <<>>
      <3>1. Len(Tail(orun[u].todo)) # 0
        BY <1>3, <2>2, <2>3
      <3>2. Len(<<>>) = 0
        OBVIOUS
      <3> QED BY <3>1, <3>2, Zenon
    <2> QED BY <1>1, <2>1, <2>2, <2>4 DEF OWellFormed, ORunRecord
  <1> QED BY <1>2, <1>3

LEMMA OGiveUpProperties ==
  ASSUME OBusy, NEW u \in OUpdaters, orun[u].pc # "idle"
  PROVE  OWellFormed(O!GiveUp(u)) /\ O!GiveUp(u).pc \in {"idle", "next"}
  BY OProceedProperties, OIdleWellFormed DEF O!GiveUp, O!Idle

(* A step of one execution.                                                *)
LEMMA ORunStep ==
  ASSUME O!TypeOK, OBusy, NEW u \in OUpdaters, NEW x, OWellFormed(x), orun' = [orun EXCEPT ![u] = x]
  PROVE  orun' \in [OUpdaters -> ORunRecord] /\ OBusy'
  <1>1. orun \in [OUpdaters -> ORunRecord]
    BY DEF O!TypeOK, ORunRecord
  <1>2. x \in ORunRecord
    BY DEF OWellFormed
  <1>3. \A v \in OUpdaters : orun'[v] = IF v = u THEN x ELSE orun[v]
    BY <1>1
  <1>4. \A v \in OUpdaters : OWellFormed(orun'[v])
    BY <1>3 DEF OBusy
  <1>5. orun' \in [OUpdaters -> ORunRecord]
    BY <1>1, <1>2
  <1> QED BY <1>4, <1>5 DEF OBusy, OWellFormed, ORunRecord

(* A failing call counts.                                                  *)
LEMMA OFailsProperties ==
  ASSUME O!TypeOK, NEW kind, O!Fails(kind)
  PROVE  ofaults' \in 0 .. MaxFaults /\ kind \in OFaultKinds
  BY WebhookUpdateAssumption, MCAssumption DEF O!TypeOK, O!Fails

(* What annotate can do.                                                   *)
LEMMA OAnnotateProperties ==
  ASSUME O!TypeOK, NEW u \in OUpdaters, O!Repo(u) \in Repos, NEW a \in OAnnotations, O!Annotate(u, a)
  PROVE  /\ osr' \in [Repos -> OAnnotations]
         /\ ocurrent' \in [OUpdaters -> SUBSET Repos]
         /\ ofaults' \in 0 .. MaxFaults
         /\ osr' \in {osr, [osr EXCEPT ![O!Repo(u)] = a]}
         /\ "api" \notin OFaultKinds /\ O!Repo(u) \in ocurrent[u]
              => osr' = [osr EXCEPT ![O!Repo(u)] = a] /\ ocurrent'[u] = ocurrent[u]
  <1>1. osr \in [Repos -> OAnnotations] /\ ocurrent \in [OUpdaters -> SUBSET Repos] /\ ofaults \in 0 .. MaxFaults
    BY DEF O!TypeOK, OAnnotations
  <1>2. [osr EXCEPT ![O!Repo(u)] = a] \in [Repos -> OAnnotations]
    BY <1>1
  <1>3. CASE /\ O!Repo(u) \in ocurrent[u] /\ osr' = [osr EXCEPT ![O!Repo(u)] = a]
             /\ ocurrent' = [v \in OUpdaters |-> IF v = u THEN ocurrent[v] ELSE ocurrent[v] \ {O!Repo(u)}]
             /\ UNCHANGED ofaults
    BY <1>1, <1>2, <1>3
  <1>4. CASE O!Repo(u) \notin ocurrent[u] /\ UNCHANGED <<osr, ocurrent, ofaults>>
    BY <1>1, <1>4
  <1>5. CASE /\ O!Fails("api")
             /\ \/ /\ osr' = [osr EXCEPT ![O!Repo(u)] = a]
                   /\ ocurrent' = [v \in OUpdaters |-> ocurrent[v] \ {O!Repo(u)}]
                \/ /\ ocurrent' = [ocurrent EXCEPT ![u] = @ \ {O!Repo(u)}]
                   /\ UNCHANGED osr
    BY <1>1, <1>2, <1>5, OFailsProperties
  <1> QED BY <1>3, <1>4, <1>5 DEF O!Annotate

OTypeInv == O!TypeOK /\ OBusy

LEMMA OInitTypeInv == O!Init => OTypeInv
  <1> SUFFICES ASSUME O!Init PROVE OTypeInv
    OBVIOUS
  <1>1. PICK old \in [Repos -> SUBSET OTargets] : ohooks = [r \in Repos |-> {O!OldHook(r, t) : t \in old[r]}]
    BY DEF O!Init
  <1>2. \A r \in Repos, t \in OTargets : O!OldHook(r, t) \in O!Hook
    BY Zenon DEF O!OldHook, O!Hook
  <1>3. ohooks \in [Repos -> SUBSET O!Hook]
    BY <1>1, <1>2
  <1>4. OWellFormed(O!Idle) /\ O!Idle \in ORunRecord
    BY OIdleWellFormed DEF OWellFormed
  <1>5. orun \in [OUpdaters -> ORunRecord] /\ OBusy
    BY <1>4 DEF O!Init, OBusy
  <1>6. osr \in [Repos -> OAnnotations] /\ ocurrent \in [OUpdaters -> SUBSET Repos] /\ ofaults \in 0 .. MaxFaults /\ omissed \subseteq Repos
    BY WebhookUpdateAssumption, MCAssumption DEF O!Init, OAnnotations
  <1> QED BY <1>3, <1>5, <1>6 DEF OTypeInv, O!TypeOK, ORunRecord, OAnnotations

(* The fields of an execution, one by one.                                 *)
LEMMA OSetField ==
  ASSUME OTypeInv, NEW u \in OUpdaters
  PROVE  /\ orun[u] \in ORunRecord /\ orun \in [OUpdaters -> ORunRecord]
         /\ orun[u].pc # "idle" =>
              /\ \A c \in {"list", "creating", "delete", "failed", "created"}, s \in SUBSET O!Hook, b \in BOOLEAN :
                   /\ OWellFormed([orun[u] EXCEPT !.pc = c])
                   /\ OWellFormed([orun[u] EXCEPT !.listed = s])
                   /\ OWellFormed([orun[u] EXCEPT !.pc = c, !.listed = s])
                   /\ OWellFormed([orun[u] EXCEPT !.pc = c, !.hmac = b])
              /\ \A b \in BOOLEAN :
                   /\ OWellFormed([O!Proceed(u) EXCEPT !.hmac = b])
                   /\ OWellFormed([O!GiveUp(u) EXCEPT !.hmac = b])
  <1>1. orun[u] \in ORunRecord /\ orun \in [OUpdaters -> ORunRecord]
    BY DEF OTypeInv, OBusy, OWellFormed, O!TypeOK, ORunRecord
  <1>2. orun[u].pc # "idle" => orun[u].todo # <<>>
    BY DEF OTypeInv, OBusy, OWellFormed
  <1>3. orun[u].pc # "idle" => OWellFormed(O!Proceed(u)) /\ OWellFormed(O!GiveUp(u))
    BY OProceedProperties, OGiveUpProperties DEF OTypeInv
  <1>4. ASSUME orun[u].pc # "idle", NEW c \in {"list", "creating", "delete", "failed", "created"},
               NEW s \in SUBSET O!Hook, NEW b \in BOOLEAN
        PROVE  /\ OWellFormed([orun[u] EXCEPT !.pc = c])
               /\ OWellFormed([orun[u] EXCEPT !.listed = s])
               /\ OWellFormed([orun[u] EXCEPT !.pc = c, !.listed = s])
               /\ OWellFormed([orun[u] EXCEPT !.pc = c, !.hmac = b])
    <2>1. OWellFormed([orun[u] EXCEPT !.pc = c])
      BY <1>1, <1>2, <1>4 DEF OWellFormed, ORunRecord
    <2>2. OWellFormed([orun[u] EXCEPT !.listed = s])
      BY <1>1, <1>2, <1>4 DEF OWellFormed, ORunRecord
    <2>3. OWellFormed([orun[u] EXCEPT !.pc = c, !.listed = s])
      BY <1>1, <1>2, <1>4 DEF OWellFormed, ORunRecord
    <2>4. OWellFormed([orun[u] EXCEPT !.pc = c, !.hmac = b])
      BY <1>1, <1>2, <1>4 DEF OWellFormed, ORunRecord
    <2> QED BY <2>1, <2>2, <2>3, <2>4
  <1>5. orun[u].pc # "idle" =>
          \A b \in BOOLEAN : /\ OWellFormed([O!Proceed(u) EXCEPT !.hmac = b])
                            /\ OWellFormed([O!GiveUp(u) EXCEPT !.hmac = b])
    <2> SUFFICES ASSUME orun[u].pc # "idle", NEW b \in BOOLEAN
                 PROVE  /\ OWellFormed([O!Proceed(u) EXCEPT !.hmac = b])
                        /\ OWellFormed([O!GiveUp(u) EXCEPT !.hmac = b])
      OBVIOUS
    <2>1. OWellFormed([O!Proceed(u) EXCEPT !.hmac = b])
      BY <1>3 DEF OWellFormed, ORunRecord
    <2>2. OWellFormed([O!GiveUp(u) EXCEPT !.hmac = b])
      BY <1>3 DEF OWellFormed, ORunRecord
    <2> QED BY <2>1, <2>2
  <1> QED BY <1>1, <1>4, <1>5, Zenon

LEMMA OStartTypeInv ==
  ASSUME OTypeInv, NEW u \in OUpdaters, O!Start(u)
  PROVE  OTypeInv'
  <1>1. PICK skip \in SUBSET Repos :
          orun' = [orun EXCEPT ![u] = [O!Idle EXCEPT !.pc = "next", !.todo = RepoOrder, !.skip = skip]]
    BY DEF O!Start
  <1>2. OWellFormed([O!Idle EXCEPT !.pc = "next", !.todo = RepoOrder, !.skip = skip])
    BY WebhookUpdateAssumption, MCAssumption DEF O!Start, OWellFormed, ORunRecord, O!Idle
  <1>3. orun' \in [OUpdaters -> ORunRecord] /\ OBusy'
    BY <1>1, <1>2, ORunStep DEF OTypeInv
  <1> QED BY <1>3 DEF O!Start, OTypeInv, O!TypeOK, ORunRecord

LEMMA OBeginTypeInv ==
  ASSUME OTypeInv, NEW u \in OUpdaters, O!Begin(u)
  PROVE  OTypeInv'
  <1>1. orun[u].pc # "idle"
    BY DEF O!Begin
  <1>2. orun[u].hmac \in BOOLEAN
    BY OSetField DEF ORunRecord
  <1> DEFINE hmac == orun[u].hmac \/ O!Repo(u) \notin BitbucketCloud
  <1>3. hmac \in BOOLEAN
    BY <1>2, Zenon
  <1>4. \/ orun' = [orun EXCEPT ![u] = O!Proceed(u)]
        \/ orun' = [orun EXCEPT ![u] = [O!Proceed(u) EXCEPT !.hmac = hmac]]
        \/ orun' = [orun EXCEPT ![u] = [O!GiveUp(u) EXCEPT !.hmac = hmac]]
        \/ orun' = [orun EXCEPT ![u] = [orun[u] EXCEPT !.pc = "creating", !.hmac = hmac]]
    BY DEF O!Begin
  <1> HIDE DEF hmac
  <1>5. /\ OWellFormed(O!Proceed(u)) /\ OWellFormed([O!Proceed(u) EXCEPT !.hmac = hmac])
        /\ OWellFormed([O!GiveUp(u) EXCEPT !.hmac = hmac])
        /\ OWellFormed([orun[u] EXCEPT !.pc = "creating", !.hmac = hmac])
    BY <1>1, <1>3, OSetField, OProceedProperties DEF OTypeInv
  <1>6. orun' \in [OUpdaters -> ORunRecord] /\ OBusy'
    BY <1>4, <1>5, ORunStep DEF OTypeInv
  <1> QED BY <1>6 DEF O!Begin, OTypeInv, O!TypeOK, ORunRecord

LEMMA OMarkTypeInv ==
  ASSUME OTypeInv, NEW u \in OUpdaters, O!MarkCreating(u) \/ O!MarkFailed(u) \/ O!MarkTrue(u)
  PROVE  OTypeInv'
  <1>1. orun[u].pc # "idle" /\ UNCHANGED <<ohooks, omissed>>
    BY DEF O!MarkCreating, O!MarkFailed, O!MarkTrue
  <1>2. O!Repo(u) \in Repos /\ osr \in [Repos -> OAnnotations]
    BY <1>1, ORepoIsOne DEF OTypeInv, O!TypeOK, OAnnotations
  <1>3. PICK a \in OAnnotations : O!Annotate(u, a)
    <2>1. /\ [osr[O!Repo(u)] EXCEPT !.status = "creating"] \in OAnnotations
          /\ [osr[O!Repo(u)] EXCEPT !.status = "true"] \in OAnnotations
          /\ [status |-> "failed", error |-> TRUE] \in OAnnotations
      BY <1>2 DEF OAnnotations
    <2> QED BY <2>1 DEF O!MarkCreating, O!MarkFailed, O!MarkTrue
  <1>4. osr' \in [Repos -> OAnnotations] /\ ocurrent' \in [OUpdaters -> SUBSET Repos] /\ ofaults' \in 0 .. MaxFaults
    BY <1>2, <1>3, OAnnotateProperties DEF OTypeInv
  <1>5. PICK x : OWellFormed(x) /\ orun' = [orun EXCEPT ![u] = x]
    <2>1. \/ orun' = [orun EXCEPT ![u] = [orun[u] EXCEPT !.pc = "list"]]
          \/ orun' = [orun EXCEPT ![u] = O!GiveUp(u)]
          \/ orun' = [orun EXCEPT ![u] = O!Proceed(u)]
      BY DEF O!MarkCreating, O!MarkFailed, O!MarkTrue
    <2>2. OWellFormed([orun[u] EXCEPT !.pc = "list"]) /\ OWellFormed(O!GiveUp(u)) /\ OWellFormed(O!Proceed(u))
      BY <1>1, OSetField, OProceedProperties, OGiveUpProperties DEF OTypeInv
    <2> QED BY <2>1, <2>2
  <1>6. orun' \in [OUpdaters -> ORunRecord] /\ OBusy'
    BY <1>5, ORunStep DEF OTypeInv
  <1> QED BY <1>1, <1>4, <1>6 DEF OTypeInv, O!TypeOK, ORunRecord, OAnnotations

LEMMA OListTypeInv ==
  ASSUME OTypeInv, NEW u \in OUpdaters, O!ListHooks(u)
  PROVE  OTypeInv'
  <1>1. orun[u].pc # "idle" /\ UNCHANGED <<ohooks, osr, ocurrent>>
    BY DEF O!ListHooks
  <1>2. ohooks[O!Repo(u)] \in SUBSET O!Hook
    BY <1>1, ORepoIsOne DEF OTypeInv, O!TypeOK
  <1>3. PICK s \in SUBSET O!Hook : orun' = [orun EXCEPT ![u] = [orun[u] EXCEPT !.pc = "delete", !.listed = s]]
    <2>1. {h \in ohooks[O!Repo(u)] : h.target \in Matching} \in SUBSET O!Hook
      BY <1>2
    <2>2. \E s \in SUBSET O!Hook : orun' = [orun EXCEPT ![u].pc = "delete", ![u].listed = s]
      BY <2>1 DEF O!ListHooks
    <2> QED BY <2>2, OSetField
  <1>4. OWellFormed([orun[u] EXCEPT !.pc = "delete", !.listed = s])
    BY <1>1, OSetField
  <1>5. orun' \in [OUpdaters -> ORunRecord] /\ OBusy'
    BY <1>3, <1>4, ORunStep DEF OTypeInv
  <1>6. ofaults' \in 0 .. MaxFaults
    BY OFailsProperties DEF O!ListHooks, OTypeInv, O!TypeOK
  <1>7. omissed' \subseteq Repos
    BY <1>1, ORepoIsOne DEF O!ListHooks, OTypeInv, O!TypeOK
  <1> QED BY <1>1, <1>5, <1>6, <1>7 DEF OTypeInv, O!TypeOK, ORunRecord

LEMMA ODeleteTypeInv ==
  ASSUME OTypeInv, NEW u \in OUpdaters, O!DeleteHook(u)
  PROVE  OTypeInv'
  <1>1. orun[u].pc # "idle" /\ UNCHANGED <<osr, ocurrent, omissed>> /\ orun[u] \in ORunRecord
    BY OSetField DEF O!DeleteHook
  <1>2. PICK h \in orun[u].listed :
          /\ ohooks' \in {ohooks, [ohooks EXCEPT ![O!Repo(u)] = @ \ {h}]}
          /\ \/ orun' = [orun EXCEPT ![u].listed = @ \ {h}]
             \/ orun' = [orun EXCEPT ![u].pc = "failed"]
    BY DEF O!DeleteHook
  <1>3. ohooks' \in [Repos -> SUBSET O!Hook]
    <2>1. O!Repo(u) \in Repos /\ ohooks \in [Repos -> SUBSET O!Hook]
      BY <1>1, ORepoIsOne DEF OTypeInv, O!TypeOK
    <2>2. ohooks[O!Repo(u)] \ {h} \in SUBSET O!Hook
      BY <2>1
    <2>3. [ohooks EXCEPT ![O!Repo(u)] = @ \ {h}] \in [Repos -> SUBSET O!Hook]
      BY <2>1, <2>2
    <2> QED BY <1>2, <2>1, <2>3
  <1>4. PICK x : OWellFormed(x) /\ orun' = [orun EXCEPT ![u] = x]
    <2>1. orun[u].listed \ {h} \in SUBSET O!Hook
      BY <1>1 DEF ORunRecord
    <2>2. \/ orun' = [orun EXCEPT ![u] = [orun[u] EXCEPT !.listed = orun[u].listed \ {h}]]
          \/ orun' = [orun EXCEPT ![u] = [orun[u] EXCEPT !.pc = "failed"]]
      BY <1>2, OSetField
    <2>3. /\ OWellFormed([orun[u] EXCEPT !.listed = orun[u].listed \ {h}])
          /\ OWellFormed([orun[u] EXCEPT !.pc = "failed"])
      BY <1>1, <2>1, OSetField
    <2> QED BY <2>2, <2>3
  <1>5. orun' \in [OUpdaters -> ORunRecord] /\ OBusy'
    BY <1>4, ORunStep DEF OTypeInv
  <1>6. ofaults' \in 0 .. MaxFaults
    BY OFailsProperties DEF O!DeleteHook, OTypeInv, O!TypeOK
  <1> QED BY <1>1, <1>3, <1>5, <1>6 DEF OTypeInv, O!TypeOK, ORunRecord

(* The hook that CreateHook makes.                                         *)
ONewHook(u) == [id |-> CHOOSE i \in O!FreshIds : TRUE, target |-> Endpoint, signed |-> orun[u].hmac]

LEMMA ONewHookProperties ==
  ASSUME OTypeInv, NEW u \in OUpdaters, O!FreshIds # {}
  PROVE  ONewHook(u) \in O!Hook /\ ONewHook(u).target = Endpoint
  <1>1. orun[u].hmac \in BOOLEAN
    BY OSetField DEF ORunRecord
  <1>2. (CHOOSE i \in O!FreshIds : TRUE) \in HookIds
    BY DEF O!FreshIds
  <1> QED BY <1>1, <1>2, WebhookUpdateAssumption, MCAssumption DEF ONewHook, O!Hook

LEMMA OCreateTypeInv ==
  ASSUME OTypeInv, NEW u \in OUpdaters, O!CreateHook(u)
  PROVE  OTypeInv'
  <1>1. orun[u].pc # "idle" /\ UNCHANGED <<osr, ocurrent, omissed>>
    BY DEF O!CreateHook
  <1>2. ohooks' \in {ohooks, [ohooks EXCEPT ![O!Repo(u)] = @ \cup {ONewHook(u)}]}
    BY DEF O!CreateHook, ONewHook
  <1>3. ONewHook(u) \in O!Hook
    BY ONewHookProperties DEF O!CreateHook
  <1>4. ohooks' \in [Repos -> SUBSET O!Hook]
    BY <1>1, <1>2, <1>3, ORepoIsOne DEF OTypeInv, O!TypeOK
  <1>5. PICK c \in {"created", "failed"} : orun' = [orun EXCEPT ![u] = [orun[u] EXCEPT !.pc = c]]
    <2>1. \E c \in {"created", "failed"} : orun' = [orun EXCEPT ![u].pc = c]
      BY DEF O!CreateHook
    <2> QED BY <2>1, OSetField
  <1>6. OWellFormed([orun[u] EXCEPT !.pc = c])
    BY <1>1, OSetField
  <1>7. orun' \in [OUpdaters -> ORunRecord] /\ OBusy'
    BY <1>5, <1>6, ORunStep DEF OTypeInv
  <1>8. ofaults' \in 0 .. MaxFaults
    BY OFailsProperties DEF O!CreateHook, OTypeInv, O!TypeOK
  <1> QED BY <1>1, <1>4, <1>7, <1>8 DEF OTypeInv, O!TypeOK, ORunRecord

LEMMA ONextTypeInv == OTypeInv /\ [O!Next]_O!vars => OTypeInv'
  <1> SUFFICES ASSUME OTypeInv, [O!Next]_O!vars PROVE OTypeInv'
    OBVIOUS
  <1>1. CASE UNCHANGED O!vars
    BY <1>1 DEF O!vars, OTypeInv, O!TypeOK, OBusy
  <1>2. ASSUME NEW u \in OUpdaters, O!Kill(u) PROVE OTypeInv'
    <2>1. orun' \in [OUpdaters -> ORunRecord] /\ OBusy'
      BY <1>2, OIdleWellFormed, ORunStep DEF O!Kill, OTypeInv
    <2>2. ofaults' \in 0 .. MaxFaults
      BY <1>2, OFailsProperties DEF O!Kill, OTypeInv
    <2> QED BY <1>2, <2>1, <2>2 DEF O!Kill, OTypeInv, O!TypeOK, ORunRecord
  <1>3. ASSUME NEW u \in OUpdaters, O!Update(u) PROVE OTypeInv'
    BY <1>3, OStartTypeInv, OBeginTypeInv, OMarkTypeInv, OListTypeInv, ODeleteTypeInv, OCreateTypeInv DEF O!Update
  <1> QED BY <1>1, <1>2, <1>3 DEF O!Next

(* Types, and that an execution at work has a repository to work on        *)
(* (pkg/cmd/webhook/update).                                               *)
THEOREM OTypeCorrect == O!Spec => [](O!TypeOK /\ OBusy)
  <1>1. OTypeInv /\ [O!Next]_O!vars => OTypeInv'
    BY ONextTypeInv
  <1> QED BY <1>1, OInitTypeInv, PTL DEF O!Spec, OTypeInv

(* The command takes the webhooks for the endpoint for its own: it does     *)
(* without --previous-hook-url.                                             *)
KnowsItsHooks ==
  /\ Endpoint \in Matching
  /\ OUpdaters # {} /\ IsFiniteSet(OUpdaters)

(* Unless some were missed, every webhook has an execution that answers    *)
(* for it, each for one only:                                              *)
(* before that execution makes another one, it deletes it.                 *)
AnswersFor(f, r) ==
  /\ f \in [O!Live(r) -> OUpdaters]
  /\ \A h, k \in O!Live(r) : f[h] = f[k] => h = k
  /\ \A h \in O!Live(r) : orun[f[h]].pc = "delete" /\ O!Repo(f[h]) = r => h \in orun[f[h]].listed

Owned == \A r \in Repos \ omissed : \E f : AnswersFor(f, r)

LEMMA InitOwned == KnowsItsHooks /\ O!Init => Owned
  <1> SUFFICES ASSUME KnowsItsHooks, O!Init, NEW r \in Repos \ omissed PROVE \E f : AnswersFor(f, r)
    BY DEF Owned
  <1>1. PICK old \in [Repos -> SUBSET OTargets] : ohooks = [x \in Repos |-> {O!OldHook(x, t) : t \in old[x]}]
    BY DEF O!Init
  <1>2. \A h \in O!Live(r) : h = O!OldHook(r, Endpoint)
    <2>1. \A t \in OTargets : O!OldHook(r, t).target = t
      BY DEF O!OldHook
    <2> QED BY <1>1, <2>1 DEF O!Live
  <1>3. PICK u \in OUpdaters : TRUE
    BY DEF KnowsItsHooks
  <1>4. \A v \in OUpdaters : orun[v].pc = "idle"
    BY DEF O!Init, O!Idle
  <1>5. AnswersFor([h \in O!Live(r) |-> u], r)
    BY <1>2, <1>3, <1>4 DEF AnswersFor
  <1> QED BY <1>5

(* No webhook is added, and who answers for one still has it on its list.  *)
LEMMA Fewer ==
  ASSUME NEW r, NEW f, AnswersFor(f, r), O!Live(r)' \subseteq O!Live(r),
         \A h \in O!Live(r)' : orun'[f[h]].pc = "delete" /\ O!Repo(f[h])' = r => h \in orun'[f[h]].listed
  PROVE  \E g : AnswersFor(g, r)'
  <1>1. PICK g : g = [h \in O!Live(r)' |-> f[h]]
    OBVIOUS
  <1>2. g \in [O!Live(r)' -> OUpdaters] /\ \A h, k \in O!Live(r)' : g[h] = g[k] => h = k
    BY <1>1 DEF AnswersFor
  <1>3. \A h \in O!Live(r)' : orun'[g[h]].pc = "delete" /\ O!Repo(g[h])' = r => h \in orun'[g[h]].listed
    BY <1>1
  <1>4. AnswersFor(g, r)'
    BY <1>2, <1>3 DEF AnswersFor
  <1> QED BY <1>4

(* A step of an execution that is not about to delete afterwards.          *)
LEMMA NotDeleting ==
  ASSUME Owned, NEW u \in OUpdaters, orun'[u].pc # "delete", \A v \in OUpdaters \ {u} : orun'[v] = orun[v],
         NEW r \in Repos \ omissed, O!Live(r)' \subseteq O!Live(r)
  PROVE  \E g : AnswersFor(g, r)'
  <1>1. PICK f : AnswersFor(f, r)
    BY DEF Owned
  <1>2. \A h \in O!Live(r)' : orun'[f[h]].pc = "delete" /\ O!Repo(f[h])' = r => h \in orun'[f[h]].listed
    BY <1>1 DEF AnswersFor, O!Repo
  <1> QED BY <1>1, <1>2, Fewer

LEMMA ListOwned ==
  ASSUME OTypeInv, Owned, KnowsItsHooks, NEW u \in OUpdaters, O!ListHooks(u)
  PROVE  Owned'
  <1> SUFFICES ASSUME NEW r \in Repos \ omissed' PROVE \E g : AnswersFor(g, r)'
    BY DEF Owned
  <1>1. PICK f : AnswersFor(f, r)
    BY DEF Owned, O!ListHooks
  <1>2. PICK listed \in SUBSET {h \in ohooks[O!Repo(u)] : h.target \in Matching} :
          /\ orun' = [orun EXCEPT ![u].pc = "delete", ![u].listed = listed]
          /\ omissed' = IF \A h \in ohooks[O!Repo(u)] \ listed : h.target \notin Matching
                        THEN omissed ELSE omissed \cup {O!Repo(u)}
    BY DEF O!ListHooks
  <1>3. /\ \A v \in OUpdaters \ {u} : orun'[v] = orun[v]
        /\ orun'[u].todo = orun[u].todo
        /\ orun'[u].listed = listed
    BY <1>2, OSetField DEF ORunRecord
  <1>4. O!Live(r)' = O!Live(r) /\ (r = O!Repo(u) => O!Live(r) \subseteq orun'[u].listed)
    BY <1>2, <1>3 DEF O!ListHooks, O!Live, KnowsItsHooks
  <1>5. \A h \in O!Live(r)' : orun'[f[h]].pc = "delete" /\ O!Repo(f[h])' = r => h \in orun'[f[h]].listed
    <2> SUFFICES ASSUME NEW h \in O!Live(r), orun'[f[h]].pc = "delete", O!Repo(f[h])' = r
                 PROVE  h \in orun'[f[h]].listed
      BY <1>4
    <2>1. f[h] \in OUpdaters
      BY <1>1 DEF AnswersFor
    <2>2. CASE f[h] = u
      BY <1>3, <1>4, <2>2 DEF O!Repo
    <2>3. CASE f[h] # u
      BY <1>1, <1>3, <2>1, <2>3 DEF AnswersFor, O!Repo
    <2> QED BY <2>2, <2>3
  <1> QED BY <1>1, <1>4, <1>5, Fewer

LEMMA DeleteOwned ==
  ASSUME OTypeInv, Owned, NEW u \in OUpdaters, O!DeleteHook(u)
  PROVE  Owned'
  <1> SUFFICES ASSUME NEW r \in Repos \ omissed' PROVE \E g : AnswersFor(g, r)'
    BY DEF Owned, O!DeleteHook
  <1>1. PICK f : AnswersFor(f, r)
    BY DEF Owned, O!DeleteHook
  <1>2. orun[u].pc = "delete" /\ O!Repo(u) \in Repos /\ ohooks \in [Repos -> SUBSET O!Hook]
    BY ORepoIsOne DEF O!DeleteHook, OTypeInv, O!TypeOK
  <1>3. PICK h0 \in orun[u].listed :
          \/ /\ ohooks' = [ohooks EXCEPT ![O!Repo(u)] = @ \ {h0}]
             /\ orun' = [orun EXCEPT ![u].listed = @ \ {h0}]
          \/ /\ ohooks' \in {ohooks, [ohooks EXCEPT ![O!Repo(u)] = @ \ {h0}]}
             /\ orun' = [orun EXCEPT ![u].pc = "failed"]
    BY DEF O!DeleteHook
  <1>4. O!Live(r)' \subseteq O!Live(r)
    BY <1>2, <1>3 DEF O!Live
  <1>5. CASE /\ ohooks' = [ohooks EXCEPT ![O!Repo(u)] = @ \ {h0}]
             /\ orun' = [orun EXCEPT ![u].listed = @ \ {h0}]
    <2>1. /\ \A v \in OUpdaters \ {u} : orun'[v] = orun[v]
          /\ orun'[u].todo = orun[u].todo
          /\ orun'[u].listed = orun[u].listed \ {h0}
      BY <1>5, OSetField DEF ORunRecord
    <2>2. r = O!Repo(u) => h0 \notin O!Live(r)'
      BY <1>2, <1>5 DEF O!Live
    <2>3. ASSUME NEW h \in O!Live(r)', orun'[f[h]].pc = "delete", O!Repo(f[h])' = r
          PROVE  h \in orun'[f[h]].listed
      <3>1. f[h] \in OUpdaters /\ h \in O!Live(r)
        BY <1>1, <1>4 DEF AnswersFor
      <3>2. CASE f[h] = u
        <4>1. h \in orun[u].listed /\ r = O!Repo(u)
          BY <1>1, <1>2, <2>1, <2>3, <3>1, <3>2 DEF AnswersFor, O!Repo
        <4> QED BY <2>1, <2>2, <3>2, <4>1
      <3>3. CASE f[h] # u
        BY <1>1, <2>1, <2>3, <3>1, <3>3 DEF AnswersFor, O!Repo
      <3> QED BY <3>2, <3>3
    <2> QED BY <1>1, <1>4, <2>3, Fewer
  <1>6. CASE orun' = [orun EXCEPT ![u].pc = "failed"]
    <2>1. orun'[u].pc # "delete" /\ \A v \in OUpdaters \ {u} : orun'[v] = orun[v]
      BY <1>6, OSetField DEF ORunRecord
    <2> QED BY <1>4, <2>1, NotDeleting DEF O!DeleteHook
  <1> QED BY <1>3, <1>5, <1>6

LEMMA CreateOwned ==
  ASSUME OTypeInv, Owned, NEW u \in OUpdaters, O!CreateHook(u)
  PROVE  Owned'
  <1> SUFFICES ASSUME NEW r \in Repos \ omissed' PROVE \E g : AnswersFor(g, r)'
    BY DEF Owned, O!CreateHook
  <1>1. orun[u].pc = "delete" /\ orun[u].listed = {} /\ O!Repo(u) \in Repos /\ ohooks \in [Repos -> SUBSET O!Hook]
    BY ORepoIsOne DEF O!CreateHook, OTypeInv, O!TypeOK
  <1>2. orun'[u].pc # "delete" /\ \A v \in OUpdaters \ {u} : orun'[v] = orun[v]
    <2>1. orun' = [orun EXCEPT ![u].pc = "created"] \/ orun' = [orun EXCEPT ![u].pc = "failed"]
      BY DEF O!CreateHook
    <2>2. orun[u] \in ORunRecord /\ orun \in [OUpdaters -> ORunRecord]
      BY OSetField
    <2> QED BY <2>1, <2>2 DEF ORunRecord
  <1> DEFINE more == [ohooks EXCEPT ![O!Repo(u)] = @ \cup {ONewHook(u)}]
  <1>3. ohooks' \in {ohooks, more}
    BY DEF O!CreateHook, ONewHook
  <1>4. CASE ohooks' = ohooks \/ r # O!Repo(u)
    <2>1. O!Live(r)' = O!Live(r)
      BY <1>1, <1>3, <1>4 DEF O!Live
    <2> QED BY <1>2, <2>1, NotDeleting DEF O!CreateHook
  <1>5. CASE ohooks' = more /\ r = O!Repo(u)
    <2>1. PICK f : AnswersFor(f, r)
      BY DEF Owned, O!CreateHook
    <2>2. \A h \in O!Live(r) : f[h] \in OUpdaters \ {u}
      BY <1>1, <1>5, <2>1 DEF AnswersFor
    <2>3. PICK new : new = ONewHook(u)
      OBVIOUS
    <2>4. O!Live(r)' = O!Live(r) \cup {new}
      BY <1>1, <1>5, <2>3, ONewHookProperties DEF O!Live, O!CreateHook
    <2>5. PICK g : g = [h \in O!Live(r)' |-> IF h = new THEN u ELSE f[h]]
      OBVIOUS
    <2>6. g \in [O!Live(r)' -> OUpdaters]
      BY <2>2, <2>4, <2>5
    <2>7. \A h, k \in O!Live(r)' : g[h] = g[k] => h = k
      BY <2>1, <2>2, <2>4, <2>5 DEF AnswersFor
    <2>8. \A h \in O!Live(r)' : orun'[g[h]].pc = "delete" /\ O!Repo(g[h])' = r => h \in orun'[g[h]].listed
      <3> SUFFICES ASSUME NEW h \in O!Live(r)', orun'[g[h]].pc = "delete", O!Repo(g[h])' = r
                   PROVE  h \in orun'[g[h]].listed
        OBVIOUS
      <3>1. g[h] # u /\ g[h] \in OUpdaters
        BY <1>2, <2>6
      <3>2. h \in O!Live(r) /\ g[h] = f[h]
        BY <2>4, <2>5, <3>1
      <3> QED BY <1>2, <2>1, <3>1, <3>2 DEF AnswersFor, O!Repo
    <2>9. AnswersFor(g, r)'
      BY <2>6, <2>7, <2>8 DEF AnswersFor
    <2> QED BY <2>9
  <1> QED BY <1>3, <1>4, <1>5

LEMMA NotAboutToDelete ==
  ASSUME OTypeInv, NEW u \in OUpdaters,
         O!Start(u) \/ O!Begin(u) \/ O!MarkCreating(u) \/ O!MarkFailed(u) \/ O!MarkTrue(u) \/ O!Kill(u)
  PROVE  orun'[u].pc # "delete" /\ \A v \in OUpdaters \ {u} : orun'[v] = orun[v]
  <1>1. CASE O!Start(u)
    <2>1. PICK skip : orun' = [orun EXCEPT ![u] = [O!Idle EXCEPT !.pc = "next", !.todo = RepoOrder, !.skip = skip]]
      BY <1>1 DEF O!Start
    <2> QED BY <2>1, OSetField DEF O!Idle
  <1>2. CASE O!Kill(u)
    BY <1>2, OSetField DEF O!Kill, O!Idle
  <1>3. CASE orun[u].pc # "idle" /\ ~ O!Kill(u)
    <2>1. /\ orun[u] \in ORunRecord
          /\ O!Proceed(u) \in ORunRecord /\ O!Proceed(u).pc \in {"idle", "next"}
          /\ O!GiveUp(u) \in ORunRecord /\ O!GiveUp(u).pc \in {"idle", "next"}
      BY <1>3, OSetField, OProceedProperties, OGiveUpProperties DEF OTypeInv, OWellFormed
    <2>2. CASE O!Begin(u)
      <3>1. PICK b : \/ orun' = [orun EXCEPT ![u] = O!Proceed(u)]
                     \/ orun' = [orun EXCEPT ![u] = [O!Proceed(u) EXCEPT !.hmac = b]]
                     \/ orun' = [orun EXCEPT ![u] = [O!GiveUp(u) EXCEPT !.hmac = b]]
                     \/ orun' = [orun EXCEPT ![u] = [orun[u] EXCEPT !.pc = "creating", !.hmac = b]]
        BY <2>2 DEF O!Begin
      <3>2. /\ [O!Proceed(u) EXCEPT !.hmac = b].pc = O!Proceed(u).pc
            /\ [O!GiveUp(u) EXCEPT !.hmac = b].pc = O!GiveUp(u).pc
            /\ [orun[u] EXCEPT !.pc = "creating", !.hmac = b].pc = "creating"
        BY <2>1 DEF ORunRecord
      <3>3. orun'[u].pc \in {O!Proceed(u).pc, O!GiveUp(u).pc, "creating"} /\ \A v \in OUpdaters \ {u} : orun'[v] = orun[v]
        BY <3>1, <3>2, OSetField
      <3> QED BY <2>1, <3>3
    <2>3. CASE O!MarkCreating(u)
      BY <2>1, <2>3, OSetField DEF O!MarkCreating, ORunRecord
    <2>4. CASE O!MarkFailed(u)
      BY <2>1, <2>4, OSetField DEF O!MarkFailed
    <2>5. CASE O!MarkTrue(u)
      BY <2>1, <2>5, OSetField DEF O!MarkTrue
    <2> QED BY <1>1, <1>3, <2>2, <2>3, <2>4, <2>5
  <1> QED BY <1>1, <1>2, <1>3 DEF O!Begin, O!MarkCreating, O!MarkFailed, O!MarkTrue

LEMMA NextOwned ==
  ASSUME OTypeInv, Owned, KnowsItsHooks, [O!Next]_O!vars
  PROVE  Owned'
  <1>1. CASE UNCHANGED O!vars
    <2> SUFFICES ASSUME NEW r \in Repos \ omissed' PROVE \E g : AnswersFor(g, r)'
      BY DEF Owned
    <2>1. PICK f : AnswersFor(f, r)
      BY <1>1 DEF Owned, O!vars
    <2>2. O!Live(r)' = O!Live(r) /\ orun' = orun
      BY <1>1 DEF O!vars, O!Live
    <2> QED BY <2>1, <2>2, Fewer DEF AnswersFor, O!Repo
  <1>2. ASSUME NEW u \in OUpdaters,
               O!Start(u) \/ O!Begin(u) \/ O!MarkCreating(u) \/ O!MarkFailed(u) \/ O!MarkTrue(u) \/ O!Kill(u)
        PROVE  Owned'
    <2>2. orun'[u].pc # "delete" /\ \A v \in OUpdaters \ {u} : orun'[v] = orun[v]
      BY <1>2, NotAboutToDelete
    <2>3. omissed' = omissed /\ \A r \in Repos : O!Live(r)' = O!Live(r)
      BY <1>2 DEF O!Live, O!Start, O!Begin, O!MarkCreating, O!MarkFailed, O!MarkTrue, O!Kill
    <2> QED BY <2>2, <2>3, NotDeleting DEF Owned
  <1>3. ASSUME NEW u \in OUpdaters, O!ListHooks(u) \/ O!DeleteHook(u) \/ O!CreateHook(u)
        PROVE  Owned'
    BY <1>3, ListOwned, DeleteOwned, CreateOwned
  <1> QED BY <1>1, <1>2, <1>3 DEF O!Next, O!Update

(* The instance comes with its own Cardinality, which is the same.          *)
LEMMA SameCardinality == \A S : O!Cardinality(S) = Cardinality(S)
  BY Zenon DEF O!Cardinality, Cardinality

LEMMA OwnedNoSurplus == KnowsItsHooks /\ Owned => O!NoSurplusHooks
  <1> SUFFICES ASSUME KnowsItsHooks, Owned, NEW r \in Repos \ omissed
               PROVE  Cardinality(O!Live(r)) <= Cardinality(OUpdaters)
    BY SameCardinality DEF O!NoSurplusHooks
  <1>1. PICK f : AnswersFor(f, r)
    BY DEF Owned
  <1>2. f \in Injection(O!Live(r), OUpdaters)
    BY <1>1, Fun_IsInj DEF AnswersFor
  <1> QED BY <1>2, FS_Injection DEF KnowsItsHooks

(* However many executions overlap, fail, are killed and are refused their  *)
(* annotations, a repository has no more webhooks than there are of them,   *)
(* unless one of them missed hooks that matched (pkg/cmd/webhook/update).   *)
THEOREM NoMoreThanUpdaters ==
  ASSUME KnowsItsHooks
  PROVE  O!Spec => []O!NoSurplusHooks
  <1>1. OTypeInv /\ Owned /\ [O!Next]_O!vars => (OTypeInv /\ Owned)'
    BY ONextTypeInv, NextOwned
  <1>2. O!Init => OTypeInv /\ Owned
    BY OInitTypeInv, InitOwned
  <1>3. Owned => O!NoSurplusHooks
    BY OwnedNoSurplus
  <1> QED BY <1>1, <1>2, <1>3, PTL DEF O!Spec

LEMMA OverlapPart == MCSpec => O!Spec
  <1>1. MCInit => O!Init
    BY DEF MCInit, NoOverlap
  <1>2. [MCNext]_mcvars => [O!Next]_O!vars
    BY DEF MCNext, mcvars, overlapping, O!vars
  <1> QED BY <1>1, <1>2, PTL DEF MCSpec, O!Spec

(* Executions that overlap leave no more webhooks than there are of them,   *)
(* unless they miss some.                                                   *)
THEOREM OneHookEach ==
  ASSUME KnowsItsHooks
  PROVE  MCSpec => []NoSurplus
  <1>1. MCSpec => []O!NoSurplusHooks
    BY OverlapPart, NoMoreThanUpdaters, PTL
  <1>2. O!NoSurplusHooks => NoSurplus
    BY DEF NoSurplus
  <1> QED BY <1>1, <1>2, PTL
=============================================================================
