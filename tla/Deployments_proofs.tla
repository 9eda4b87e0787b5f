-------------------------- MODULE Deployments_proofs --------------------------
(* Theorems about DeploymentStatus, for any environments, repositories and  *)
(* versions, and any bounds of time, changes and faults: what the git       *)
(* server shows, however often the pipeline fails half way; and about       *)
(* HelmRelease (the instance R), for any charts, options and pipelines:     *)
(* what is published, however they fail and get in each other's way.        *)
EXTENDS MCDeployments, FiniteSetTheorems, FunctionTheorems, SequenceTheorems, TLAPS

-----------------------------------------------------------------------------
(* The invariant.                                                          *)

(* Only relative charts have no time of deployment.                        *)
TimedIn(r) == \A x \in Releases : r[x] # Nil => (r[x].last = Nil <=> x[2] \in Local)
Timed == TimedIn(report) /\ TimedIn(saved)

(* The identifiers number the deployments.                                 *)
Numbered ==
  /\ IsFiniteSet(deployments)
  /\ \A d \in deployments : d.id < Cardinality(deployments)
  /\ \A d, e \in deployments : d.id = e.id => d = e

(* Every release that has deployments has a latest one.                    *)
HasLatest ==
  \A d \in deployments : \E m \in deployments :
    m.release = d.release /\ \A e \in deployments : e.release = d.release => e.id <= m.id

(* The deployments of the release that is worked on.                       *)
Existing == {d \in deployments : d.release = run.release /\ d.ref = Ref}

(* While a release is worked on it is in the report; the deployment to be  *)
(* created is not there, or was overlooked, and then it is the latest one. *)
Working ==
  /\ run.pc \in {"list", "create", "status"} => run.release \in Releases /\ report[run.release] # Nil
  /\ run.pc \in {"create", "status"} => Ref # Any
  /\ run.pc = "create" => Existing = {} \/ <<run.release, Ref>> \in missed
  /\ run.pc = "status" => \E d \in Existing : d.id = Cardinality(deployments) - 1
  /\ \A x \in run.todo : report[x] # Nil
  /\ run.pc \in {"idle", "reported"} => run.todo = {}

Inv == TypeOK /\ Timed /\ Numbered /\ HasLatest /\ DeployedOnce /\ Working

-----------------------------------------------------------------------------
(* Types of the parts of the state.                                        *)

LEMMA ConstantTypes ==
  /\ Versions \subseteq Nat /\ Nil \notin Versions /\ Nil \notin Nat /\ Nil \notin Time
  /\ Any \notin Nat /\ Any # Nil /\ Any \notin Versions
  /\ Time \subseteq Nat /\ MaxTime \in Nat /\ MaxFaults \in Nat /\ MaxChanges \in Nat
  /\ FailOnError \in BOOLEAN /\ Grouped \in BOOLEAN /\ AutoInactive \in BOOLEAN
  <1>1. Time \subseteq Nat
    BY DeploymentStatusAssumption DEF Time
  <1>2. FailOnError \in BOOLEAN /\ Grouped \in BOOLEAN /\ AutoInactive \in BOOLEAN
    BY DeploymentStatusAssumption, Zenon
  <1> QED BY <1>1, <1>2, DeploymentStatusAssumption

Reports == [Releases -> Entry \cup {Nil}]

RunRecord ==
  [pc : {"idle", "reported", "list", "create", "status"}, todo : SUBSET Releases, release : Releases \cup {Nil}]

LEMMA StateTypes ==
  ASSUME TypeOK
  PROVE  report \in Reports /\ saved \in Reports /\ run \in RunRecord
  BY DEF TypeOK, Reports, RunRecord

(* What the report says of a release.                                      *)
LEMMA ReleaseInfoProperties ==
  ASSUME TypeOK, Timed, NEW x \in Releases, NEW latest \in [Repos -> Versions]
  PROVE  /\ ReleaseInfo(x, latest) \in Entry \cup {Nil}
         /\ ReleaseInfo(x, latest) # Nil => (ReleaseInfo(x, latest).last = Nil <=> x[2] \in Local)
  <1>1. x[2] \in Repos /\ (x[2] \in Oci => x[2] \notin Local)
    BY DeploymentStatusAssumption DEF Releases
  <1>2. /\ now \in Time /\ now # Nil /\ report[x] \in Entry \cup {Nil} /\ helmfile[x] \in Requests \cup {Nil}
        /\ Nil \notin Requests /\ latest[x[2]] \in Versions
    BY <1>1, ConstantTypes, StateTypes DEF TypeOK, Reports, Requests
  <1>3. CASE helmfile[x] = Nil
    BY <1>3 DEF ReleaseInfo
  <1>4. CASE helmfile[x] # Nil /\ x[2] \in Local
    <2>1. ReleaseInfo(x, latest) = [version |-> helmfile[x], last |-> Nil]
      BY <1>1, <1>4 DEF ReleaseInfo
    <2> QED BY <1>2, <1>4, <2>1 DEF Entry
  <1>5. CASE helmfile[x] # Nil /\ x[2] \notin Local /\ x[2] \in Oci
    <2>1. ReleaseInfo(x, latest) = [version |-> helmfile[x], last |-> now]
      BY <1>5 DEF ReleaseInfo
    <2> QED BY <1>2, <1>5, <2>1 DEF Entry
  <1>6. CASE helmfile[x] # Nil /\ x[2] \notin Local /\ x[2] \notin Oci
    <2> DEFINE v == IF helmfile[x] = Any THEN latest[x[2]] ELSE helmfile[x]
               kept == report[x] # Nil /\ report[x].version = helmfile[x]
    <2>1. ReleaseInfo(x, latest) = IF kept THEN report[x] ELSE [version |-> v, last |-> now]
      BY <1>6 DEF ReleaseInfo
    <2>2. v \in Requests
      BY <1>2, <1>6 DEF Requests
    <2> HIDE DEF v
    <2>3. CASE kept
      BY <1>2, <1>6, <2>1, <2>3 DEF Timed, TimedIn
    <2>4. CASE ~ kept
      BY <1>2, <1>6, <2>1, <2>2, <2>4 DEF Entry
    <2> QED BY <2>3, <2>4
  <1> QED BY <1>3, <1>4, <1>5, <1>6

-----------------------------------------------------------------------------
(* The steps of the pipeline.                                              *)

(* Reporting begins with types as they should be.                          *)
LEMMA ReportInv ==
  ASSUME Inv, Report
  PROVE  Inv'
  <1> USE DEF Inv
  <1>1. PICK latest \in [Repos -> Versions] : report' = [x \in Releases |-> ReleaseInfo(x, latest)]
    BY DEF Report
  <1>2. report' \in Reports /\ \A x \in Releases : report'[x] = ReleaseInfo(x, latest)
    BY <1>1, ReleaseInfoProperties DEF Reports
  <1>3. run'.pc = "reported" /\ run'.todo = run.todo /\ run'.release = run.release /\ run' \in RunRecord
    BY DEF Report, TypeOK, RunRecord
  <1>4. TypeOK'
    <2>1. {report', saved'} \subseteq [Releases -> Entry \cup {Nil}]
      BY <1>2, StateTypes DEF Report, Reports
    <2> QED BY <1>3, <2>1 DEF Report, TypeOK, RunRecord
  <1>5. Timed'
    BY <1>2, ReleaseInfoProperties DEF Timed, TimedIn, Report
  <1>6. Numbered' /\ HasLatest' /\ DeployedOnce'
    BY DEF Report, Numbered, HasLatest, DeployedOnce
  <1>7. Working'
    BY <1>3 DEF Working, Report
  <1> QED BY <1>4, <1>5, <1>6, <1>7

(* Ending leaves nothing to do, and a report that was there.               *)
LEMMA EndProperties ==
  ASSUME TypeOK, Timed, NEW left \in SUBSET {report, saved}, End(left)
  PROVE  /\ run' \in RunRecord /\ Working' /\ Timed'
         /\ report' \in Reports /\ saved' \in Reports
         /\ run'.pc = "idle"
  <1>1. run'.pc = "idle" /\ run' \in RunRecord /\ run'.todo = {}
    BY DEF End, Idle, RunRecord
  <1>2. report' \in {report, saved} /\ saved' = report'
    BY DEF End
  <1> QED BY <1>1, <1>2, StateTypes DEF Working, Timed

(* Going on with releases that are in the report.                          *)
LEMMA ContinueProperties ==
  ASSUME TypeOK, Timed, NEW todo \in SUBSET Releases, Continue(todo),
         \A x \in todo : report[x] # Nil
  PROVE  /\ run' \in RunRecord /\ Working' /\ Timed'
         /\ report' = report /\ saved' \in Reports
  <1>1. CASE todo = {} /\ End({report})
    <2>1. report' = report
      BY <1>1 DEF End
    <2> QED BY <1>1, <2>1, EndProperties
  <1>2. CASE (\E x \in todo : run' = [pc |-> "list", todo |-> todo \ {x}, release |-> x])
             /\ UNCHANGED <<report, saved>>
    <2>1. PICK x \in todo : run' = [pc |-> "list", todo |-> todo \ {x}, release |-> x]
      BY <1>2
    <2> QED BY <1>2, <2>1, StateTypes DEF RunRecord, Working, Timed
  <1> QED BY <1>1, <1>2 DEF Continue

(* An error: the pipeline goes on, or ends.                                *)
LEMMA FailedProperties ==
  ASSUME TypeOK, Timed, Working, Failed
  PROVE  /\ run' \in RunRecord /\ Working' /\ Timed'
         /\ report' \in Reports /\ saved' \in Reports
  <1> DEFINE left == IF Grouped THEN {x \in run.todo : x[2] # run.release[2]} ELSE run.todo
  <1>1. CASE End({report, saved})
    BY <1>1, EndProperties
  <1>2. CASE Continue(left)
    <2>1. left \in SUBSET Releases /\ \A x \in left : report[x] # Nil
      BY DEF TypeOK, Working
    <2> HIDE DEF left
    <2> QED BY <1>2, <2>1, ContinueProperties, StateTypes
  <1> QED BY <1>1, <1>2 DEF Failed

(* A failing call counts.                                                  *)
LEMMA FailsProperties ==
  ASSUME TypeOK, NEW kind, Fails(kind)
  PROVE  faults' \in 0 .. MaxFaults /\ faults' = faults + 1
  BY ConstantTypes DEF TypeOK, Fails

(* Steps that leave the deployments and the rest alone.                    *)
LEMMA OnlyRun ==
  ASSUME Inv, UNCHANGED <<now, helmfile, deployments, missed, changes>>,
         faults' \in 0 .. MaxFaults, run' \in RunRecord, Working', Timed',
         report' \in Reports, saved' \in Reports
  PROVE  Inv'
  <1>1. TypeOK'
    BY DEF Inv, TypeOK, RunRecord, Reports
  <1> QED BY <1>1 DEF Inv, Numbered, HasLatest, DeployedOnce

LEMMA StartInv ==
  ASSUME Inv, Start
  PROVE  Inv'
  <1>1. Continue({x \in Releases : Recent(x)}) /\ UNCHANGED <<now, helmfile, deployments, missed, changes, faults>>
    BY DEF Start
  <1>2. \A x \in {y \in Releases : Recent(y)} : report[x] # Nil
    BY DEF Recent
  <1>3. run' \in RunRecord /\ Working' /\ Timed' /\ report' \in Reports /\ saved' \in Reports
    BY <1>1, <1>2, ContinueProperties, StateTypes DEF Inv
  <1> QED BY <1>1, <1>3, OnlyRun DEF Inv, TypeOK

(* Nothing found: what is there and was not on the page is noted.          *)
LEMMA NotFoundInv ==
  ASSUME Inv, NEW page, NotFound(page), run.pc = "list", Ref # Any,
         \A d \in page : ~ Matches(d), faults' \in 0 .. MaxFaults,
         UNCHANGED <<now, helmfile, deployments, changes>>
  PROVE  Inv'
  <1> USE DEF Inv
  <1>1. run' \in RunRecord /\ run'.pc = "create" /\ run'.release = run.release /\ run'.todo = run.todo
    BY DEF NotFound, TypeOK, RunRecord
  <1>2. UNCHANGED <<report, saved>> /\ Ref' = Ref
    BY <1>1 DEF NotFound, Ref
  <1>3. run.release \in Releases /\ Ref \in Versions
    <2>1. run.release \in Releases /\ report[run.release] \in Entry
      BY StateTypes DEF Working, Reports
    <2> QED BY <2>1 DEF Ref, Entry, Requests
  <1>4. missed \subseteq missed' /\ missed' \subseteq Releases \X Versions
    BY <1>3 DEF NotFound, TypeOK
  <1>5. Existing = {} \/ <<run.release, Ref>> \in missed'
    BY DEF NotFound, Existing, Matches
  <1>6. Existing' = Existing
    BY <1>1, <1>2 DEF Existing
  <1>7. Working'
    BY <1>1, <1>2, <1>5, <1>6 DEF Working
  <1>8. DeployedOnce'
    BY <1>4 DEF DeployedOnce
  <1>9. TypeOK'
    BY <1>1, <1>2, <1>4 DEF TypeOK, RunRecord
  <1> QED BY <1>2, <1>7, <1>8, <1>9 DEF Timed, Numbered, HasLatest

LEMMA ListInv ==
  ASSUME Inv, List
  PROVE  Inv'
  <1>1. UNCHANGED <<now, helmfile, deployments, changes>> /\ run.pc = "list"
    BY DEF List
  <1>2. CASE Continue(run.todo) /\ UNCHANGED <<missed, faults>>
    <2>1. run' \in RunRecord /\ Working' /\ Timed' /\ report' \in Reports /\ saved' \in Reports
      BY <1>1, <1>2, ContinueProperties, StateTypes DEF Inv, TypeOK, Working
    <2> QED BY <1>1, <1>2, <2>1, OnlyRun DEF Inv, TypeOK
  <1>3. ASSUME NEW page, NotFound(page), \A d \in page : ~ Matches(d), Ref # Any, faults' \in 0 .. MaxFaults
        PROVE  Inv'
    BY <1>1, <1>3, NotFoundInv
  <1>4. CASE Fails("list") /\ Failed /\ UNCHANGED missed
    BY <1>1, <1>4, FailsProperties, FailedProperties, OnlyRun DEF Inv
  <1>5. CASE Ref # Any /\ Fails("missing") /\ NotFound({})
    <2>1. faults' \in 0 .. MaxFaults
      BY <1>5, FailsProperties DEF Inv
    <2> QED BY <1>3, <1>5, <2>1
  <1>6. faults \in 0 .. MaxFaults
    BY DEF Inv, TypeOK
  <1> QED BY <1>2, <1>3, <1>4, <1>5, <1>6 DEF List

(* A new deployment gets the next number.                                  *)
LEMMA CreateInv ==
  ASSUME Inv, Create
  PROVE  Inv'
  <1> USE DEF Inv
  <1>1. UNCHANGED <<now, helmfile, missed, changes>> /\ run.pc = "create"
    BY DEF Create
  <1>2. CASE Fails("create") /\ Failed /\ UNCHANGED deployments
    BY <1>1, <1>2, FailsProperties, FailedProperties, OnlyRun
  <1>3. CASE /\ deployments' = deployments \cup
                  {[id |-> Cardinality(deployments), release |-> run.release, ref |-> Ref, status |-> "none"]}
             /\ run' = [run EXCEPT !.pc = "status"]
             /\ UNCHANGED <<report, saved, faults>>
    <2> DEFINE new == [id |-> Cardinality(deployments), release |-> run.release, ref |-> Ref, status |-> "none"]
               n == Cardinality(deployments)
    <2>1. n \in Nat
      BY FS_CardinalityType DEF Numbered
    <2>2. run.release \in Releases /\ Ref \in Versions /\ (Existing = {} \/ <<run.release, Ref>> \in missed)
      <3>1. run.release \in Releases /\ report[run.release] \in Entry /\ Ref # Any
        BY <1>1, StateTypes DEF Working, Reports
      <3> QED BY <1>1, <3>1 DEF Working, Ref, Entry, Requests
    <2>3. new \in Deployment /\ new.id = n
      BY <2>1, <2>2 DEF Deployment
    <2>4. new \notin deployments
      BY <2>1, <2>3 DEF Numbered
    <2>5. IsFiniteSet(deployments') /\ Cardinality(deployments') = n + 1
      BY <1>3, <2>4, FS_AddElement DEF Numbered
    <2>6. \A d \in deployments : d.id \in Nat
      BY DEF TypeOK, Deployment
    <2>7. Numbered' /\ HasLatest'
      <3> HIDE DEF new, n
      <3>1. deployments' = deployments \cup {new}
        BY <1>3 DEF new
      <3>2. \A d \in deployments : d.id < n /\ d.id # new.id
        BY <2>1, <2>3, <2>6 DEF Numbered, n
      <3>3. \A d \in deployments' : d.id < n + 1 /\ d.id <= new.id
        BY <2>1, <2>3, <2>6, <3>1, <3>2
      <3>4. \A d, e \in deployments' : d.id = e.id => d = e
        BY <3>1, <3>2 DEF Numbered
      <3>5. ASSUME NEW d \in deployments'
            PROVE  \E m \in deployments' :
                     m.release = d.release /\ \A e \in deployments' : e.release = d.release => e.id <= m.id
        <4>1. CASE d.release = new.release
          BY <3>1, <3>3, <4>1
        <4>2. CASE d.release # new.release
          <5>1. d \in deployments
            BY <3>1, <4>2
          <5>2. PICK m \in deployments :
                  m.release = d.release /\ \A e \in deployments : e.release = d.release => e.id <= m.id
            BY <5>1 DEF HasLatest
          <5> QED BY <3>1, <4>2, <5>2
        <4> QED BY <4>1, <4>2
      <3> QED BY <2>5, <3>3, <3>4, <3>5 DEF Numbered, HasLatest
    <2>8. \A d \in deployments : d.release = run.release /\ d.ref = Ref => <<run.release, Ref>> \in missed
      BY <2>2 DEF Existing
    <2>9. DeployedOnce'
      BY <1>1, <1>3, <2>8 DEF DeployedOnce
    <2>10. run' \in RunRecord
      BY <1>3 DEF TypeOK, RunRecord
    <2>11. TypeOK'
      BY <1>1, <1>3, <2>3, <2>10 DEF TypeOK, RunRecord
    <2>12. run'.pc = "status" /\ run'.release = run.release /\ run'.todo = run.todo
      BY <1>3 DEF TypeOK
    <2>13. Ref' = Ref
      BY <1>3, <2>12 DEF Ref
    <2>14. new \in Existing' /\ new.id = Cardinality(deployments') - 1
      BY <1>3, <2>1, <2>3, <2>5, <2>12, <2>13 DEF Existing
    <2>15. Working'
      BY <1>1, <1>3, <2>2, <2>12, <2>13, <2>14 DEF Working
    <2>16. Timed'
      BY <1>3 DEF Timed
    <2> QED BY <2>7, <2>9, <2>11, <2>15, <2>16
  <1> QED BY <1>2, <1>3 DEF Create

(* The deployment of which the status is created is the latest one.        *)
LEMMA LatestChosen ==
  ASSUME Inv, run.pc = "status"
  PROVE  LET d == CHOOSE d \in deployments : \A e \in deployments : e.id <= d.id
         IN  d \in Existing /\ d.id = Cardinality(deployments) - 1
  <1>1. PICK d \in Existing : d.id = Cardinality(deployments) - 1
    BY DEF Inv, Working
  <1>2. d \in deployments
    BY DEF Existing
  <1>3. Cardinality(deployments) \in Nat
    BY FS_CardinalityType DEF Inv, Numbered
  <1>4. \A e \in deployments : e.id \in Nat /\ e.id < Cardinality(deployments)
    BY DEF Inv, Numbered, TypeOK, Deployment
  <1>5. \A e \in deployments : e.id <= d.id
    BY <1>1, <1>3, <1>4
  <1>6. ASSUME NEW c \in deployments, \A e \in deployments : e.id <= c.id PROVE c = d
    <2>1. c.id = d.id
      BY <1>2, <1>4, <1>5, <1>6
    <2> QED BY <1>2, <2>1 DEF Inv, Numbered
  <1>7. d = CHOOSE c \in deployments : \A e \in deployments : e.id <= c.id
    BY <1>2, <1>5, <1>6
  <1> QED BY <1>1, <1>7

(* A deployment that succeeds changes statuses and nothing else.           *)
After(d, e) ==
  IF e = d THEN [d EXCEPT !.status = "success"]
  ELSE IF /\ AutoInactive /\ d.release[1] \notin Production
          /\ e.release = d.release /\ e.status = "success"
       THEN [e EXCEPT !.status = "inactive"]
  ELSE e

LEMMA SucceededProperties ==
  ASSUME Inv, NEW d \in deployments
  PROVE  /\ Succeeded(d) = {After(d, e) : e \in deployments}
         /\ \A e \in deployments :
              /\ After(d, e) \in Deployment
              /\ After(d, e).id = e.id /\ After(d, e).release = e.release /\ After(d, e).ref = e.ref
         /\ IsFiniteSet(Succeeded(d)) /\ Cardinality(Succeeded(d)) = Cardinality(deployments)
  <1> USE DEF Inv
  <1>1. Succeeded(d) = {After(d, e) : e \in deployments}
    BY DEF Succeeded, After
  <1>2. \A e \in deployments :
          /\ After(d, e) \in Deployment
          /\ After(d, e).id = e.id /\ After(d, e).release = e.release /\ After(d, e).ref = e.ref
    BY DEF TypeOK, Deployment, After
  <1>3. IsFiniteSet(Succeeded(d)) /\ Cardinality(Succeeded(d)) = Cardinality(deployments)
    <2> DEFINE f == [e \in deployments |-> After(d, e)]
    <2>1. f \in [deployments -> Succeeded(d)]
      BY <1>1
    <2>2. \A a, b \in deployments : f[a] = f[b] => a = b
      <3> SUFFICES ASSUME NEW a \in deployments, NEW b \in deployments, f[a] = f[b] PROVE a = b
        OBVIOUS
      <3>1. After(d, a).id = After(d, b).id
        OBVIOUS
      <3>2. a.id = b.id
        BY <1>2, <3>1
      <3> QED BY <3>2 DEF Numbered
    <2>3. \A t \in Succeeded(d) : \E e \in deployments : f[e] = t
      BY <1>1
    <2> HIDE DEF f
    <2>4. f \in Bijection(deployments, Succeeded(d))
      BY <2>1, <2>2, <2>3, Fun_IsBij
    <2> QED BY <2>4, FS_Bijection DEF Numbered, ExistsBijection
  <1> QED BY <1>1, <1>2, <1>3

LEMMA CreateStatusInv ==
  ASSUME Inv, CreateStatus
  PROVE  Inv'
  <1> USE DEF Inv
  <1>1. UNCHANGED <<now, helmfile, missed, changes>> /\ run.pc = "status"
    BY DEF CreateStatus
  <1>2. CASE Fails("status") /\ Failed /\ UNCHANGED deployments
    BY <1>1, <1>2, FailsProperties, FailedProperties, OnlyRun
  <1>3. CASE /\ deployments' = Succeeded(CHOOSE d \in deployments : \A e \in deployments : e.id <= d.id)
             /\ Continue(run.todo)
             /\ UNCHANGED faults
    <2>1. PICK d \in deployments : deployments' = Succeeded(d)
      BY <1>1, <1>3, LatestChosen DEF Existing
    <2>2. run' \in RunRecord /\ Working' /\ Timed' /\ report' \in Reports /\ saved' \in Reports
      BY <1>1, <1>3, ContinueProperties, StateTypes DEF TypeOK, Working
    <2>3. TypeOK'
      <3>1. deployments' \subseteq Deployment
        BY <2>1, SucceededProperties
      <3>2. faults' = faults
        BY <1>3
      <3> QED BY <1>1, <2>2, <3>1, <3>2 DEF TypeOK, RunRecord, Reports
    <2>4. HasLatest'
      <3> SUFFICES ASSUME NEW x \in deployments'
                   PROVE  \E m \in deployments' :
                            m.release = x.release /\ \A e \in deployments' : e.release = x.release => e.id <= m.id
        BY DEF HasLatest
      <3>1. PICK a \in deployments : x = After(d, a)
        BY <2>1, SucceededProperties
      <3>2. PICK m \in deployments :
              m.release = a.release /\ \A e \in deployments : e.release = a.release => e.id <= m.id
        BY DEF HasLatest
      <3>3. \A y \in deployments' : \E e \in deployments : y.id = e.id /\ y.release = e.release
        BY <2>1, SucceededProperties
      <3>4. PICK z \in deployments' : z.id = m.id /\ z.release = m.release
        BY <2>1, SucceededProperties
      <3>5. x.release = a.release
        BY <3>1, SucceededProperties
      <3> QED BY <3>2, <3>3, <3>4, <3>5
    <2>5. Numbered'
      <3>1. IsFiniteSet(deployments') /\ Cardinality(deployments') = Cardinality(deployments)
        BY <2>1, SucceededProperties
      <3>2. ASSUME NEW x \in deployments' PROVE x.id < Cardinality(deployments)
        BY <2>1, SucceededProperties DEF Numbered
      <3>3. ASSUME NEW x \in deployments', NEW y \in deployments', x.id = y.id PROVE x = y
        <4>1. PICK a \in deployments : x = After(d, a)
          BY <2>1, SucceededProperties
        <4>2. PICK b \in deployments : y = After(d, b)
          BY <2>1, SucceededProperties
        <4>3. a.id = b.id
          BY <3>3, <4>1, <4>2, SucceededProperties
        <4>4. a = b
          BY <4>3 DEF Numbered
        <4> QED BY <4>1, <4>2, <4>4
      <3> QED BY <3>1, <3>2, <3>3 DEF Numbered
    <2>6. DeployedOnce'
      <3> SUFFICES ASSUME NEW x \in deployments', NEW y \in deployments', x.release = y.release, x.ref = y.ref,
                          x.id # y.id
                   PROVE  <<x.release, x.ref>> \in missed'
        BY DEF DeployedOnce
      <3>1. PICK a \in deployments : x = After(d, a)
        BY <2>1, SucceededProperties
      <3>2. PICK b \in deployments : y = After(d, b)
        BY <2>1, SucceededProperties
      <3>3. /\ a.release = b.release /\ a.ref = b.ref /\ x.id = a.id /\ y.id = b.id
            /\ x.release = a.release /\ x.ref = a.ref
        BY <3>1, <3>2, SucceededProperties
      <3> QED BY <1>1, <3>3 DEF DeployedOnce
    <2> QED BY <2>2, <2>3, <2>4, <2>5, <2>6
  <1>4. UNCHANGED faults => faults' \in 0 .. MaxFaults
    BY DEF TypeOK
  <1> QED BY <1>2, <1>3 DEF CreateStatus

(* What goes on around the pipeline.                                       *)
LEMMA AroundInv ==
  ASSUME Inv, Tick \/ (\E x \in Releases : Change(x)) \/ Kill \/ UNCHANGED vars
  PROVE  Inv'
  <1> USE DEF Inv
  <1>1. CASE Tick
    <2>1. now' \in Time
      BY <1>1, ConstantTypes DEF Tick, TypeOK, Time
    <2> QED BY <1>1, <2>1 DEF Tick, TypeOK, Timed, Numbered, HasLatest, DeployedOnce, Working, Existing, Ref
  <1>2. ASSUME NEW x \in Releases, Change(x) PROVE Inv'
    <2>1. changes' \in 0 .. MaxChanges
      BY <1>2, ConstantTypes DEF Change, TypeOK
    <2>2. helmfile' \in [Releases -> Requests \cup {Nil}]
      BY <1>2 DEF Change, Upgrades, TypeOK, Requests
    <2> QED BY <1>2, <2>1, <2>2 DEF Change, TypeOK, Timed, Numbered, HasLatest, DeployedOnce, Working, Existing, Ref
  <1>3. CASE Kill
    <2>1. run' \in RunRecord /\ Working' /\ Timed' /\ report' \in Reports /\ saved' \in Reports
      BY <1>3, EndProperties DEF Kill
    <2> QED BY <1>3, <2>1, FailsProperties, OnlyRun DEF Kill
  <1>4. CASE UNCHANGED vars
    BY <1>4 DEF vars, TypeOK, Timed, Numbered, HasLatest, DeployedOnce, Working, Existing, Ref
  <1> QED BY <1>1, <1>2, <1>3, <1>4

LEMMA InitInv == Init => Inv
  <1> SUFFICES ASSUME Init PROVE Inv
    OBVIOUS
  <1>1. TypeOK
    BY ConstantTypes DEF Init, TypeOK, Idle, Time, Requests
  <1>2. IsFiniteSet({}) /\ Cardinality({}) = 0
    BY FS_EmptySet
  <1> QED BY <1>1, <1>2 DEF Init, Inv, Timed, TimedIn, Numbered, HasLatest, DeployedOnce, Working, Idle

LEMMA NextInv == Inv /\ [Next]_vars => Inv'
  BY ReportInv, StartInv, ListInv, CreateInv, CreateStatusInv, AroundInv DEF Next, Pipeline

(* The report, the deployments and the pipeline are well formed, and the   *)
(* deployments are numbered in the order of their creation.                *)
THEOREM Invariance == Spec => []Inv
  <1> QED BY InitInv, NextInv, PTL DEF Spec

(* A version of a release has one deployment in an environment, although   *)
(* the pipeline fails half way and is run again, unless a page of the list *)
(* was without it (FindExistingDeploymentInEnvironment of                  *)
(* pkg/cmd/helmfile/status): for pages of any size and whatever is on them.*)
THEOREM NoSecondDeployment == Spec => []DeployedOnce
  <1>1. Inv => DeployedOnce
    BY DEF Inv
  <1> QED BY <1>1, Invariance, PTL

-----------------------------------------------------------------------------
(* What is shown when nothing fails.                                       *)

(* The options under which every release in the report is deployed and     *)
(* replaces the one before: without --deploy-offset, inactive deployments  *)
(* are set automatically, and relative charts, which have no time, count.  *)
AllRecent == Offset = Nil /\ AutoInactive = TRUE /\ (Grouped = TRUE \/ Local = {})

(* The deployment that has no status yet.                                  *)
Fresh(d) == run.pc = "status" /\ d.id = Cardinality(deployments) - 1

(* Replaced by a later one of the same release.                            *)
Replaced(d) == \E e \in deployments : e.release = d.release /\ d.id < e.id /\ ~ Fresh(e)

Superseded(d) == d.release[1] \notin Production /\ Replaced(d)

(* The pipeline is done with a release.                                    *)
Done(x) ==
  \/ run.pc = "idle"
  \/ run.pc \in {"list", "create", "status"} /\ x \notin run.todo /\ x # run.release

(* An entry without a version is not deployed.                             *)
Deployable(x) == report[x] # Nil /\ report[x].version # Any

DeployedAt(x) == \E d \in deployments : d.release = x /\ d.ref = report[x].version

(* As long as nothing fails: only the latest deployment of a release is    *)
(* active, but in production, and a release the pipeline is done with has  *)
(* its deployment.                                                         *)
Statuses ==
  \A d \in deployments :
    d.status = IF Fresh(d) THEN "none" ELSE IF Superseded(d) THEN "inactive" ELSE "success"
DoneDeployed == \A x \in Releases : Deployable(x) /\ Done(x) => DeployedAt(x)

Quiet == faults = 0 => Statuses /\ DoneDeployed

(* Every release in the report is worked on.                               *)
LEMMA AllInReportRecent ==
  ASSUME AllRecent, Inv, NEW x \in Releases
  PROVE  Recent(x) <=> report[x] # Nil
  BY DEF AllRecent, Inv, Timed, TimedIn, Recent

(* A step that leaves the deployments alone keeps their statuses, if no    *)
(* deployment lacks its own before or after.                               *)
LEMMA StatusesStay ==
  ASSUME Statuses, UNCHANGED deployments, run.pc # "status", run'.pc # "status"
  PROVE  Statuses'
  BY DEF Statuses, Fresh, Superseded, Replaced

(* Done with one release: what is left is the same or nothing.             *)
LEMMA ContinueDone ==
  ASSUME NEW todo \in SUBSET Releases, Continue(todo),
         \A d \in deployments : \E e \in deployments' : e.release = d.release /\ e.ref = d.ref,
         \A x \in Releases \ todo : Deployable(x) => DeployedAt(x)
  PROVE  DoneDeployed' /\ run'.pc \in {"idle", "list"}
  <1>1. report' = report
    BY DEF Continue, End
  <1>2. \A x \in Releases \ todo : Deployable(x)' => DeployedAt(x)'
    BY <1>1 DEF DeployedAt, Deployable
  <1>3. CASE todo = {} /\ End({report})
    <2>1. run'.pc = "idle"
      BY <1>3 DEF End, Idle
    <2> QED BY <1>2, <1>3, <2>1 DEF DoneDeployed
  <1>4. ASSUME NEW x \in todo, run' = [pc |-> "list", todo |-> todo \ {x}, release |-> x]
        PROVE  DoneDeployed' /\ run'.pc \in {"idle", "list"}
    <2>1. run'.pc = "list" /\ run'.todo = todo \ {x} /\ run'.release = x
      BY <1>4
    <2> QED BY <1>2, <2>1 DEF DoneDeployed, Done
  <1> QED BY <1>3, <1>4 DEF Continue

(* A release that is worked on has been done with, or is left.             *)
LEMMA DoneOrLeft ==
  ASSUME Inv, DoneDeployed, run.pc \in {"list", "create", "status"}
  PROVE  \A x \in Releases : Deployable(x) => x \in run.todo \/ x = run.release \/ DeployedAt(x)
  BY DEF DoneDeployed, Done

(* Without faults no call fails.                                           *)
LEMMA NothingFails ==
  ASSUME Inv, faults' = 0, Next \/ UNCHANGED vars
  PROVE  faults = 0 /\ \A kind \in FaultKinds \cup {"list", "missing", "create", "status", "kill"} : ~ Fails(kind)
  <1>1. faults \in 0 .. MaxFaults /\ MaxFaults \in Nat
    BY ConstantTypes DEF Inv, TypeOK
  <1>2. faults' = faults \/ faults' = faults + 1
    BY DEF Next, Pipeline, Tick, Change, Report, Start, List, Create, CreateStatus, Kill, Fails, vars
  <1> QED BY <1>1, <1>2 DEF Fails

LEMMA ListQuiet ==
  ASSUME Inv, Quiet, List, faults' = 0
  PROVE  Statuses' /\ DoneDeployed'
  <1>1. run.pc = "list" /\ UNCHANGED deployments
    BY DEF List
  <1>2. faults = 0 /\ ~ Fails("list") /\ ~ Fails("missing")
    BY NothingFails DEF Next, Pipeline
  <1>3. CASE Continue(run.todo) /\ (Ref = Any \/ DeployedAt(run.release))
    <2>1. ~ Deployable(run.release) \/ DeployedAt(run.release)
      BY <1>3 DEF Deployable, Ref
    <2>2. \A x \in Releases \ run.todo : Deployable(x) => DeployedAt(x)
      BY <1>1, <1>2, <2>1, DoneOrLeft DEF Quiet
    <2>3. run.todo \in SUBSET Releases
      BY DEF Inv, TypeOK
    <2>4. DoneDeployed' /\ run'.pc \in {"idle", "list"}
      BY <1>1, <1>3, <2>2, <2>3, ContinueDone
    <2> QED BY <1>1, <1>2, <2>4, StatusesStay DEF Quiet
  <1>4. CASE run' = [run EXCEPT !.pc = "create"] /\ report' = report
    <2>1. run'.pc = "create" /\ run'.todo = run.todo /\ run'.release = run.release
      BY <1>4 DEF Inv, TypeOK
    <2>2. DoneDeployed'
      BY <1>1, <1>2, <1>4, <2>1 DEF Quiet, DoneDeployed, Done, DeployedAt, Deployable
    <2> QED BY <1>1, <1>2, <2>1, <2>2, StatusesStay DEF Quiet
  <1>5. ASSUME NEW page \in Listings, NEW d \in page, Matches(d) PROVE DeployedAt(run.release)
    <2>1. d \in deployments
      BY <1>5 DEF Listings
    <2> QED BY <1>5, <2>1 DEF Matches, DeployedAt, Ref
  <1>6. \A page : NotFound(page) => run' = [run EXCEPT !.pc = "create"] /\ report' = report
    BY DEF NotFound
  <1>7. Ref # Any => \/ Continue(run.todo) /\ DeployedAt(run.release)
                     \/ \E page : NotFound(page)
    BY <1>2, <1>5 DEF List
  <1>8. Ref = Any => Continue(run.todo)
    BY <1>2 DEF List
  <1> QED BY <1>3, <1>4, <1>6, <1>7, <1>8

LEMMA CreateQuiet ==
  ASSUME Inv, Quiet, Create, faults' = 0
  PROVE  Statuses' /\ DoneDeployed'
  <1> DEFINE n == Cardinality(deployments)
  <1>2. faults = 0 /\ ~ Fails("create")
    BY NothingFails DEF Next, Pipeline
  <1>1. run.pc = "create" /\ report' = report
    BY <1>2 DEF Create
  <1>3. PICK new : /\ new = [id |-> n, release |-> run.release, ref |-> Ref, status |-> "none"]
                   /\ deployments' = deployments \cup {new} /\ run' = [run EXCEPT !.pc = "status"]
    BY <1>2 DEF Create
  <1>4. run'.pc = "status" /\ run'.todo = run.todo /\ run'.release = run.release
    BY <1>3 DEF Inv, TypeOK
  <1>5. n \in Nat /\ IsFiniteSet(deployments)
    BY FS_CardinalityType DEF Inv, Numbered
  <1>6. new.id = n /\ new.status = "none" /\ \A d \in deployments : d.id \in Nat /\ d.id < n
    BY <1>3 DEF Inv, TypeOK, Deployment, Numbered
  <1>7. Cardinality(deployments') = n + 1
    <2>1. new \notin deployments
      BY <1>5, <1>6
    <2> QED BY <1>3, <1>5, <2>1, FS_AddElement
  <1> HIDE DEF n
  <1>8. \A d \in deployments : ~ Fresh(d)' /\ ~ Fresh(d)
    BY <1>1, <1>5, <1>6, <1>7 DEF Fresh
  <1>9. Fresh(new)'
    BY <1>4, <1>5, <1>6, <1>7 DEF Fresh
  <1>10. ASSUME NEW d \in deployments PROVE Superseded(d)' <=> Superseded(d)
    <2>1. Replaced(d)' <=> Replaced(d)
      BY <1>3, <1>8, <1>9, Zenon DEF Replaced
    <2> QED BY <2>1 DEF Superseded
  <1>11. Statuses'
    <2>1. ASSUME NEW d \in deployments PROVE d.status = IF Superseded(d)' THEN "inactive" ELSE "success"
      <3>1. d.status = IF Superseded(d) THEN "inactive" ELSE "success"
        BY <1>2, <1>8 DEF Quiet, Statuses
      <3> QED BY <1>10, <3>1, Zenon
    <2> QED BY <1>3, <1>6, <1>8, <1>9, <2>1 DEF Statuses
  <1>12. DoneDeployed'
    <2>1. \A x \in Releases : DeployedAt(x) => DeployedAt(x)'
      BY <1>1, <1>3 DEF DeployedAt
    <2>2. \A x \in Releases : (Done(x)' => Done(x)) /\ (Deployable(x)' => Deployable(x))
      BY <1>1, <1>4 DEF Done, Deployable
    <2> QED BY <1>2, <2>1, <2>2 DEF Quiet, DoneDeployed
  <1> QED BY <1>11, <1>12

LEMMA CreateStatusQuiet ==
  ASSUME AllRecent, Inv, Quiet, CreateStatus, faults' = 0
  PROVE  Statuses' /\ DoneDeployed'
  <1>1. run.pc = "status"
    BY DEF CreateStatus
  <1>2. faults = 0 /\ ~ Fails("status")
    BY NothingFails DEF Next, Pipeline
  <1>3. PICK d \in Existing : deployments' = Succeeded(d) /\ d.id = Cardinality(deployments) - 1
    BY <1>1, <1>2, LatestChosen DEF CreateStatus
  <1>4. d \in deployments /\ d.release = run.release /\ d.ref = Ref
    BY <1>3 DEF Existing
  <1>5. Continue(run.todo)
    BY <1>2 DEF CreateStatus
  <1>6. Fresh(d) /\ \A e \in deployments : Fresh(e) => e = d
    BY <1>1, <1>3, <1>4 DEF Fresh, Inv, Numbered
  <1>7. \A e \in deployments : e.id \in Nat /\ e.id <= d.id
    <2>1. Cardinality(deployments) \in Nat
      BY FS_CardinalityType DEF Inv, Numbered
    <2> QED BY <1>3, <2>1 DEF Inv, Numbered, TypeOK, Deployment
  <1>8. \A e \in deployments : /\ After(d, e).id = e.id /\ After(d, e).release = e.release
                                 /\ After(d, e).ref = e.ref /\ After(d, e) \in deployments'
    BY <1>3, <1>4, SucceededProperties
  <1>9. \A x \in deployments' : \E e \in deployments : x = After(d, e)
    BY <1>3, <1>4, SucceededProperties
  <1>10. DoneDeployed' /\ run'.pc \in {"idle", "list"}
    <2>1. DeployedAt(run.release)
      BY <1>4 DEF DeployedAt, Ref
    <2>2. \A x \in Releases \ run.todo : Deployable(x) => DeployedAt(x)
      BY <1>1, <1>2, <2>1, DoneOrLeft DEF Quiet
    <2>3. run.todo \in SUBSET Releases
      BY DEF Inv, TypeOK
    <2> QED BY <1>1, <1>5, <1>8, <2>2, <2>3, ContinueDone
  <1>11. \A x \in deployments' : ~ Fresh(x)'
    BY <1>10 DEF Fresh
  <1>12. ASSUME NEW e \in deployments
         PROVE  Replaced(After(d, e))' <=> \E f \in deployments : f.release = e.release /\ e.id < f.id
    <2>1. PICK y : y = After(d, e)
      OBVIOUS
    <2>2. y.id = e.id /\ y.release = e.release
      BY <1>8, <2>1
    <2>3. Replaced(y)' <=> \E z \in deployments' : z.release = y.release /\ y.id < z.id
      BY <1>11, Zenon DEF Replaced
    <2> QED BY <1>8, <1>9, <2>1, <2>2, <2>3
  <1>13. ASSUME NEW e \in deployments
         PROVE  After(d, e).status = IF Superseded(After(d, e))' THEN "inactive" ELSE "success"
    <2>0. d \in Deployment /\ e \in Deployment
      BY <1>4 DEF Inv, TypeOK
    <2>1. Superseded(After(d, e))' <=>
            e.release[1] \notin Production /\ \E f \in deployments : f.release = e.release /\ e.id < f.id
      <3>1. Superseded(After(d, e))' <=> After(d, e).release[1] \notin Production /\ Replaced(After(d, e))'
        BY Zenon DEF Superseded
      <3> QED BY <1>8, <1>12, <3>1
    <2>2. CASE e = d
      <3>1. After(d, e).status = "success"
        BY <2>0, <2>2 DEF After, Deployment
      <3>2. ~ Superseded(After(d, e))'
        BY <1>4, <1>7, <2>1, <2>2
      <3> QED BY <3>1, <3>2, Zenon
    <2>3. CASE e # d /\ e.release = d.release /\ e.release[1] \notin Production
      <3>1. e.id < d.id
        BY <1>4, <1>7, <2>3 DEF Inv, Numbered
      <3>2. Superseded(After(d, e))'
        BY <1>4, <2>1, <2>3, <3>1
      <3>3. e.status \in {"inactive", "success"}
        BY <1>2, <1>6, <2>3 DEF Quiet, Statuses
      <3>4. After(d, e).status = "inactive"
        BY <2>0, <2>3, <3>3 DEF After, AllRecent, Deployment
      <3> QED BY <3>2, <3>4, Zenon
    <2>4. CASE e # d /\ e.release = d.release /\ e.release[1] \in Production
      <3>1. After(d, e) = e
        BY <2>4 DEF After
      <3>2. ~ Superseded(e) /\ ~ Fresh(e)
        BY <1>6, <2>4 DEF Superseded
      <3>3. e.status = "success"
        BY <1>2, <3>2 DEF Quiet, Statuses
      <3>4. ~ Superseded(After(d, e))'
        BY <2>1, <2>4
      <3> QED BY <3>1, <3>3, <3>4, Zenon
    <2>5. CASE e # d /\ e.release # d.release
      <3>1. After(d, e) = e
        BY <2>5 DEF After
      <3>2. ~ Fresh(e)
        BY <1>6, <2>5
      <3>3. e.status = IF Superseded(e) THEN "inactive" ELSE "success"
        BY <1>2, <3>2 DEF Quiet, Statuses
      <3>4. Replaced(e) <=> \E f \in deployments : f.release = e.release /\ e.id < f.id
        BY <1>6, <2>5, Zenon DEF Replaced
      <3>5. Superseded(After(d, e))' <=> Superseded(e)
        BY <2>1, <3>4 DEF Superseded
      <3> QED BY <3>1, <3>3, <3>5, Zenon
    <2> QED BY <2>2, <2>3, <2>4, <2>5
  <1>14. Statuses'
    <2> SUFFICES ASSUME NEW x \in deployments'
                 PROVE  x.status = IF Superseded(x)' THEN "inactive" ELSE "success"
      BY <1>11, Zenon DEF Statuses
    <2>1. PICK e \in deployments : x = After(d, e)
      BY <1>9
    <2> QED BY <1>13, <2>1
  <1> QED BY <1>10, <1>14

(* The pipeline begins with a report and all the releases in it.           *)
LEMMA ReportStartQuiet ==
  ASSUME AllRecent, Inv, Quiet, Report \/ Start, faults' = 0
  PROVE  Statuses' /\ DoneDeployed'
  <1>1. faults = 0 /\ UNCHANGED deployments /\ run.pc \in {"idle", "reported"}
    BY DEF Report, Start
  <1>2. CASE Report
    <2>1. run'.pc = "reported"
      BY <1>2 DEF Report, Inv, TypeOK
    <2> QED BY <1>1, <2>1, StatusesStay DEF Quiet, DoneDeployed, Done
  <1>3. CASE Start
    <2>1. \A x \in Releases \ {y \in Releases : Recent(y)} : Deployable(x) => DeployedAt(x)
      BY AllInReportRecent DEF Deployable
    <2>2. Continue({y \in Releases : Recent(y)})
      BY <1>3 DEF Start
    <2>3. DoneDeployed' /\ run'.pc \in {"idle", "list"}
      BY <1>1, <2>1, <2>2, ContinueDone
    <2> QED BY <1>1, <2>3, StatusesStay DEF Quiet
  <1> QED BY <1>2, <1>3

(* What goes on around the pipeline does not change what is shown.         *)
LEMMA AroundQuiet ==
  ASSUME Inv, Quiet, Tick \/ (\E x \in Releases : Change(x)) \/ Kill \/ UNCHANGED vars, faults' = 0
  PROVE  Statuses' /\ DoneDeployed'
  <1>1. ~ Kill /\ faults = 0
    BY NothingFails DEF Next, Kill
  <1>2. UNCHANGED <<report, deployments, run, faults>>
    BY <1>1 DEF Tick, Change, vars
  <1> QED BY <1>2 DEF Quiet, Statuses, Fresh, Superseded, Replaced, DoneDeployed, Done, Deployable, DeployedAt

LEMMA NextQuiet ==
  ASSUME AllRecent, Inv, Quiet, [Next]_vars
  PROVE  Quiet'
  BY ReportStartQuiet, ListQuiet, CreateQuiet, CreateStatusQuiet, AroundQuiet DEF Next, Pipeline, Quiet

(* Between pipelines, the deployment of what is reported is the active one *)
(* if versions only went up.                                               *)
LEMMA QuietLatestShown == Inv /\ Quiet => LatestShown
  <1> SUFFICES ASSUME Inv, Quiet, faults = 0, run.pc = "idle", NEW x \in Releases,
                      Reported(x), OnlyUpgraded(x)
               PROVE  IF x[1] \in Production THEN report[x].version \in Active(x)
                      ELSE Active(x) = {report[x].version}
    BY DEF LatestShown
  <1>1. PICK d \in deployments : d.release = x /\ d.ref = report[x].version
    BY DEF Reported, Quiet, DoneDeployed, Done, Deployable, DeployedAt
  <1>2. \A e \in deployments : e.id \in Nat /\ e.ref \in Nat
    BY ConstantTypes DEF Inv, TypeOK, Deployment
  <1>3. \A e \in deployments : e.status = IF Superseded(e) THEN "inactive" ELSE "success"
    BY DEF Quiet, Statuses, Fresh
  <1>4. \A e \in deployments : Replaced(e) <=> \E f \in deployments : f.release = e.release /\ e.id < f.id
    BY DEF Replaced, Fresh
  <1>5. PICK m \in deployments : m.release = x /\ \A e \in deployments : e.release = x => e.id <= m.id
    BY <1>1 DEF Inv, HasLatest
  <1>6. m.status = "success"
    <2>1. ~ Superseded(m)
      BY <1>2, <1>4, <1>5 DEF Superseded
    <2> QED BY <1>3, <2>1
  <1>7. m.ref = report[x].version
    <2>1. CASE m.id = d.id
      BY <1>1, <2>1 DEF Inv, Numbered
    <2>2. CASE m.id # d.id
      <3>1. d.id < m.id
        BY <1>1, <1>2, <1>5, <2>2
      <3>2. d.ref <= m.ref /\ m.ref <= report[x].version
        BY <1>1, <1>5, <3>1 DEF OnlyUpgraded
      <3> QED BY <1>1, <1>2, <3>2
    <2> QED BY <2>1, <2>2
  <1>8. ASSUME x[1] \notin Production, NEW e \in deployments, e.release = x, e.status = "success"
        PROVE  e = m
    <2>1. ~ Replaced(e)
      BY <1>3, <1>8 DEF Superseded
    <2>2. e.id = m.id
      BY <1>2, <1>4, <1>5, <1>8, <2>1
    <2> QED BY <2>2 DEF Inv, Numbered
  <1> QED BY <1>5, <1>6, <1>7, <1>8 DEF Active

(* As long as versions go up and nothing fails, the reported version of a  *)
(* release is active: deployed by this pipeline or an earlier one, and, but*)
(* in production, everything before it was replaced, whatever the pages of *)
(* the lists show (pkg/cmd/helmfile/status).                               *)
THEOREM UpgradesAreShown ==
  ASSUME AllRecent
  PROVE  Spec => []LatestShown
  <1>1. Init => Quiet
    BY DEF Init, Quiet, Statuses, DoneDeployed, Deployable
  <1>2. Inv /\ Quiet /\ [Next]_vars => Quiet'
    BY NextQuiet
  <1>3. Spec => []Quiet
    BY <1>1, <1>2, Invariance, PTL DEF Spec
  <1> QED BY <1>3, Invariance, QuietLatestShown, PTL

-----------------------------------------------------------------------------
(* The releases of charts (HelmRelease).                                   *)

(* The index of a branch is that of its packages, and those are what its   *)
(* history says: whoever has its history has its packages.                 *)
Linked(branch) ==
  /\ branch \in R!Branch
  /\ branch.log # <<>>
  /\ branch.packages = {branch.log[i] : i \in 2 .. Len(branch.log)}
  /\ branch.index = branch.packages

Releaser ==
  [pc : {"ready", "package", "clone", "commit", "push", "publish", "released", "failed"},
   at : Nat, clone : R!Branch \cup {Nil}]

ReleaseTypes ==
  /\ pages = Nil \/ Linked(pages)
  /\ runs \in [Releasers -> Releaser]
  /\ \A r \in Releasers : runs[r].clone = Nil \/ Linked(runs[r].clone)
  /\ failures \in 0 .. MaxFailures

OnPages(r) == R!Mode(setup[r]) = "pages"

(* The chart in place i is where a release publishes its charts.           *)
Shown(r, i) ==
  [chart |-> Charts[i], by |-> r] \in IF OnPages(r) THEN (IF pages = Nil THEN {} ELSE pages.index) ELSE registry

(* Where a release is: what it has behind it is published.                 *)
Underway(r) ==
  /\ runs[r].pc = "ready" => runs[r].at = 0
  /\ runs[r].pc \in {"package", "clone", "commit", "push", "publish"} => runs[r].at \in R!ChartsOf(setup[r])
  /\ runs[r].pc \in {"package", "clone", "commit", "push", "publish"} =>
       setup[r].noRelease \/ \A i \in R!ChartsOf(setup[r]) : i < runs[r].at => Shown(r, i)
  /\ runs[r].pc = "released" => setup[r].noRelease \/ \A i \in R!ChartsOf(setup[r]) : Shown(r, i)
  /\ runs[r].pc \in {"clone", "commit", "push"} => OnPages(r)
  /\ runs[r].pc \in {"commit", "push"} => runs[r].clone # Nil
  /\ runs[r].pc = "push" => R!Package(r) \in runs[r].clone.packages
  /\ runs[r].pc = "publish" => ~ OnPages(r)

ReleaseInv == ReleaseTypes /\ \A r \in Releasers : Underway(r)

LEMMA ReleaseConstants ==
  /\ Charts \in Seq(R!Range(Charts)) /\ MaxFailures \in Nat /\ Nil \notin R!Branch
  BY MCAssumption DEF R!HelmReleaseAssumption

LEMMA ChartsInOrder ==
  ASSUME NEW o, NEW i \in R!ChartsOf(o)
  PROVE  i \in Nat /\ i > 0 /\ \A r \in Releasers : [chart |-> Charts[i], by |-> r] \in R!Packages
  BY ReleaseConstants DEF R!ChartsOf, R!Packages, R!Range

(* A new package goes to the end of the history.                           *)
LEMMA IndexedLinked ==
  ASSUME NEW branch, Linked(branch), NEW package \in R!Packages
  PROVE  Linked(R!Indexed(branch, package)) /\ package \in R!Indexed(branch, package).packages
  <1> DEFINE log == Append(branch.log, package)
             n == Len(branch.log)
  <1>1. /\ branch.log \in Seq(R!Commits) /\ branch.packages \in SUBSET R!Packages
        /\ package \in R!Commits /\ n \in Nat /\ n # 0
    BY DEF Linked, R!Branch, R!Commits
  <1>2. /\ log \in Seq(R!Commits) /\ Len(log) = n + 1 /\ log # <<>>
        /\ log[n + 1] = package /\ \A i \in 1 .. n : log[i] = branch.log[i]
    BY <1>1
  <1>3. {log[i] : i \in 2 .. n + 1} = branch.packages \cup {package}
    <2>1. 2 .. n + 1 = 2 .. n \cup {n + 1}
      BY <1>1
    <2>2. \A i \in 2 .. n : i \in 1 .. n
      BY <1>1
    <2>3. {log[i] : i \in 2 .. n + 1} = {log[i] : i \in 2 .. n} \cup {log[n + 1]}
      BY <2>1
    <2>4. {log[i] : i \in 2 .. n} = {branch.log[i] : i \in 2 .. n}
      BY <1>2, <2>2
    <2> QED BY <1>2, <2>3, <2>4 DEF Linked
  <1>4. R!Indexed(branch, package) =
          [log |-> log, packages |-> branch.packages \cup {package}, index |-> branch.packages \cup {package}]
    BY DEF R!Indexed
  <1> DEFINE new == R!Indexed(branch, package)
  <1>5. new.log = log /\ new.packages = branch.packages \cup {package} /\ new.index = new.packages
    BY <1>4
  <1>6. new \in R!Branch
    BY <1>1, <1>2, <1>4 DEF R!Branch
  <1>7. new.packages = {new.log[i] : i \in 2 .. Len(new.log)}
    BY <1>2, <1>3, <1>5
  <1> HIDE DEF log, n, new
  <1>8. Linked(new) /\ package \in new.packages
    BY <1>2, <1>5, <1>6, <1>7 DEF Linked
  <1> QED BY <1>8 DEF new

LEMMA OrphanLinked ==
  ASSUME ReleaseTypes, NEW r \in Releasers
  PROVE  Linked(R!Orphan(r)) /\ R!Orphan(r) # Nil
  <1> DEFINE first == [failures |-> failures, by |-> r]
  <1>1. first \in R!Commits
    BY DEF ReleaseTypes, R!Commits
  <1>2. R!Orphan(r) = [log |-> <<first>>, packages |-> {}, index |-> {}]
    BY DEF R!Orphan
  <1> HIDE DEF first
  <1>3. <<first>> \in Seq(R!Commits) /\ Len(<<first>>) = 1 /\ <<first>> # <<>> /\ 2 .. 1 = {}
    BY <1>1
  <1>4. {<<first>>[i] : i \in 2 .. Len(<<first>>)} = {}
    BY <1>3
  <1>5. Linked(R!Orphan(r))
    BY <1>2, <1>3, <1>4 DEF Linked, R!Branch
  <1> QED BY <1>5, ReleaseConstants DEF Linked

(* A push that is accepted loses no package.                               *)
LEMMA AcceptedKeeps ==
  ASSUME NEW branch, Linked(branch), NEW clone, Linked(clone), R!IsPrefix(branch.log, clone.log)
  PROVE  branch.index \subseteq clone.index
  <1>1. branch.log \in Seq(R!Commits) /\ clone.log \in Seq(R!Commits)
    BY DEF Linked, R!Branch
  <1> DEFINE n == Len(branch.log)
  <1>2. n \in Nat /\ Len(clone.log) \in Nat /\ n <= Len(clone.log)
    BY <1>1 DEF R!IsPrefix
  <1>3. \A i \in 1 .. n : branch.log[i] = clone.log[i]
    <2>1. SubSeq(branch.log, 1, n) = SubSeq(clone.log, 1, n)
      BY DEF R!IsPrefix
    <2>2. \A i \in 1 .. n : SubSeq(branch.log, 1, n)[i] = branch.log[i] /\ SubSeq(clone.log, 1, n)[i] = clone.log[i]
      BY <1>1, <1>2
    <2> QED BY <2>1, <2>2
  <1>4. \A i \in 2 .. n : i \in 1 .. n /\ i \in 2 .. Len(clone.log)
    BY <1>2
  <1> HIDE DEF n
  <1>5. branch.index = {branch.log[i] : i \in 2 .. n} /\ clone.index = {clone.log[i] : i \in 2 .. Len(clone.log)}
    BY DEF Linked, n
  <1> QED BY <1>3, <1>4, <1>5

-----------------------------------------------------------------------------
(* What is published stays.                                                *)
Kept == /\ pages # Nil => pages' # Nil /\ pages.index \subseteq pages'.index
        /\ registry \subseteq registry'
        /\ setup' = setup

LEMMA PushKept ==
  ASSUME ReleaseInv, NEW r \in Releasers, R!Push(r)
  PROVE  Kept /\ (pages' = Nil \/ Linked(pages'))
  <1>1. Linked(runs[r].clone) /\ runs[r].clone # Nil
    BY DEF R!Push, ReleaseInv, ReleaseTypes, Underway
  <1>2. pages' = pages \/ (pages' = runs[r].clone /\ R!Accepts(runs[r].clone))
    BY DEF R!Push
  <1>3. setup' = setup /\ registry' = registry
    BY DEF R!Push
  <1>4. CASE pages' = pages
    BY <1>3, <1>4 DEF Kept, ReleaseInv, ReleaseTypes
  <1>5. CASE pages' = runs[r].clone /\ R!Accepts(runs[r].clone)
    <2>1. pages = Nil \/ pages.index \subseteq runs[r].clone.index
      BY <1>1, <1>5, AcceptedKeeps DEF R!Accepts, ReleaseInv, ReleaseTypes
    <2> QED BY <1>1, <1>3, <1>5, <2>1 DEF Kept
  <1> QED BY <1>2, <1>4, <1>5

LEMMA UploadKept ==
  ASSUME NEW r \in Releasers, R!oCIRegistry(r) \/ R!BasicRegistry(r)
  PROVE  Kept /\ pages' = pages
  BY DEF R!oCIRegistry, R!BasicRegistry, R!Upload, Kept

LEMMA OtherwiseKept ==
  ASSUME NEW r \in Releasers,
         R!Begin(r) \/ R!BuildAndPackage(r) \/ R!CloneGitHubPagesToDir(r) \/ R!Commit(r) \/ R!Retry(r)
  PROVE  Kept /\ pages' = pages
  BY DEF R!Begin, R!BuildAndPackage, R!CloneGitHubPagesToDir, R!Commit, R!Retry, Kept

LEMMA StillShown ==
  ASSUME Kept, NEW r, NEW i, Shown(r, i)
  PROVE  Shown(r, i)'
  BY DEF Kept, Shown, OnPages

(* A pipeline that does not move is where it was.                          *)
LEMMA OthersUnderway ==
  ASSUME Kept, NEW r, Underway(r), runs'[r] = runs[r]
  PROVE  Underway(r)'
  <1>1. R!Package(r)' = R!Package(r)
    BY DEF R!Package
  <1>2. setup' = setup /\ OnPages(r)' = OnPages(r)
    BY DEF Kept, OnPages
  <1> QED BY <1>1, <1>2, StillShown DEF Underway

(* Going on to the next chart, once the one at work is published.          *)
LEMMA NextChartUnderway ==
  ASSUME ReleaseTypes, Kept, NEW r \in Releasers, NEW clone, clone = Nil \/ Linked(clone), R!NextChart(r, clone),
         setup[r].noRelease \/ \A i \in R!ChartsOf(setup[r]) : i <= runs[r].at => Shown(r, i)'
  PROVE  /\ runs' \in [Releasers -> Releaser]
         /\ runs'[r].clone = Nil \/ Linked(runs'[r].clone)
         /\ \A x \in Releasers \ {r} : runs'[x] = runs[x]
         /\ Underway(r)'
  <1>1. runs \in [Releasers -> Releaser] /\ runs[r].at \in Nat
    BY DEF ReleaseTypes, Releaser
  <1>2. clone \in R!Branch \cup {Nil}
    BY DEF Linked
  <1>3. setup' = setup /\ OnPages(r)' = OnPages(r)
    BY DEF Kept, OnPages
  <1> DEFINE later == {i \in R!ChartsOf(setup[r]) : i > runs[r].at}
  <1>4. CASE later = {} /\ runs' = [runs EXCEPT ![r] = [pc |-> "released", at |-> runs[r].at, clone |-> Nil]]
    <2>1. [pc |-> "released", at |-> runs[r].at, clone |-> Nil] \in Releaser
      BY <1>1 DEF Releaser
    <2>2. runs'[r] = [pc |-> "released", at |-> runs[r].at, clone |-> Nil]
      BY <1>1, <1>4
    <2>3. \A i \in R!ChartsOf(setup[r]) : i <= runs[r].at
      BY <1>1, <1>4, ChartsInOrder
    <2>4. Underway(r)'
      BY <1>3, <2>2, <2>3 DEF Underway
    <2> QED BY <1>1, <1>4, <2>1, <2>2, <2>4
  <1>5. ASSUME NEW i \in later, \A j \in later : i <= j,
               runs' = [runs EXCEPT ![r] = [pc |-> "package", at |-> i, clone |-> clone]]
        PROVE  /\ runs' \in [Releasers -> Releaser]
               /\ runs'[r].clone = Nil \/ Linked(runs'[r].clone)
               /\ \A x \in Releasers \ {r} : runs'[x] = runs[x]
               /\ Underway(r)'
    <2>1. i \in R!ChartsOf(setup[r]) /\ i \in Nat
      BY ChartsInOrder
    <2>2. [pc |-> "package", at |-> i, clone |-> clone] \in Releaser
      BY <1>2, <2>1 DEF Releaser
    <2>3. runs'[r] = [pc |-> "package", at |-> i, clone |-> clone]
      BY <1>1, <1>5
    <2>4. \A j \in R!ChartsOf(setup[r]) : j < i => j <= runs[r].at
      BY <1>1, <1>5, <2>1, ChartsInOrder
    <2>5. Underway(r)'
      BY <1>3, <2>1, <2>3, <2>4 DEF Underway
    <2> QED BY <1>1, <1>5, <2>2, <2>3, <2>5
  <1> QED BY <1>4, <1>5 DEF R!NextChart

(* Going to another place of the same chart, or failing.                   *)
LEMMA GotoProperties ==
  ASSUME ReleaseTypes, NEW r \in Releasers, NEW pc, R!Goto(r, pc),
         pc \in {"ready", "package", "clone", "commit", "push", "publish", "released", "failed"}
  PROVE  /\ runs' \in [Releasers -> Releaser]
         /\ runs'[r].pc = pc /\ runs'[r].at = runs[r].at /\ runs'[r].clone = runs[r].clone
         /\ \A x \in Releasers \ {r} : runs'[x] = runs[x]
  <1>1. runs \in [Releasers -> Releaser] /\ runs[r] \in Releaser
    BY DEF ReleaseTypes
  <1>2. runs' = [runs EXCEPT ![r].pc = pc]
    BY DEF R!Goto
  <1>3. [runs[r] EXCEPT !.pc = pc] \in Releaser
    BY <1>1 DEF Releaser
  <1>4. runs'[r] = [runs[r] EXCEPT !.pc = pc] /\ runs' = [runs EXCEPT ![r] = [runs[r] EXCEPT !.pc = pc]]
    BY <1>1, <1>2
  <1> QED BY <1>1, <1>3, <1>4 DEF Releaser

LEMMA FailedUnderway ==
  ASSUME ReleaseTypes, NEW r \in Releasers, R!Failed(r)
  PROVE  /\ runs' \in [Releasers -> Releaser]
         /\ runs'[r].clone = runs[r].clone
         /\ \A x \in Releasers \ {r} : runs'[x] = runs[x]
         /\ Underway(r)'
         /\ failures' \in 0 .. MaxFailures
  <1>1. R!Goto(r, "failed") /\ failures' \in 0 .. MaxFailures
    BY ReleaseConstants DEF R!Failed, ReleaseTypes
  <1> QED BY <1>1, GotoProperties DEF Underway

(* What a step of a pipeline keeps, besides what is published.             *)
Moves(r) ==
  /\ runs' \in [Releasers -> Releaser]
  /\ runs'[r].clone = Nil \/ Linked(runs'[r].clone)
  /\ \A x \in Releasers \ {r} : runs'[x] = runs[x]
  /\ Underway(r)'
  /\ failures' \in 0 .. MaxFailures

LEMMA FailedMoves ==
  ASSUME ReleaseTypes, NEW r \in Releasers, R!Failed(r)
  PROVE  Moves(r)
  BY FailedUnderway DEF Moves, ReleaseTypes

(* Going on once the chart at work is published, or with --no-release.     *)
LEMMA NextChartMoves ==
  ASSUME ReleaseInv, Kept, NEW r \in Releasers, NEW clone, clone = Nil \/ Linked(clone), R!NextChart(r, clone),
         runs[r].pc \in {"package", "push", "publish"}, failures' = failures,
         NEW at, at = runs[r].at, setup[r].noRelease \/ Shown(r, at)'
  PROVE  Moves(r)
  <1>1. runs[r].at \in R!ChartsOf(setup[r]) /\ runs[r].at \in Nat
    BY ChartsInOrder DEF ReleaseInv, Underway
  <1>2. setup[r].noRelease \/ \A i \in R!ChartsOf(setup[r]) : i <= runs[r].at => Shown(r, i)'
    <2>1. setup[r].noRelease \/ \A i \in R!ChartsOf(setup[r]) : i < runs[r].at => Shown(r, i)'
      BY StillShown DEF ReleaseInv, Underway
    <2>2. \A i \in R!ChartsOf(setup[r]) : i <= runs[r].at => i < runs[r].at \/ i = runs[r].at
      BY <1>1, ChartsInOrder
    <2> QED BY <2>1, <2>2
  <1> QED BY <1>2, NextChartUnderway DEF Moves, ReleaseInv, ReleaseTypes

LEMMA BeginMoves ==
  ASSUME ReleaseInv, NEW r \in Releasers, R!Begin(r)
  PROVE  Moves(r)
  <1>1. Kept /\ runs[r].pc = "ready"
    BY OtherwiseKept DEF R!Begin
  <1>2. CASE R!Failed(r)
    BY <1>2, FailedMoves DEF ReleaseInv
  <1>3. CASE R!Goto(r, "failed") /\ failures' = failures
    BY <1>3, GotoProperties DEF Moves, Underway, ReleaseInv, ReleaseTypes
  <1>4. CASE R!NextChart(r, Nil) /\ failures' = failures
    <2>1. \A i \in R!ChartsOf(setup[r]) : ~ (i <= runs[r].at)
      BY <1>1, ChartsInOrder DEF ReleaseInv, Underway
    <2> QED BY <1>1, <1>4, <2>1, NextChartUnderway DEF Moves, ReleaseInv, ReleaseTypes
  <1> QED BY <1>2, <1>3, <1>4 DEF R!Begin

LEMMA BuildAndPackageMoves ==
  ASSUME ReleaseInv, NEW r \in Releasers, R!BuildAndPackage(r)
  PROVE  Moves(r)
  <1>1. Kept /\ pages' = pages /\ registry' = registry /\ runs[r].pc = "package"
    BY OtherwiseKept DEF R!BuildAndPackage
  <1>2. CASE R!Failed(r)
    BY <1>2, FailedMoves DEF ReleaseInv
  <1>3. CASE setup[r].noRelease /\ R!NextChart(r, runs[r].clone) /\ failures' = failures
    <2>1. runs[r].clone = Nil \/ Linked(runs[r].clone)
      BY DEF ReleaseInv, ReleaseTypes
    <2> QED BY <1>1, <1>3, <2>1, NextChartMoves
  <1>4. ASSUME NEW pc \in {"publish", "clone", "commit"}, R!Goto(r, pc), failures' = failures,
               pc = "publish" <=> ~ OnPages(r), pc = "commit" => runs[r].clone # Nil
        PROVE  Moves(r)
    <2>1. /\ runs' \in [Releasers -> Releaser]
          /\ runs'[r].pc = pc /\ runs'[r].at = runs[r].at /\ runs'[r].clone = runs[r].clone
          /\ \A x \in Releasers \ {r} : runs'[x] = runs[x]
      BY <1>4, GotoProperties DEF ReleaseInv
    <2>2. OnPages(r)' = OnPages(r) /\ setup' = setup
      BY <1>1 DEF OnPages, Kept
    <2>3. Underway(r)'
      BY <1>1, <1>4, <2>1, <2>2, StillShown DEF Underway, ReleaseInv
    <2> QED BY <1>4, <2>1, <2>3 DEF Moves, ReleaseInv, ReleaseTypes
  <1>5. CASE /\ failures' = failures
             /\ R!Goto(r, IF R!Mode(setup[r]) # "pages" THEN "publish" ELSE IF runs[r].clone = Nil THEN "clone" ELSE "commit")
    <2>1. CASE R!Mode(setup[r]) # "pages"
      BY <1>4, <1>5, <2>1 DEF OnPages
    <2>2. CASE R!Mode(setup[r]) = "pages" /\ runs[r].clone = Nil
      BY <1>4, <1>5, <2>2 DEF OnPages
    <2>3. CASE R!Mode(setup[r]) = "pages" /\ runs[r].clone # Nil
      BY <1>4, <1>5, <2>3 DEF OnPages
    <2> QED BY <2>1, <2>2, <2>3
  <1> QED BY <1>2, <1>3, <1>5 DEF R!BuildAndPackage

(* A pipeline gets another clone.                                          *)
LEMMA CloneMoves ==
  ASSUME ReleaseInv, Kept, NEW r \in Releasers, NEW clone, Linked(clone), NEW pc \in {"commit", "push"},
         runs' = [runs EXCEPT ![r].clone = clone, ![r].pc = pc], failures' \in 0 .. MaxFailures,
         runs[r].pc \in {"clone", "commit"},
         pc = "push" => R!Package(r) \in clone.packages
  PROVE  Moves(r)
  <1>1. runs \in [Releasers -> Releaser] /\ runs[r] \in Releaser
    BY DEF ReleaseInv, ReleaseTypes
  <1>2. clone \in R!Branch /\ clone # Nil
    BY ReleaseConstants DEF Linked
  <1> DEFINE new == [runs[r] EXCEPT !.clone = clone, !.pc = pc]
  <1>3. new \in Releaser /\ new.pc = pc /\ new.clone = clone /\ new.at = runs[r].at
    BY <1>1, <1>2 DEF Releaser
  <1>4. runs' = [runs EXCEPT ![r] = new]
    BY <1>1
  <1> HIDE DEF new
  <1>5. runs'[r] = new /\ runs' \in [Releasers -> Releaser] /\ \A x \in Releasers \ {r} : runs'[x] = runs[x]
    <2>1. new \in Releaser
      BY <1>3
    <2>2. runs'[r] = new /\ \A x \in Releasers \ {r} : runs'[x] = runs[x]
      BY <1>1, <1>4
    <2>3. runs' \in [Releasers -> Releaser]
      BY <1>1, <1>4, <2>1
    <2> QED BY <2>2, <2>3
  <1>6. OnPages(r)' = OnPages(r) /\ setup' = setup
    BY DEF OnPages, Kept
  <1>7. R!Package(r)' = R!Package(r)
    BY <1>3, <1>5 DEF R!Package
  <1>8. Underway(r)'
    BY <1>2, <1>3, <1>5, <1>6, <1>7, StillShown DEF Underway, ReleaseInv
  <1> QED BY <1>3, <1>5, <1>8 DEF Moves

LEMMA CloneGitHubPagesMoves ==
  ASSUME ReleaseInv, NEW r \in Releasers, R!CloneGitHubPagesToDir(r)
  PROVE  Moves(r)
  <1>1. Kept /\ runs[r].pc = "clone"
    BY OtherwiseKept DEF R!CloneGitHubPagesToDir
  <1>2. CASE R!Failed(r)
    BY <1>2, FailedMoves DEF ReleaseInv
  <1>3. CASE pages # Nil /\ runs' = [runs EXCEPT ![r].clone = pages, ![r].pc = "commit"] /\ failures' = failures
    BY <1>1, <1>3, CloneMoves DEF ReleaseInv, ReleaseTypes
  <1>4. CASE /\ IF pages = Nil THEN failures' = failures ELSE failures > 0 /\ failures' = failures - 1
             /\ runs' = [runs EXCEPT ![r].clone = R!Orphan(r),
                                     ![r].pc = IF R!Orphan(r) = Nil THEN "failed" ELSE "commit"]
    <2>1. Linked(R!Orphan(r)) /\ R!Orphan(r) # Nil
      BY OrphanLinked DEF ReleaseInv
    <2>2. runs' = [runs EXCEPT ![r].clone = R!Orphan(r), ![r].pc = "commit"]
      BY <1>4, <2>1
    <2>3. failures' \in 0 .. MaxFailures
      BY <1>4, ReleaseConstants DEF ReleaseInv, ReleaseTypes
    <2> QED BY <1>1, <2>1, <2>2, <2>3, CloneMoves
  <1>5. CASE R!Goto(r, "failed") /\ failures' = failures
    BY <1>5, GotoProperties DEF Moves, Underway, ReleaseInv, ReleaseTypes
  <1> QED BY <1>2, <1>3, <1>4, <1>5 DEF R!CloneGitHubPagesToDir

LEMMA CommitMoves ==
  ASSUME ReleaseInv, NEW r \in Releasers, R!Commit(r)
  PROVE  Moves(r)
  <1>1. Kept /\ runs[r].pc = "commit"
    BY OtherwiseKept DEF R!Commit
  <1>2. CASE R!Failed(r)
    BY <1>2, FailedMoves DEF ReleaseInv
  <1>3. CASE /\ runs' = [runs EXCEPT ![r].clone = R!Indexed(runs[r].clone, R!Package(r)), ![r].pc = "push"]
             /\ failures' = failures
    <2>1. Linked(runs[r].clone) /\ runs[r].at \in R!ChartsOf(setup[r])
      BY <1>1 DEF ReleaseInv, ReleaseTypes, Underway
    <2>2. R!Package(r) \in R!Packages
      BY <2>1, ChartsInOrder DEF R!Package
    <2>3. /\ Linked(R!Indexed(runs[r].clone, R!Package(r)))
          /\ R!Package(r) \in R!Indexed(runs[r].clone, R!Package(r)).packages
      BY <2>1, <2>2, IndexedLinked
    <2> QED BY <1>1, <1>3, <2>3, CloneMoves DEF ReleaseInv, ReleaseTypes
  <1> QED BY <1>2, <1>3 DEF R!Commit

LEMMA PushMoves ==
  ASSUME ReleaseInv, NEW r \in Releasers, R!Push(r)
  PROVE  Moves(r)
  <1>1. Kept /\ runs[r].pc = "push" /\ OnPages(r) /\ Linked(runs[r].clone) /\ R!Package(r) \in runs[r].clone.packages
    BY PushKept DEF R!Push, ReleaseInv, ReleaseTypes, Underway
  <1>2. CASE R!Failed(r)
    BY <1>2, FailedMoves DEF ReleaseInv
  <1>3. CASE pages' = runs[r].clone /\ R!NextChart(r, runs[r].clone) /\ failures' = failures
    <2>1. pages' # Nil /\ R!Package(r) \in pages'.index
      BY <1>1, <1>3, ReleaseConstants DEF Linked
    <2> PICK at : at = runs[r].at
      OBVIOUS
    <2>2. Shown(r, at)'
      <3>1. OnPages(r)' = OnPages(r)
        BY <1>1 DEF Kept, OnPages
      <3> QED BY <1>1, <2>1, <3>1 DEF Shown, R!Package
    <2> QED BY <1>1, <1>3, <2>2, NextChartMoves
  <1>4. CASE R!Goto(r, "failed") /\ failures' = failures
    BY <1>4, GotoProperties DEF Moves, Underway, ReleaseInv, ReleaseTypes
  <1> QED BY <1>2, <1>3, <1>4 DEF R!Push

LEMMA UploadMoves ==
  ASSUME ReleaseInv, NEW r \in Releasers, R!oCIRegistry(r) \/ R!BasicRegistry(r)
  PROVE  Moves(r)
  <1>1. Kept /\ runs[r].pc = "publish" /\ ~ OnPages(r)
    BY UploadKept DEF R!oCIRegistry, R!BasicRegistry, ReleaseInv, Underway
  <1>2. CASE R!Failed(r)
    BY <1>2, FailedMoves DEF ReleaseInv
  <1>3. CASE registry' = registry \cup {R!Package(r)} /\ R!NextChart(r, Nil) /\ failures' = failures
    <2> PICK at : at = runs[r].at
      OBVIOUS
    <2>1. Shown(r, at)'
      BY <1>1, <1>3 DEF Shown, R!Package, Kept, OnPages
    <2> QED BY <1>1, <1>3, <2>1, NextChartMoves
  <1>4. CASE R!Goto(r, "failed") /\ failures' = failures
    BY <1>4, GotoProperties DEF Moves, Underway, ReleaseInv, ReleaseTypes
  <1> QED BY <1>2, <1>3, <1>4 DEF R!oCIRegistry, R!BasicRegistry, R!Upload

LEMMA RetryMoves ==
  ASSUME ReleaseInv, NEW r \in Releasers, R!Retry(r)
  PROVE  Moves(r)
  <1>1. R!Ready \in Releaser /\ R!Ready.pc = "ready" /\ R!Ready.at = 0 /\ R!Ready.clone = Nil
    BY DEF R!Ready, Releaser
  <1>2. runs' = [runs EXCEPT ![r] = R!Ready] /\ runs \in [Releasers -> Releaser] /\ failures' = failures
    BY DEF R!Retry, ReleaseInv, ReleaseTypes
  <1>3. runs'[r] = R!Ready
    BY <1>2
  <1>4. Underway(r)'
    BY <1>1, <1>3 DEF Underway
  <1> QED BY <1>1, <1>2, <1>3, <1>4 DEF Moves, ReleaseInv, ReleaseTypes

LEMMA InitRelease == R!Init => ReleaseInv
  <1> SUFFICES ASSUME R!Init PROVE ReleaseInv
    OBVIOUS
  <1>1. R!Ready \in Releaser /\ R!Ready.pc = "ready" /\ R!Ready.at = 0 /\ R!Ready.clone = Nil
    BY DEF R!Ready, Releaser
  <1>2. runs = [r \in Releasers |-> R!Ready] /\ pages = Nil /\ failures = MaxFailures
    BY DEF R!Init
  <1>3. ReleaseTypes
    BY <1>1, <1>2, ReleaseConstants DEF ReleaseTypes
  <1>4. \A r \in Releasers : Underway(r)
    BY <1>1, <1>2 DEF Underway
  <1> QED BY <1>3, <1>4 DEF ReleaseInv

LEMMA NextRelease == ReleaseInv /\ [R!Next]_R!vars => ReleaseInv'
  <1> SUFFICES ASSUME ReleaseInv, [R!Next]_R!vars PROVE ReleaseInv'
    OBVIOUS
  <1>1. CASE UNCHANGED R!vars
    <2>1. \A r \in Releasers : Underway(r)'
      BY <1>1, OthersUnderway DEF ReleaseInv, R!vars, Kept
    <2> QED BY <1>1, <2>1 DEF ReleaseInv, ReleaseTypes, R!vars
  <1>2. ASSUME NEW r \in Releasers, R!Step(r) PROVE ReleaseInv'
    <2>1. Kept /\ (pages' = Nil \/ Linked(pages')) /\ Moves(r)
      <3>1. CASE R!Push(r)
        BY <3>1, PushKept, PushMoves
      <3>2. CASE R!oCIRegistry(r) \/ R!BasicRegistry(r)
        BY <3>2, UploadKept, UploadMoves DEF ReleaseInv, ReleaseTypes
      <3>3. CASE R!Begin(r) \/ R!BuildAndPackage(r) \/ R!CloneGitHubPagesToDir(r) \/ R!Commit(r) \/ R!Retry(r)
        BY <3>3, OtherwiseKept, BeginMoves, BuildAndPackageMoves, CloneGitHubPagesMoves, CommitMoves, RetryMoves
           DEF ReleaseInv, ReleaseTypes
      <3> QED BY <1>2, <3>1, <3>2, <3>3 DEF R!Step
    <2>2. \A x \in Releasers : Underway(x)'
      BY <2>1, OthersUnderway DEF Moves, ReleaseInv
    <2>3. \A x \in Releasers : runs'[x].clone = Nil \/ Linked(runs'[x].clone)
      BY <2>1 DEF Moves, ReleaseInv, ReleaseTypes
    <2> QED BY <2>1, <2>2, <2>3 DEF Moves, ReleaseInv, ReleaseTypes
  <1> QED BY <1>1, <1>2 DEF R!Next

LEMMA InvReleasedIsPublished == ReleaseInv => R!ReleasedIsPublished
  <1> SUFFICES ASSUME ReleaseInv PROVE R!ReleasedIsPublished
    OBVIOUS
  <1>1. ASSUME NEW r \in Releasers, runs[r].pc = "released" PROVE R!Published(r)
    <2>1. setup[r].noRelease \/ \A i \in R!ChartsOf(setup[r]) : Shown(r, i)
      BY <1>1 DEF ReleaseInv, Underway
    <2> QED BY <2>1 DEF R!Published, Shown, OnPages
  <1>2. pages # Nil => pages.index = pages.packages
    BY DEF ReleaseInv, ReleaseTypes, Linked
  <1> QED BY <1>1, <1>2 DEF R!ReleasedIsPublished

(* A release that succeeded has published all its charts, and they stay;   *)
(* the index of the pages lists the packages that are there: for any       *)
(* charts, options and number of pipelines that run at the same time, fail *)
(* after any of their commands and are run again, and clones that are      *)
(* taken for a branch that does not exist (pkg/cmd/helm/release).          *)
THEOREM ReleasesArePublished == MCSpec => []ReleasedIsPublished
  <1>1. MCInit => ReleaseInv
    BY InitRelease DEF MCInit
  <1>2. ReleaseInv /\ [MCNext]_mcvars => ReleaseInv'
    <2>1. [MCNext]_mcvars => [R!Next]_R!vars
      BY DEF MCNext, mcvars, release, R!vars
    <2> QED BY <2>1, NextRelease
  <1>3. ReleaseInv => ReleasedIsPublished
    BY InvReleasedIsPublished DEF ReleasedIsPublished
  <1> QED BY <1>1, <1>2, <1>3, PTL DEF MCSpec
=============================================================================
