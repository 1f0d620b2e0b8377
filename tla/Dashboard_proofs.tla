---------------------------- MODULE Dashboard_proofs ----------------------------
(* Proofs about Dashboard and PscadClient, for any clients, documents,     *)
(* manifests and numbers of failures and polls.                            *)
EXTENDS Dashboard, TLAPS

(* What the provers need of the constants.                                 *)
LEMMA Constants ==
  /\ Len(Items) \in Nat /\ Len(Items) > 0 /\ 1 \in Places
  /\ AllSaved \in Parameters
  /\ \A d \in Documents \union {0} : WrittenFrom(d) \in Parameters /\ d \in Values
  /\ \A d \in Entered : d \in Documents
  /\ NoFile \in Files /\ NoJob \in Jobs /\ NoFile.of = Idle
  /\ MaxFaults \in Nat /\ MaxPolls \in Nat /\ MaxActs \in Nat
  /\ Page \in Clients /\ Default \in Entered
  /\ PageJobs \subseteq Jobs /\ CliJobs \subseteq Jobs
  /\ \A j \in CliJobs : j.run => j.doc # 0
<1>1. Len(Items) \in Nat /\ Len(Items) > 0
  BY ServerAssumption
<1>2. AllSaved \in Parameters
  BY DEF AllSaved, Parameters, Values, Saved
<1>3. \A d \in Documents \union {0} : WrittenFrom(d) \in Parameters /\ d \in Values
  BY DEF WrittenFrom, Parameters, Values, Saved
<1>4. NoFile \in Files /\ NoFile.of = Idle
  BY DEF NoFile, Files, Idle
<1>5. NoJob \in Jobs
  BY DEF NoJob, Jobs
<1> QED
  BY <1>1, <1>2, <1>3, <1>4, <1>5, ServerAssumption, ClientAssumption, DashboardAssumption
     DEF Places

(* A file that holds given parameters.                                     *)
LEMMA FilesHold ==
  ASSUME NEW p \in Parameters \union {Idle}, NEW w \in BOOLEAN
  PROVE  /\ [of |-> p, whole |-> w] \in Files
         /\ [of |-> p, whole |-> w].of = p /\ [of |-> p, whole |-> w].whole = w
BY DEF Files

LEMMA JobsHold ==
  ASSUME NEW j \in Jobs
  PROVE  /\ j.doc \in Documents \union {0} /\ j.run \in BOOLEAN
         /\ j.workspace \in BOOLEAN /\ j.read \in BOOLEAN
         /\ \A d \in Documents : [j EXCEPT !.doc = d] \in Jobs
         /\ \A d \in Documents : [j EXCEPT !.doc = d].doc = d
BY DEF Jobs

-----------------------------------------------------------------------------
(* Types.                                                                  *)

LEMMA InitTypes == Init => TypeOK
<1> SUFFICES ASSUME Init PROVE TypeOK
  OBVIOUS
<1>1. psout \in Files
  BY Constants, FilesHold DEF Init, ClientInit, ServerInit
<1>2. server \in {"down", "starting", "blocking", "acknowledging", "stock"}
      /\ editor \in {"closed", "shown", "windowless"}
  BY ServerAssumption DEF Init, ClientInit, ServerInit
<1>3. ClientTypeOK
  <2>1. param \in Parameters /\ sim \in Parameters \union {Idle} /\ faults \in 0..MaxFaults
    BY Constants DEF Init, ClientInit, ServerInit
  <2>2. /\ held \subseteq {lock_key(c) : c \in Clients}
        /\ pc \in [Clients -> Holding \union {"idle", "done"}]
        /\ job \in [Clients -> Jobs] /\ item \in [Clients -> Places]
        /\ output \in [Clients -> Files] /\ polls \in [Clients -> 0..MaxPolls]
        /\ left \in [Clients -> Parameters \union {Idle}]
    BY Constants DEF Init, ClientInit
  <2> QED
    BY <1>1, <1>2, <2>1, <2>2 DEF Init, ClientInit, ServerInit, ClientTypeOK
<1>4. shown \in Entered \union {None} /\ observed \in Entered \union {None} /\ acts \in 0..MaxActs
  BY Constants DEF Init
<1> QED
  BY <1>3, <1>4, Constants DEF Init, TypeOK

(* The server's and the editor's own part of the types.                    *)
ServerTypes ==
  /\ server \in {"down", "starting", "blocking", "acknowledging", "stock"}
  /\ attached \in BOOLEAN
  /\ editor \in {"closed", "shown", "windowless"}
  /\ param \in Parameters /\ sim \in Parameters \union {Idle} /\ queued \in BOOLEAN
  /\ psout \in Files /\ faults \in 0..MaxFaults

LEMMA AttachTypes ==
  ASSUME ServerTypes, attach_local
  PROVE  attached' \in BOOLEAN /\ editor' \in {"closed", "shown", "windowless"}
         /\ param' \in Parameters
BY Constants DEF ServerTypes, attach_local, Reuse, ConnectOrLaunch

LEMMA FailsTypes ==
  ASSUME faults \in 0..MaxFaults, Fails
  PROVE  faults' \in 0..MaxFaults
BY Constants DEF Fails

LEMMA AttachFailsTypes ==
  ASSUME ServerTypes, AttachFails
  PROVE  attached' \in BOOLEAN /\ editor' = editor /\ param' = param
         /\ faults' \in 0..MaxFaults
BY FailsTypes DEF ServerTypes, AttachFails

-----------------------------------------------------------------------------
LEMMA ClientStepTypes ==
  ASSUME ClientTypeOK, NEW c \in Clients, ClientStep(c)
  PROVE  ClientTypeOK'
<1> USE DEF Holding, Calling
<1>0. ServerTypes
  BY DEF ClientTypeOK, ServerTypes
<1>1. CASE FindServer(c)
  BY <1>1
     DEF FindServer, ClientTypeOK, Goto, Errs, KeepServer, serverVars, resultVars
<1>2. CASE ServerIsUp(c)
  BY <1>2
     DEF ServerIsUp, ClientTypeOK, Goto, Errs, KeepServer, serverVars, resultVars
<1>3. CASE ServerGivenUp(c)
  BY <1>3, FailsTypes
     DEF ServerGivenUp, ClientTypeOK, Goto, Errs, KeepServer, serverVars, resultVars
<1>4. CASE EnsureVisible(c)
  BY <1>4, <1>0, AttachTypes, AttachFailsTypes
     DEF EnsureVisible, ClientTypeOK, Goto, Errs, KeepServer, serverVars, resultVars
<1>5. CASE VerifyConnection(c)
  BY <1>5, <1>0, AttachTypes, AttachFailsTypes
     DEF VerifyConnection, ClientTypeOK, Goto, Errs, KeepServer, serverVars, resultVars
<1>6. CASE LoadProjects(c)
  BY <1>6, Constants
     DEF LoadProjects, ClientTypeOK, Goto, Errs, KeepServer, serverVars, resultVars, AfterWrites
<1>7. CASE WriteParameters(c)
  <2>1. item[c] \in Places /\ job[c].doc \in Documents \union {0} /\ job[c].doc \in Values
    BY Constants, JobsHold DEF ClientTypeOK
  <2>2. param' \in Parameters
    BY <1>7, <2>1 DEF WriteParameters, ClientTypeOK, Parameters
  <2>3. item' \in [Clients -> Places]
    <3>1. 1 \in Places /\ (item[c] < Len(Items) => item[c] + 1 \in Places)
      BY <2>1, Constants DEF Places
    <3> QED
      BY <1>7, <3>1 DEF WriteParameters, ClientTypeOK
  <2>4. pc' \in [Clients -> Holding \union {"idle", "done"}]
    BY <1>7 DEF WriteParameters, ClientTypeOK, Goto, AfterWrites
  <2> QED
    BY <1>7, <2>2, <2>3, <2>4 DEF WriteParameters, ClientTypeOK, resultVars
<1>8. CASE Prepare(c)
  BY <1>8, Constants
     DEF Prepare, ClientTypeOK, Goto, Errs, KeepServer, serverVars, resultVars
<1>9. CASE BuildProject(c)
  BY <1>9
     DEF BuildProject, ClientTypeOK, Goto, Errs, KeepServer, serverVars, resultVars
<1>10. CASE RunProject(c)
  BY <1>10
     DEF RunProject, ClientTypeOK, Goto, Errs, KeepServer, serverVars, resultVars, StartSimulation
<1>11. CASE RunReturns(c)
  BY <1>11
     DEF RunReturns, ClientTypeOK, Goto, Errs, KeepServer, serverVars, resultVars
<1>12. CASE Wake(c)
  <2>1. polls' \in [Clients -> 0..MaxPolls]
    <3>1. polls[c] < MaxPolls => polls[c] + 1 \in 0..MaxPolls
      BY Constants DEF ClientTypeOK
    <3> QED
      BY <1>12, <3>1 DEF Wake, PollAgain, ClientTypeOK
  <2>2. pc' \in [Clients -> Holding \union {"idle", "done"}]
    BY <1>12 DEF Wake, PollAgain, ClientTypeOK, Goto
  <2> QED
    BY <1>12, <2>1, <2>2 DEF Wake, ClientTypeOK, KeepServer, serverVars
<1>18. CASE Poll(c)
  BY <1>18 DEF Poll, ClientTypeOK, Goto, KeepServer, serverVars
<1>19. CASE Look(c)
  BY <1>19 DEF Look, ClientTypeOK, Goto, KeepServer, serverVars, resultVars
<1>13. CASE CollectOutput(c)
  <2>1. output' \in [Clients -> Files]
    BY <1>13, Constants DEF CollectOutput, ClientTypeOK
  <2>2. error' \in [Clients -> BOOLEAN] /\ pc' \in [Clients -> Holding \union {"idle", "done"}]
    BY <1>13 DEF CollectOutput, ClientTypeOK, Goto, Errs
  <2> QED
    BY <1>13, <2>1, <2>2 DEF CollectOutput, ClientTypeOK, KeepServer, serverVars
<1>14. CASE GetProjectOutput(c)
  BY <1>14
     DEF GetProjectOutput, ClientTypeOK, Goto, Errs, KeepServer, serverVars, resultVars
<1>15. CASE ReadOutput(c)
  <2>1. output' \in [Clients -> Files]
    BY <1>15 DEF ReadOutput, ClientTypeOK
  <2>2. error' \in [Clients -> BOOLEAN] /\ pc' \in [Clients -> Holding \union {"idle", "done"}]
    BY <1>15 DEF ReadOutput, ClientTypeOK, Goto, Errs
  <2> QED
    BY <1>15, <2>1, <2>2 DEF ReadOutput, ClientTypeOK, KeepServer, serverVars
<1>16. CASE Release(c)
  <2>1. /\ item' \in [Clients -> Places] /\ polls' \in [Clients -> 0..MaxPolls]
        /\ pc' \in [Clients -> Holding \union {"idle", "done"}]
        /\ held' \subseteq {lock_key(d) : d \in Clients}
    BY <1>16, Constants DEF Release, ClientTypeOK, Goto
  <2> QED
    BY <1>16, <2>1 DEF Release, ClientTypeOK, Errs, KeepServer, serverVars
<1>17. CASE CallRaises(c)
  BY <1>17, FailsTypes
     DEF CallRaises, ClientTypeOK, Goto, Errs, KeepServer, serverVars, resultVars
<1> QED
  BY <1>1, <1>2, <1>3, <1>4, <1>5, <1>6, <1>7, <1>8, <1>9, <1>10, <1>11, <1>12, <1>13, <1>14, <1>15, <1>16, <1>17, <1>18, <1>19
     DEF ClientStep

LEMMA ClientUnchanged ==
  ASSUME ClientTypeOK, UNCHANGED <<serverVars, clientVars>>
  PROVE  ClientTypeOK'
BY DEF ClientTypeOK, serverVars, clientVars

LEMMA ExecuteTypes ==
  ASSUME ClientTypeOK, NEW c \in Clients, NEW j \in Jobs, execute_pscad_manifest(c, j)
  PROVE  ClientTypeOK'
<1>1. /\ pc' \in [Clients -> Holding \union {"idle", "done"}]
      /\ error' \in [Clients -> BOOLEAN]
  BY DEF execute_pscad_manifest, ClientTypeOK, Goto, Errs, Holding
<1>2. held' \subseteq {lock_key(d) : d \in Clients}
  BY DEF execute_pscad_manifest, ClientTypeOK
<1> QED
  BY <1>1, <1>2 DEF execute_pscad_manifest, ClientTypeOK, KeepServer, serverVars

LEMMA ReturnTypes ==
  ASSUME ClientTypeOK, NEW c \in Clients, Return(c)
  PROVE  ClientTypeOK'
BY Constants DEF Return, ClientTypeOK, Goto, KeepServer, serverVars

LEMMA BackgroundTypes ==
  ASSUME ClientTypeOK, PscadWrites \/ PscadStops \/ StartSettled \/ ServerComesUp \/ Failure
  PROVE  ClientTypeOK'
<1>1. CASE PscadWrites
  <2>1. psout' \in Files /\ sim' \in Parameters \union {Idle}
    BY <1>1, FilesHold DEF PscadWrites, WriteOutput, FinishWithOutput, ClientTypeOK
  <2> QED
    BY <1>1, <2>1 DEF PscadWrites, ClientTypeOK, resultVars
<1>2. CASE PscadStops
  BY <1>2 DEF PscadStops, FinishWithout, ClientTypeOK, clientVars
<1>3. CASE ServerComesUp
  BY <1>3 DEF ServerComesUp, ServerListens, ClientTypeOK, clientVars
<1>4. CASE Failure
  <2>1. faults' \in 0..MaxFaults
    BY <1>4, FailsTypes DEF Failure, ServerDies, EditorCloses, WindowIsLost, ClientTypeOK
  <2> QED
    BY <1>4, <2>1, Constants
       DEF Failure, ServerDies, EditorCloses, WindowIsLost, ClientTypeOK, clientVars
<1>5. CASE StartSettled
  BY <1>5 DEF StartSettled, RunBegins, StartForgotten, StartSimulation, ClientTypeOK, clientVars
<1> QED
  BY <1>1, <1>2, <1>3, <1>4, <1>5

(* The page's own part of the types.                                       *)
PageTypes ==
  /\ page \in {"idle", "pass", "running", "checking"}
  /\ doc \in Entered
  /\ act \in Buttons \union {"none", "edit"}
  /\ observed \in Entered \union {None}
  /\ shown \in Entered \union {None, Refused}
  /\ missed \in BOOLEAN
  /\ acts \in 0..MaxActs

(* A result that is stored is of a document the page was given.            *)
JobIsEntered == page = "running" => job[Page].doc \in Entered

LEMMA PageStepTypes ==
  ASSUME TypeOK, JobIsEntered, Next
  PROVE  PageTypes'
<1> USE DEF PageTypes, TypeOK
<1>0. acts < MaxActs => acts + 1 \in 0..MaxActs
  BY Constants
<1>1. CASE UserActs
  BY <1>0, <1>1 DEF UserActs
<1>2. CASE Reload \/ ClearResult \/ CheckConnection
  BY <1>2, Constants DEF Reload, ClearResult, CheckConnection
<1>3. CASE PassDone \/ PassRefused \/ PassReplays \/ PassExecutes
  BY <1>3 DEF PassDone, PassRefused, PassReplays, PassExecutes, ResetResult, inputs_changed
<1>4. CASE ExecutionReturns
  BY <1>4 DEF ExecutionReturns, JobIsEntered
<1>5. ASSUME NEW c \in Clients, CliStarts(c) \/ CliExits(c)
      PROVE  PageTypes'
  BY <1>0, <1>5 DEF CliStarts, CliExits, pageVars
<1>6. CASE Executing \/ Background
  BY <1>6 DEF Executing, Background, pageVars
<1> QED
  BY <1>1, <1>2, <1>3, <1>4, <1>5, <1>6 DEF Next, Pass

(* Every step of the page or of the background is, to the clients, nothing,*)
(* an execution that begins, one that returns, or PSCAD's own doing.       *)
LEMMA StepsOfClients ==
  ASSUME TypeOK, Next
  PROVE  \/ UNCHANGED <<serverVars, clientVars>>
         \/ \E c \in Clients, j \in Jobs :
               /\ execute_pscad_manifest(c, j)
               /\ \/ j \in CliJobs
                  \/ j.doc \in Entered
                  \/ ~j.run
         \/ \E c \in Clients : Return(c)
         \/ \E c \in Clients : ClientStep(c)
         \/ PscadWrites \/ PscadStops \/ StartSettled \/ ServerComesUp \/ Failure
<1>1. CASE UserActs \/ Reload \/ ClearResult \/ PassDone \/ PassRefused \/ PassReplays
  BY <1>1 DEF UserActs, Reload, ClearResult, PassDone, PassRefused, PassReplays
<1>2. CASE CheckConnection
  <2>1. [NoJob EXCEPT !.workspace = TRUE] \in Jobs /\ ~[NoJob EXCEPT !.workspace = TRUE].run
    BY DEF NoJob, Jobs
  <2> QED
    BY <1>2, <2>1, Constants DEF CheckConnection
<1>3. CASE PassExecutes
  <2>1. PICK j \in PageJobs : execute_pscad_manifest(Page, [j EXCEPT !.doc = doc])
    BY <1>3 DEF PassExecutes
  <2>2. [j EXCEPT !.doc = doc] \in Jobs /\ [j EXCEPT !.doc = doc].doc \in Entered
    BY Constants, JobsHold DEF TypeOK
  <2> QED
    BY <2>1, <2>2, Constants
<1>4. CASE ExecutionReturns
  BY <1>4, Constants DEF ExecutionReturns
<1>5. ASSUME NEW c \in Clients, CliStarts(c) \/ CliExits(c)
      PROVE  \/ \E j \in CliJobs : execute_pscad_manifest(c, j)
             \/ Return(c)
  BY <1>5 DEF CliStarts, CliExits
<1>6. CASE Executing \/ Background
  BY <1>6 DEF Executing, Background
<1> QED
  BY <1>1, <1>2, <1>3, <1>4, <1>5, <1>6, Constants DEF Next, Pass

LEMMA ClientTypesKept ==
  ASSUME TypeOK, Next
  PROVE  ClientTypeOK'
<1>1. ClientTypeOK
  BY DEF TypeOK
<1> QED
  BY <1>1, StepsOfClients, ClientUnchanged, ExecuteTypes, ReturnTypes, ClientStepTypes,
     BackgroundTypes
(* A step of an execution changes nothing of the others, and neither what  *)
(* is executed nor what was the case when it began.                        *)
LEMMA StepIsLocal ==
  ASSUME ClientTypeOK, NEW c \in Clients, ClientStep(c)
  PROVE  /\ pc[c] \in Holding /\ pc'[c] \in Holding \union {"done"}
         /\ held' = IF pc'[c] = "done" THEN held \ {lock_key(c)} ELSE held
         /\ job' = job /\ left' = left /\ owed' = owed
         /\ \A d \in Clients \ {c} :
              /\ pc'[d] = pc[d] /\ item'[d] = item[d] /\ error'[d] = error[d]
              /\ output'[d] = output[d] /\ polls'[d] = polls[d]
              /\ seen'[d] = seen[d] /\ awaited'[d] = awaited[d]
<1> USE DEF Holding, Calling
<1>1. CASE FindServer(c)
  BY <1>1 DEF FindServer, ClientTypeOK, Goto, Errs, resultVars
<1>2. CASE ServerIsUp(c)
  BY <1>2 DEF ServerIsUp, ClientTypeOK, Goto, Errs, resultVars
<1>3. CASE ServerGivenUp(c)
  BY <1>3 DEF ServerGivenUp, ClientTypeOK, Goto, Errs, resultVars
<1>4. CASE EnsureVisible(c)
  BY <1>4 DEF EnsureVisible, ClientTypeOK, Goto, Errs, resultVars
<1>5. CASE VerifyConnection(c)
  BY <1>5 DEF VerifyConnection, ClientTypeOK, Goto, Errs, resultVars
<1>6. CASE LoadProjects(c)
  BY <1>6 DEF LoadProjects, AfterWrites, ClientTypeOK, Goto, Errs, resultVars
<1>7. CASE WriteParameters(c)
  BY <1>7 DEF WriteParameters, AfterWrites, ClientTypeOK, Goto, Errs, resultVars
<1>8. CASE Prepare(c)
  BY <1>8 DEF Prepare, ClientTypeOK, Goto, Errs, resultVars
<1>9. CASE BuildProject(c)
  BY <1>9 DEF BuildProject, ClientTypeOK, Goto, Errs, resultVars
<1>10. CASE RunProject(c)
  BY <1>10 DEF RunProject, ClientTypeOK, Goto, Errs, resultVars
<1>11. CASE RunReturns(c)
  BY <1>11 DEF RunReturns, ClientTypeOK, Goto, Errs, resultVars
<1>12. CASE Wake(c)
  BY <1>12 DEF Wake, PollAgain, ClientTypeOK, Goto
<1>18. CASE Poll(c)
  BY <1>18 DEF Poll, ClientTypeOK, Goto
<1>19. CASE Look(c)
  BY <1>19 DEF Look, ClientTypeOK, Goto, resultVars
<1>13. CASE CollectOutput(c)
  BY <1>13 DEF CollectOutput, ClientTypeOK, Goto, Errs, resultVars
<1>14. CASE GetProjectOutput(c)
  BY <1>14 DEF GetProjectOutput, ClientTypeOK, Goto, Errs, resultVars
<1>15. CASE ReadOutput(c)
  BY <1>15 DEF ReadOutput, ClientTypeOK, Goto, Errs, resultVars
<1>16. CASE Release(c)
  BY <1>16 DEF Release, ClientTypeOK, Goto, Errs, resultVars
<1>17. CASE CallRaises(c)
  BY <1>17 DEF CallRaises, ClientTypeOK, Goto, Errs, resultVars
<1> QED
  BY <1>1, <1>2, <1>3, <1>4, <1>5, <1>6, <1>7, <1>8, <1>9, <1>10, <1>11, <1>12, <1>13, <1>14, <1>15, <1>16, <1>17, <1>18, <1>19
     DEF ClientStep
LEMMA JobStaysEntered ==
  ASSUME TypeOK, JobIsEntered, Next
  PROVE  JobIsEntered'
<1>1. CASE UserActs \/ Reload \/ ClearResult \/ PassDone \/ PassRefused \/ PassReplays
  BY <1>1 DEF UserActs, Reload, ClearResult, PassDone, PassRefused, PassReplays, JobIsEntered,
              clientVars, Scripted
<1>2. CASE CheckConnection \/ ExecutionReturns
  BY <1>2 DEF CheckConnection, ExecutionReturns, JobIsEntered
<1>3. CASE PassExecutes
  <2>1. PICK j \in PageJobs : execute_pscad_manifest(Page, [j EXCEPT !.doc = doc])
    BY <1>3 DEF PassExecutes
  <2>2. job'[Page] = [j EXCEPT !.doc = doc] /\ [j EXCEPT !.doc = doc].doc = doc
    BY <2>1, Constants, JobsHold DEF execute_pscad_manifest, TypeOK, ClientTypeOK
  <2> QED
    BY <2>2 DEF JobIsEntered, TypeOK
<1>4. ASSUME NEW c \in Clients, CliStarts(c) \/ CliExits(c)
      PROVE  JobIsEntered'
  BY <1>4, Constants DEF CliStarts, CliExits, execute_pscad_manifest, Return, pageVars,
                         JobIsEntered, TypeOK, ClientTypeOK
<1>5. CASE Executing
  BY <1>5, StepIsLocal DEF Executing, pageVars, JobIsEntered, TypeOK
<1>6. CASE Background
  BY <1>6 DEF Background, PscadWrites, PscadStops, StartSettled, ServerComesUp, Failure, clientVars,
              pageVars, JobIsEntered
<1> QED
  BY <1>1, <1>2, <1>3, <1>4, <1>5, <1>6 DEF Next, Pass

(* Every variable has its type (dashboard.py, pscad_mcp_client.py).        *)
THEOREM TypeCorrect == Spec => []TypeOK
<1>1. Init => TypeOK /\ JobIsEntered
  BY InitTypes DEF Init, JobIsEntered
<1>2. TypeOK /\ JobIsEntered /\ [Next]_vars => (TypeOK /\ JobIsEntered)'
  <2>1. ASSUME TypeOK, JobIsEntered, Next
        PROVE  (TypeOK /\ JobIsEntered)'
    BY <2>1, ClientTypesKept, PageStepTypes, JobStaysEntered DEF TypeOK, PageTypes
  <2>2. ASSUME TypeOK, JobIsEntered, UNCHANGED vars
        PROVE  (TypeOK /\ JobIsEntered)'
    BY <2>2, ClientUnchanged DEF TypeOK, JobIsEntered, vars, pageVars, clientVars
  <2> QED
    BY <2>1, <2>2
<1> QED
  BY <1>1, <1>2, PTL DEF Spec
-----------------------------------------------------------------------------
(* The lock.                                                               *)

Locked == \A c \in Clients : pc[c] \in Holding => lock_key(c) \in held

LEMMA LockKept ==
  ASSUME TypeOK, Locked, OneOwner, Next
  PROVE  Locked' /\ OneOwner'
<1> USE DEF Locked, OneOwner
<1>0. ClientTypeOK
  BY DEF TypeOK
<1>1. CASE UNCHANGED <<serverVars, clientVars>>
  BY <1>1 DEF clientVars, lock_key
<1>2. ASSUME NEW c \in Clients, NEW j \in Jobs, execute_pscad_manifest(c, j)
      PROVE  Locked' /\ OneOwner'
  <2>1. /\ \A d \in Clients \ {c} : pc'[d] = pc[d]
        /\ pc'[c] = IF lock_key(c) \in held THEN "done" ELSE "server"
    BY <1>0, <1>2 DEF execute_pscad_manifest, Goto, ClientTypeOK
  <2>3. held' = held \union {lock_key(c)}
    BY <1>2 DEF execute_pscad_manifest
  <2>2. "done" \notin Holding
    BY DEF Holding, Calling
  <2> QED
    BY <2>1, <2>2, <2>3 DEF lock_key
<1>3. ASSUME NEW c \in Clients, Return(c)
      PROVE  Locked' /\ OneOwner'
  <2>1. /\ \A d \in Clients \ {c} : pc'[d] = pc[d]
        /\ pc'[c] = "idle" /\ held' = held
    BY <1>0, <1>3 DEF Return, Goto, ClientTypeOK
  <2>2. "idle" \notin Holding
    BY DEF Holding, Calling
  <2> QED
    BY <2>1, <2>2 DEF lock_key
<1>4. ASSUME NEW c \in Clients, ClientStep(c)
      PROVE  Locked' /\ OneOwner'
  <2>1. "done" \notin Holding
    BY DEF Holding, Calling
  <2> QED
    BY <1>0, <1>4, <2>1, StepIsLocal DEF lock_key
<1>5. CASE PscadWrites \/ PscadStops \/ StartSettled \/ ServerComesUp \/ Failure
  BY <1>5 DEF PscadWrites, PscadStops, StartSettled, ServerComesUp, Failure, clientVars, lock_key
<1> QED
  BY <1>1, <1>2, <1>3, <1>4, <1>5, StepsOfClients

(* Executions on one port exclude one another, however they end            *)
(* (pscad_run_lock.py, exclusive_pscad_run).                               *)
THEOREM RunsExclude == Spec => [](Locked /\ OneOwner)
<1>1. Init => Locked /\ OneOwner
  BY DEF Init, ClientInit, Locked, OneOwner, Holding, Calling
<1>2. TypeOK /\ Locked /\ OneOwner /\ [Next]_vars => (Locked /\ OneOwner)'
  <2>1. ASSUME Locked, OneOwner, UNCHANGED vars
        PROVE  (Locked /\ OneOwner)'
    BY <2>1 DEF Locked, OneOwner, vars, clientVars, lock_key
  <2> QED
    BY <2>1, LockKept
<1> QED
  BY <1>1, <1>2, TypeCorrect, PTL DEF Spec
-----------------------------------------------------------------------------
(* The output of a run.                                                    *)

(* Every client's URL names the same port.                                 *)
OnePort == \A a, b \in Clients : Port[a] = Port[b]

BeforeRun == {"server", "spawned", "visible", "status", "load", "write", "prepare", "build", "run"}
AfterRun == {"wait", "sleep", "poll", "look", "messages", "output", "read"}

(* What TrustedOutput speaks of: runs whose files are known, begun with no *)
(* start outstanding.                                                      *)
Watched(c) == job[c].run /\ job[c].workspace /\ ~owed[c]
Wanted(c) == WrittenFrom(job[c].doc)

(* A waveform of c's own manifest, or of the simulation it found at work.  *)
Known(c, file) ==
  \/ file.of = Wanted(c)
  \/ left[c] # Idle /\ file.of = left[c]

(* The manifest that runs has calls, its items are written from the first  *)
(* one on, and nothing was heard of a run yet.                             *)
Begun(c) ==
  /\ job[c].run => job[c].doc # 0
  /\ pc[c] \notin {"write", "leave"} => item[c] = 1
  /\ pc[c] \in BeforeRun \union {"idle", "done"} => ~seen[c]
  /\ pc[c] \in BeforeRun \union {"idle"} => ~awaited[c]

(* Until the run, PSCAD does nothing but end what it was found at, and     *)
(* holds what was written so far, as long as the connection has not been   *)
(* lost.                                                                   *)
Prepared(c) ==
  /\ pc[c] \in BeforeRun => ~queued /\ sim \in {Idle, left[c]}
  /\ pc[c] = "write" /\ attached => \A i \in Places : i < item[c] => param[i] = job[c].doc
  /\ pc[c] \in {"prepare", "build", "run"} /\ attached => param = Wanted(c)
  /\ pc[c] \in {"build", "run"} => psout = NoFile \/ Known(c, psout)

(* From then on PSCAD may also run, or have to begin, what c asked for.    *)
Simulated(c) ==
  pc[c] \in AfterRun =>
    /\ psout = NoFile \/ Known(c, psout)
    /\ sim \in {Idle, Wanted(c), left[c]}
    /\ queued => param = Wanted(c) /\ pc[c] # "wait"

(* The file is whole while PSCAD rests and the connection holds.           *)
WholeAtRest(c) ==
  pc[c] \in AfterRun \union {"build", "run"} /\ sim = Idle /\ attached =>
    psout = NoFile \/ psout.whole

(* Found at rest, PSCAD has begun the run if it simulates, and has ended   *)
(* it when c is told so.                                                   *)
Heard(c) ==
  left[c] = Idle /\ pc[c] \in AfterRun =>
    /\ sim # Idle \/ seen[c] => ~queued
    /\ awaited[c] => sim = Idle /\ ~queued

Reported(c) ==
  pc[c] \in {"output", "read", "leave", "done"} =>
    error[c] \/ (Known(c, output[c]) /\ (left[c] = Idle /\ awaited[c] => output[c].whole))

Trusted(c) ==
  /\ Begun(c)
  /\ Watched(c) =>
       Prepared(c) /\ Simulated(c) /\ WholeAtRest(c) /\ Heard(c) /\ Reported(c)
AllTrusted == \A c \in Clients : Trusted(c)

LEMMA InitTrusted == Init => AllTrusted
BY DEF Init, ClientInit, AllTrusted, Trusted, Begun, Watched, NoJob

(* What a step of c does to what is known of c itself.                     *)
LEMMA StepKeepsTrust ==
  ASSUME ClientTypeOK, NEW c \in Clients, Trusted(c), ClientStep(c)
  PROVE  Trusted(c)'
<1> DEFINE same == /\ job'[c] = job[c] /\ left'[c] = left[c] /\ owed'[c] = owed[c]
                   /\ Wanted(c)' = Wanted(c)
<1>0. same
  BY StepIsLocal DEF Wanted, WrittenFrom
<1> USE DEF Trusted, Begun, Watched, Prepared, Simulated, WholeAtRest, Heard,
           Reported, Known, BeforeRun, AfterRun
<1>1. CASE FindServer(c)
  BY <1>0, <1>1 DEF FindServer, ClientTypeOK, Goto, resultVars
<1>2. CASE ServerIsUp(c)
  BY <1>0, <1>2 DEF ServerIsUp, ClientTypeOK, Goto, resultVars, KeepServer, serverVars
<1>3. CASE ServerGivenUp(c)
  BY <1>0, <1>3 DEF ServerGivenUp, ClientTypeOK, Goto, Errs, resultVars
<1>4. CASE EnsureVisible(c)
  BY <1>0, <1>4 DEF EnsureVisible, ClientTypeOK, Goto, Errs, resultVars
<1>5. CASE VerifyConnection(c)
  BY <1>0, <1>5 DEF VerifyConnection, ClientTypeOK, Goto, resultVars
<1>6. CASE LoadProjects(c)
  BY <1>0, <1>6 DEF LoadProjects, AfterWrites, ClientTypeOK, Goto, resultVars, Places
<1>7. CASE WriteParameters(c)
  <2>1. item[c] \in Places /\ job[c].doc \in Values
    BY Constants, JobsHold DEF ClientTypeOK
  <2>2. /\ DOMAIN param' = Places
        /\ \A i \in Places : param'[i] = IF i = item[c] THEN job[c].doc ELSE param[i]
    BY <1>7, <2>1 DEF WriteParameters, ClientTypeOK, Parameters
  <2>3. /\ pc[c] = "write" /\ attached /\ attached' = attached /\ sim' = sim /\ psout' = psout
        /\ queued' = queued /\ seen' = seen /\ awaited' = awaited
        /\ error' = error /\ output' = output
    BY <1>7 DEF WriteParameters, Connected, resultVars
  <2>4. CASE item[c] < Len(Items)
    <3>1. item'[c] = item[c] + 1 /\ pc'[c] = "write"
      BY <1>7, <2>3, <2>4 DEF WriteParameters, ClientTypeOK
    <3>2. Watched(c) => \A i \in Places : i < item[c] + 1 => param'[i] = job[c].doc
      BY <2>1, <2>2, <2>3 DEF Places
    <3> QED
      BY <1>0, <2>3, <3>1, <3>2
  <2>5. CASE ~(item[c] < Len(Items))
    <3>1. item'[c] = 1 /\ pc'[c] = AfterWrites(c)
      BY <1>7, <2>5 DEF WriteParameters, ClientTypeOK, Goto
    <3>2. item[c] = Len(Items)
      BY <2>1, <2>5, Constants DEF Places
    <3>3. ASSUME Watched(c)
          PROVE  param' = Wanted(c)
      <4>1. \A i \in Places : param'[i] = job[c].doc
        BY <2>1, <2>2, <2>3, <3>2, <3>3, Constants DEF Places
      <4>2. param' = [i \in Places |-> param'[i]]
        BY <1>7, <2>2 DEF WriteParameters, ClientTypeOK, Parameters
      <4> QED
        BY <4>1, <4>2 DEF Wanted, WrittenFrom
    <3> QED
      BY <1>0, <2>3, <3>1, <3>3 DEF AfterWrites
  <2> QED
    BY <2>4, <2>5
<1>8. CASE Prepare(c)
  BY <1>0, <1>8 DEF Prepare, ClientTypeOK, Goto, resultVars
<1>9. CASE BuildProject(c)
  BY <1>0, <1>9 DEF BuildProject, ClientTypeOK, Goto, Errs, KeepServer, serverVars, resultVars
<1>10. CASE RunProject(c)
  <2>1. /\ pc[c] = "run" /\ attached /\ attached' = attached /\ param' = param /\ psout' = psout
        /\ item' = item /\ seen' = seen /\ awaited' = awaited
    BY <1>10 DEF RunProject, Connected, resultVars
  <2>2. \/ pc'[c] = "wait" /\ ~queued /\ ~queued' /\ sim = Idle /\ sim' = param
        \/ pc'[c] = "sleep" /\ queued' /\ sim' = sim
        \/ pc'[c] = "messages" /\ queued' = queued /\ sim' = sim
    BY <1>10 DEF RunProject, ClientTypeOK, Goto, StartSimulation
  <2>3. CASE Watched(c)
    <3>1. /\ ~seen[c] /\ ~awaited[c] /\ ~queued /\ sim \in {Idle, left[c]}
          /\ param = Wanted(c) /\ (psout = NoFile \/ Known(c, psout))
          /\ sim = Idle => psout = NoFile \/ psout.whole
      BY <2>1, <2>3
    <3> QED
      BY <1>0, <2>1, <2>2, <3>1
  <2> QED
    BY <1>0, <2>1, <2>2, <2>3
<1>11. CASE RunReturns(c)
  BY <1>0, <1>11 DEF RunReturns, ClientTypeOK, Goto, KeepServer, serverVars, resultVars
<1>12. CASE Wake(c)
  BY <1>0, <1>12 DEF Wake, PollAgain, ClientTypeOK, Goto, KeepServer, serverVars
<1>18. CASE Poll(c)
  BY <1>0, <1>18 DEF Poll, ClientTypeOK, Goto, KeepServer, serverVars
<1>19. CASE Look(c)
  BY <1>0, <1>19 DEF Look, ClientTypeOK, Goto, KeepServer, serverVars, resultVars
<1>13. CASE CollectOutput(c)
  <2>1. /\ pc[c] = "messages" /\ pc'[c] = "output" /\ attached
        /\ item'[c] = item[c] /\ seen'[c] = seen[c] /\ awaited'[c] = awaited[c]
        /\ sim' = sim /\ psout' = psout /\ attached' = attached /\ param' = param
        /\ queued' = queued
    BY <1>13 DEF CollectOutput, Connected, ClientTypeOK, Goto, KeepServer, serverVars
  <2>2. /\ output'[c] = IF HasFresh(c) THEN psout ELSE NoFile
        /\ job[c].workspace /\ ~HasFresh(c) => error'[c]
        /\ HasFresh(c) => psout # NoFile
    BY <1>13 DEF CollectOutput, ClientTypeOK, Errs, HasFresh
  <2> QED
    BY <1>0, <2>1, <2>2
<1>14. CASE GetProjectOutput(c)
  BY <1>0, <1>14 DEF GetProjectOutput, ClientTypeOK, Goto, KeepServer, serverVars, resultVars
<1>15. CASE ReadOutput(c)
  BY <1>0, <1>15 DEF ReadOutput, Connected, ClientTypeOK, Goto, Errs, KeepServer, serverVars
<1>16. CASE Release(c)
  BY <1>0, <1>16 DEF Release, ClientTypeOK, Goto, Errs
<1>17. CASE CallRaises(c)
  BY <1>0, <1>17 DEF CallRaises, ClientTypeOK, Goto, Errs, resultVars
<1> QED
  BY <1>1, <1>2, <1>3, <1>4, <1>5, <1>6, <1>7, <1>8, <1>9, <1>10, <1>11, <1>12, <1>13, <1>14, <1>15, <1>16, <1>17, <1>18, <1>19
     DEF ClientStep

(* A step of another execution finds c without the lock, and so without a  *)
(* claim on PSCAD.                                                         *)
LEMMA OthersKeepTrust ==
  ASSUME ClientTypeOK, OneOwner, OnePort,
         NEW c \in Clients, NEW d \in Clients \ {c}, Trusted(c), ClientStep(d)
  PROVE  Trusted(c)'
<1>1. pc[c] \notin Holding
  BY StepIsLocal DEF OneOwner, OnePort
<1>2. pc[c] \in {"idle", "done"}
  BY <1>1 DEF ClientTypeOK
<1>3. /\ job' = job /\ left' = left /\ owed' = owed
      /\ pc'[c] = pc[c] /\ item'[c] = item[c] /\ error'[c] = error[c]
      /\ output'[c] = output[c] /\ seen'[c] = seen[c] /\ awaited'[c] = awaited[c]
  BY StepIsLocal
<1> QED
  BY <1>2, <1>3 DEF Trusted, Begun, Watched, Prepared, Simulated, WholeAtRest, Heard,
           Reported, Known, BeforeRun, AfterRun,
                    Wanted, WrittenFrom

LEMMA ExecuteKeepsTrust ==
  ASSUME ClientTypeOK, NEW c \in Clients, Trusted(c), NEW d \in Clients, NEW j \in Jobs,
         execute_pscad_manifest(d, j), j.run => j.doc # 0
  PROVE  Trusted(c)'
<1> USE DEF Trusted, Begun, Watched, Prepared, Simulated, WholeAtRest, Heard,
           Reported, Known, BeforeRun, AfterRun
<1>1. CASE c = d
  <2>1. /\ job'[c] = j /\ left'[c] = sim /\ owed'[c] = queued
        /\ item'[c] = item[c] /\ pc[c] = "idle" /\ sim' = sim /\ queued' = queued
        /\ seen'[c] = seen[c] /\ awaited'[c] = awaited[c]
        /\ pc'[c] = "server" \/ (pc'[c] = "done" /\ error'[c])
    BY <1>1 DEF execute_pscad_manifest, ClientTypeOK, Goto, Errs, KeepServer, serverVars
  <2> QED
    BY <2>1
<1>2. CASE c # d
  <2>1. /\ job'[c] = job[c] /\ left'[c] = left[c] /\ owed'[c] = owed[c]
        /\ Wanted(c)' = Wanted(c)
        /\ pc'[c] = pc[c] /\ item' = item /\ error'[c] = error[c]
        /\ output' = output /\ seen' = seen /\ awaited' = awaited /\ UNCHANGED serverVars
    BY <1>2 DEF execute_pscad_manifest, ClientTypeOK, Goto, Errs, KeepServer, Wanted, WrittenFrom
  <2> QED
    BY <2>1 DEF serverVars
<1> QED
  BY <1>1, <1>2

LEMMA ReturnKeepsTrust ==
  ASSUME ClientTypeOK, NEW c \in Clients, Trusted(c), NEW d \in Clients, Return(d)
  PROVE  Trusted(c)'
<1> USE DEF Trusted, Begun, Watched, Prepared, Simulated, WholeAtRest, Heard,
           Reported, Known, BeforeRun, AfterRun
<1>1. CASE c = d
  BY <1>1 DEF Return, ClientTypeOK, Goto, NoJob
<1>2. CASE c # d
  <2>1. /\ job'[c] = job[c] /\ left'[c] = left[c] /\ owed'[c] = owed[c]
        /\ Wanted(c)' = Wanted(c)
        /\ pc'[c] = pc[c] /\ item' = item /\ error'[c] = error[c] /\ seen' = seen
        /\ output'[c] = output[c] /\ awaited'[c] = awaited[c] /\ UNCHANGED serverVars
    BY <1>2 DEF Return, ClientTypeOK, Goto, KeepServer, Wanted, WrittenFrom
  <2> QED
    BY <2>1 DEF serverVars
<1> QED
  BY <1>1, <1>2

(* PSCAD, the server, the editor and the user at it.                       *)
LEMMA BackgroundKeepsTrust ==
  ASSUME ClientTypeOK, NEW c \in Clients, Trusted(c),
         PscadWrites \/ PscadStops \/ StartSettled \/ ServerComesUp \/ Failure
  PROVE  Trusted(c)'
<1> USE DEF Trusted, Begun, Watched, Prepared, Simulated, WholeAtRest, Heard,
           Reported, Known, BeforeRun, AfterRun
<1>1. /\ pc' = pc /\ job' = job /\ left' = left /\ owed' = owed /\ item' = item
      /\ error' = error /\ output' = output /\ seen' = seen /\ awaited' = awaited
      /\ Wanted(c)' = Wanted(c)
  BY DEF PscadWrites, PscadStops, StartSettled, ServerComesUp, Failure, clientVars, resultVars, Wanted,
         WrittenFrom
<1>2. CASE PscadWrites
  <2>1. sim # Idle /\ psout'.of = sim /\ param' = param /\ attached' = attached
        /\ queued' = queued
        /\ sim' \in {sim, Idle} /\ (sim' = Idle => psout'.whole)
    BY <1>2 DEF PscadWrites, WriteOutput, FinishWithOutput
  <2> QED
    BY <1>1, <2>1
<1>3. CASE PscadStops
  BY <1>1, <1>3 DEF PscadStops, FinishWithout
<1>4. CASE ServerComesUp
  BY <1>1, <1>4 DEF ServerComesUp, ServerListens
<1>5. CASE Failure
  <2>1. /\ psout' = psout
        /\ \/ attached' = attached /\ param' = param /\ sim' = sim /\ queued' = queued
           \/ ~attached' /\ param' = param /\ sim' = sim /\ queued' = queued
           \/ ~attached' /\ sim' = Idle /\ ~queued'
    BY <1>5 DEF Failure, ServerDies, EditorCloses, WindowIsLost
  <2> QED
    BY <1>1, <2>1
<1>6. CASE StartSettled
  <2>1. /\ psout' = psout /\ param' = param /\ attached' = attached /\ queued /\ ~queued'
        /\ sim' = sim \/ (sim = Idle /\ sim' = param)
    BY <1>6 DEF StartSettled, RunBegins, StartForgotten, StartSimulation
  <2> QED
    BY <1>1, <2>1
<1> QED
  BY <1>2, <1>3, <1>4, <1>5, <1>6

LEMMA UnchangedKeepsTrust ==
  ASSUME NEW c \in Clients, Trusted(c), UNCHANGED <<serverVars, clientVars>>
  PROVE  Trusted(c)'
BY DEF serverVars, clientVars, Trusted, Begun, Watched, Prepared, Simulated, WholeAtRest,
       Heard, Reported, Known, Wanted,
       WrittenFrom

LEMMA StepsKeepTrust ==
  ASSUME TypeOK, OneOwner, AllTrusted, Next, OnePort
  PROVE  AllTrusted'
<1> SUFFICES ASSUME NEW c \in Clients PROVE Trusted(c)'
  BY DEF AllTrusted
<1>1. ClientTypeOK /\ Trusted(c)
  BY DEF TypeOK, AllTrusted
<1>2. CASE UNCHANGED <<serverVars, clientVars>>
  BY <1>1, <1>2, UnchangedKeepsTrust
<1>3. ASSUME NEW d \in Clients, NEW j \in Jobs, execute_pscad_manifest(d, j),
             j \in CliJobs \/ j.doc \in Entered \/ ~j.run
      PROVE  Trusted(c)'
  <2>1. j.run => j.doc # 0
    BY <1>3, Constants, ServerAssumption
  <2> QED
    BY <1>1, <1>3, <2>1, ExecuteKeepsTrust
<1>4. ASSUME NEW d \in Clients, Return(d)
      PROVE  Trusted(c)'
  BY <1>1, <1>4, ReturnKeepsTrust
<1>5. ASSUME NEW d \in Clients, ClientStep(d)
      PROVE  Trusted(c)'
  BY <1>1, <1>5, StepKeepsTrust, OthersKeepTrust
<1>6. CASE PscadWrites \/ PscadStops \/ StartSettled \/ ServerComesUp \/ Failure
  BY <1>1, <1>6, BackgroundKeepsTrust
<1> QED
  BY <1>2, <1>3, <1>4, <1>5, <1>6, StepsOfClients

(* With one port and no start of an earlier execution outstanding, a run   *)
(* that reports no error holds output of its own manifest, or of the       *)
(* simulation it found at work; the whole of it, if PSCAD was at rest and  *)
(* said that the run was over (pscad_mcp_client.py).                       *)
THEOREM OutputTrusted == Spec => [](OnePort => TrustedOutput)
<1>1. Init => (OnePort => AllTrusted)
  BY InitTrusted
<1>2. TypeOK /\ OneOwner /\ (OnePort => AllTrusted) /\ [Next]_vars => (OnePort => AllTrusted)'
  <2>1. ASSUME AllTrusted, UNCHANGED vars
        PROVE  AllTrusted'
    BY <2>1, UnchangedKeepsTrust DEF vars, AllTrusted
  <2>2. OnePort' = OnePort
    BY DEF OnePort
  <2> QED
    BY <2>1, <2>2, StepsKeepTrust
<1>3. (OnePort => AllTrusted) => (OnePort => TrustedOutput)
  BY DEF AllTrusted, Trusted, Watched, Reported, Known, TrustedOutput, Wanted
<1> QED
  BY <1>1, <1>2, <1>3, TypeCorrect, RunsExclude, PTL DEF Spec

-----------------------------------------------------------------------------
(* The page.                                                               *)

(* What the page has observed is what it executes, and what it shows.      *)
PageFollows ==
  /\ shown \in Documents /\ ~missed => shown = observed
  /\ page = "running" => job[Page].doc = observed
  /\ page = "running" /\ act = "none" => doc = observed
  /\ page = "idle" => doc = observed

LEMMA PageStepsFollow ==
  ASSUME TypeOK, PageFollows, Next
  PROVE  PageFollows'
<1>0. None \notin Documents /\ Refused \notin Documents
  BY ServerAssumption DEF None, Refused
<1>1. CASE UserActs
  BY <1>1 DEF UserActs, clientVars, PageFollows
<1>2. CASE Reload \/ ClearResult \/ CheckConnection
  BY <1>0, <1>2 DEF Reload, ClearResult, CheckConnection, PageFollows
<1>3. CASE PassDone \/ PassRefused \/ PassReplays
  BY <1>0, <1>3 DEF PassDone, PassRefused, PassReplays, Scripted, Runs, inputs_changed, PageFollows,
                    TypeOK
<1>4. CASE PassExecutes
  <2>1. PICK j \in PageJobs : execute_pscad_manifest(Page, [j EXCEPT !.doc = doc])
    BY <1>4 DEF PassExecutes
  <2>2. job'[Page].doc = doc
    BY <2>1, Constants, JobsHold DEF execute_pscad_manifest, TypeOK, ClientTypeOK
  <2> QED
    BY <1>0, <1>4, <2>2 DEF PassExecutes, ResetResult, PageFollows
<1>5. CASE ExecutionReturns
  BY <1>5 DEF ExecutionReturns, PageFollows
<1>6. ASSUME NEW c \in Clients, CliStarts(c) \/ CliExits(c)
      PROVE  PageFollows'
  BY <1>6, Constants DEF CliStarts, CliExits, execute_pscad_manifest, Return, pageVars,
                         PageFollows, TypeOK, ClientTypeOK
<1>7. CASE Executing
  BY <1>7, StepIsLocal DEF Executing, pageVars, PageFollows, TypeOK
<1>8. CASE Background
  BY <1>8 DEF Background, PscadWrites, PscadStops, StartSettled, ServerComesUp, Failure, clientVars, pageVars,
              PageFollows
<1> QED
  BY <1>1, <1>2, <1>3, <1>4, <1>5, <1>6, <1>7, <1>8 DEF Next, Pass

(* The result a resting page shows belongs to the inputs it shows          *)
(* (dashboard.py, main).                                                   *)
THEOREM ShownResultIsCurrent == Spec => []ShownIsCurrent
<1>1. Init => PageFollows
  BY ServerAssumption DEF Init, PageFollows, None
<1>2. TypeOK /\ PageFollows /\ [Next]_vars => PageFollows'
  <2>1. ASSUME PageFollows, UNCHANGED vars
        PROVE  PageFollows'
    BY <2>1 DEF vars, clientVars, pageVars, PageFollows
  <2> QED
    BY <2>1, PageStepsFollow
<1>3. PageFollows => ShownIsCurrent
  BY DEF PageFollows, ShownIsCurrent
<1> QED
  BY <1>1, <1>2, <1>3, TypeCorrect, PTL DEF Spec
-----------------------------------------------------------------------------
(* Why an execution comes back.  Its steps, with what is left of it before *)
(* each; it goes back only to write the next item of its manifest or to    *)
(* poll again.                                                             *)
Left ==
  [done |-> 1, leave |-> 2, read |-> 3, output |-> 4, messages |-> 5, sleep |-> 6, wait |-> 6,
   look |-> 7, poll |-> 8, run |-> 9, build |-> 10, prepare |-> 11, write |-> 12, load |-> 13,
   status |-> 14, visible |-> 15, spawned |-> 16, server |-> 17, idle |-> 0]

Nearer(c) ==
  \/ Left[pc'[c]] < Left[pc[c]]
  \/ pc[c] = "write" /\ pc'[c] = "write" /\ item'[c] = item[c] + 1
  \/ pc[c] = "sleep" /\ pc'[c] = "poll" /\ polls'[c] = polls[c] + 1

(* Every step of an execution brings it nearer to its end, and no failure, *)
(* no simulation and no other client ever sets it back.                    *)
ExecutionsDescend ==
  \A c \in Clients :
    /\ ClientStep(c) => Nearer(c)
    /\ pc[c] # "idle" =>
         Nearer(c) \/ (pc'[c] = pc[c] /\ item'[c] = item[c] /\ polls'[c] = polls[c])

LEMMA StepsLeft ==
  /\ Left["done"] = 1 /\ Left["leave"] = 2 /\ Left["read"] = 3 /\ Left["output"] = 4
  /\ Left["messages"] = 5 /\ Left["sleep"] = 6 /\ Left["wait"] = 6 /\ Left["look"] = 7
  /\ Left["poll"] = 8 /\ Left["run"] = 9 /\ Left["build"] = 10 /\ Left["prepare"] = 11
  /\ Left["write"] = 12 /\ Left["load"] = 13 /\ Left["status"] = 14 /\ Left["visible"] = 15
  /\ Left["spawned"] = 16 /\ Left["server"] = 17 /\ Left["idle"] = 0
BY DEF Left

LEMMA StepDescends ==
  ASSUME ClientTypeOK, NEW c \in Clients, ClientStep(c)
  PROVE  Nearer(c)
<1>0. pc \in [Clients -> Holding \union {"idle", "done"}]
  BY DEF ClientTypeOK
<1>1. ASSUME NEW step, Goto(c, step), Left[step] < Left[pc[c]]
      PROVE  Nearer(c)
  BY <1>0, <1>1 DEF Goto, Nearer
<1>2. CASE FindServer(c)
  <2>1. pc[c] = "server" /\ (Goto(c, "visible") \/ Goto(c, "spawned"))
    BY <1>2 DEF FindServer
  <2> QED
    BY <1>1, <2>1, StepsLeft
<1>3. CASE ServerIsUp(c)
  <2>1. pc[c] = "spawned" /\ Goto(c, "visible")
    BY <1>3 DEF ServerIsUp
  <2> QED
    BY <1>1, <2>1, StepsLeft
<1>4. CASE ServerGivenUp(c)
  <2>1. pc[c] = "spawned" /\ Goto(c, "leave")
    BY <1>4 DEF ServerGivenUp
  <2> QED
    BY <1>1, <2>1, StepsLeft
<1>5. CASE EnsureVisible(c)
  <2>1. pc[c] = "visible" /\ (Goto(c, "status") \/ Goto(c, "leave"))
    BY <1>5 DEF EnsureVisible
  <2> QED
    BY <1>1, <2>1, StepsLeft
<1>6. CASE VerifyConnection(c)
  <2>1. pc[c] = "status" /\ Goto(c, "load")
    BY <1>6 DEF VerifyConnection
  <2> QED
    BY <1>1, <2>1, StepsLeft
<1>7. CASE LoadProjects(c)
  <2>1. pc[c] = "load" /\ (Goto(c, "prepare") \/ Goto(c, "leave") \/ Goto(c, "write"))
    BY <1>7 DEF LoadProjects, AfterWrites
  <2> QED
    BY <1>1, <2>1, StepsLeft
<1>8. CASE Prepare(c)
  <2>1. pc[c] = "prepare" /\ Goto(c, "build")
    BY <1>8 DEF Prepare
  <2> QED
    BY <1>1, <2>1, StepsLeft
<1>9. CASE BuildProject(c)
  <2>1. pc[c] = "build" /\ (Goto(c, "run") \/ Goto(c, "output"))
    BY <1>9 DEF BuildProject
  <2> QED
    BY <1>1, <2>1, StepsLeft
<1>10. CASE RunProject(c)
  <2>1. pc[c] = "run" /\ (Goto(c, "wait") \/ Goto(c, "sleep") \/ Goto(c, "messages"))
    BY <1>10 DEF RunProject
  <2> QED
    BY <1>1, <2>1, StepsLeft
<1>11. CASE RunReturns(c)
  <2>1. pc[c] = "wait" /\ Goto(c, "messages")
    BY <1>11 DEF RunReturns
  <2> QED
    BY <1>1, <2>1, StepsLeft
<1>12. CASE CollectOutput(c)
  <2>1. pc[c] = "messages" /\ Goto(c, "output")
    BY <1>12 DEF CollectOutput
  <2> QED
    BY <1>1, <2>1, StepsLeft
<1>13. CASE GetProjectOutput(c)
  <2>1. pc[c] = "output" /\ (Goto(c, "read") \/ Goto(c, "leave"))
    BY <1>13 DEF GetProjectOutput
  <2> QED
    BY <1>1, <2>1, StepsLeft
<1>14. CASE ReadOutput(c)
  <2>1. pc[c] = "read" /\ Goto(c, "leave")
    BY <1>14 DEF ReadOutput
  <2> QED
    BY <1>1, <2>1, StepsLeft
<1>15. CASE Release(c)
  <2>1. pc[c] = "leave" /\ Goto(c, "done")
    BY <1>15 DEF Release
  <2> QED
    BY <1>1, <2>1, StepsLeft
<1>16. CASE WriteParameters(c)
  <2>1. CASE item[c] < Len(Items)
    <3>1. item \in [Clients -> Places] /\ pc[c] = "write" /\ pc' = pc
          /\ item' = [item EXCEPT ![c] = @ + 1]
      BY <1>16, <2>1 DEF WriteParameters, ClientTypeOK
    <3> QED
      BY <3>1 DEF Nearer
  <2>2. CASE ~(item[c] < Len(Items))
    <3>1. pc[c] = "write" /\ (Goto(c, "prepare") \/ Goto(c, "leave"))
      BY <1>16, <2>2 DEF WriteParameters, AfterWrites
    <3> QED
      BY <1>1, <3>1, StepsLeft
  <2> QED
    BY <2>1, <2>2
<1>17. CASE Wake(c)
  <2>1. pc[c] = "sleep"
        /\ \/ Goto(c, "messages")
           \/ Goto(c, "poll") /\ polls' = [polls EXCEPT ![c] = @ + 1]
    BY <1>17 DEF Wake, PollAgain
  <2>2. CASE Goto(c, "messages")
    BY <1>1, <2>1, <2>2, StepsLeft
  <2>3. CASE Goto(c, "poll") /\ polls' = [polls EXCEPT ![c] = @ + 1]
    BY <1>0, <2>1, <2>3 DEF ClientTypeOK, Nearer, Goto
  <2> QED
    BY <2>1, <2>2, <2>3
<1>19. CASE Poll(c)
  <2>1. pc[c] = "poll" /\ (Goto(c, "sleep") \/ Goto(c, "messages") \/ Goto(c, "look"))
    BY <1>19 DEF Poll
  <2> QED
    BY <1>1, <2>1, StepsLeft
<1>20. CASE Look(c)
  <2>1. pc[c] = "look" /\ (Goto(c, "sleep") \/ Goto(c, "messages"))
    BY <1>20 DEF Look
  <2> QED
    BY <1>1, <2>1, StepsLeft
<1>18. CASE CallRaises(c)
  <2>1. pc[c] \in Calling /\ Goto(c, "leave")
    BY <1>18 DEF CallRaises
  <2> QED
    BY <1>1, <2>1, StepsLeft DEF Calling
<1> QED
  BY <1>2, <1>3, <1>4, <1>5, <1>6, <1>7, <1>8, <1>9, <1>10, <1>11, <1>12, <1>13, <1>14, <1>15, <1>16, <1>17, <1>18, <1>19, <1>20
     DEF ClientStep

(* Items and polls are bounded (TypeCorrect), so that an execution takes   *)
(* a bounded number of steps of its own while it holds the lock            *)
(* (pscad_mcp_client.py, pscad_run_lock.py).                               *)
THEOREM ExecutionsComeBack == Spec => [][ExecutionsDescend]_vars
<1>1. TypeOK /\ [Next]_vars => [ExecutionsDescend]_vars
  <2> SUFFICES ASSUME TypeOK, Next, NEW c \in Clients
               PROVE  /\ ClientStep(c) => Nearer(c)
                      /\ pc[c] # "idle" =>
                           Nearer(c) \/ (pc'[c] = pc[c] /\ item'[c] = item[c] /\ polls'[c] = polls[c])
    BY DEF ExecutionsDescend
  <2>0. ClientTypeOK /\ pc \in [Clients -> Holding \union {"idle", "done"}]
    BY DEF TypeOK, ClientTypeOK
  <2>1. ClientStep(c) => Nearer(c)
    BY <2>0, StepDescends
  <2>2. ASSUME NEW d \in Clients \ {c}, ClientStep(d)
        PROVE  pc'[c] = pc[c] /\ item'[c] = item[c] /\ polls'[c] = polls[c]
    BY <2>0, <2>2, StepIsLocal
  <2>3. ASSUME NEW d \in Clients, NEW j \in Jobs, execute_pscad_manifest(d, j), pc[c] # "idle"
        PROVE  pc'[c] = pc[c] /\ item'[c] = item[c] /\ polls'[c] = polls[c]
    BY <2>0, <2>3 DEF execute_pscad_manifest, Goto
  <2>4. ASSUME NEW d \in Clients, Return(d)
        PROVE  \/ Nearer(c)
               \/ pc'[c] = pc[c] /\ item'[c] = item[c] /\ polls'[c] = polls[c]
    <3>1. pc[d] = "done" /\ pc' = [pc EXCEPT ![d] = "idle"] /\ UNCHANGED <<item, polls>>
      BY <2>4 DEF Return, Goto
    <3>2. CASE d = c
      <4>1. pc[c] = "done" /\ pc'[c] = "idle"
        BY <2>0, <3>1, <3>2
      <4> QED
        BY <4>1, StepsLeft DEF Nearer
    <3> QED
      BY <2>0, <3>1, <3>2
  <2>5. ASSUME PscadWrites \/ PscadStops \/ StartSettled \/ ServerComesUp \/ Failure
        PROVE  pc' = pc /\ item' = item /\ polls' = polls
    BY <2>5 DEF PscadWrites, PscadStops, StartSettled, ServerComesUp, Failure, clientVars, resultVars
  <2>6. ASSUME UNCHANGED <<serverVars, clientVars>>
        PROVE  pc' = pc /\ item' = item /\ polls' = polls
    BY <2>6 DEF clientVars
  <2> QED
    BY <2>1, <2>2, <2>3, <2>4, <2>5, <2>6, StepsOfClients
<1> QED
  BY <1>1, TypeCorrect, PTL DEF Spec
=============================================================================
