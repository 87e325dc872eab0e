----------------------- MODULE RequestPipeline_proofs -----------------------
(***************************************************************************)
(* Proofs about RequestPipeline, for every table of models and providers,  *)
(* every set of answers and sessions of any length.                        *)
(***************************************************************************)
EXTENDS RequestPipeline, EngineSession, FiniteSetTheorems, WellFoundedInduction, TLAPS

\* The models the policies switch to exist.
LEMMA Switches ==
    ASSUME TypeOK
    PROVE  /\ resolve_fallback \in LocalModels
           /\ RoleModel("general") \in LocalModels
           /\ \A action \in RecoveryActions : Switched(action) \in Models
           /\ \A asked \in Models \cup {NoModel}, task \in Tasks \cup {"general"},
                 heavy, pressure \in BOOLEAN :
                 Target(asked, task, heavy, pressure) \in Models
<1>1. resolve_fallback \in LocalModels
  BY RolesAssumption, TablesAssumption DEF resolve_fallback
<1>2. \A r \in {"coder", "general"} : RoleModel(r) \in LocalModels
  BY RolesAssumption DEF RoleModel
<1>3. Cheapest # NoModel => Cheapest \in Models
  BY TablesAssumption DEF Models
<1>4. \A action \in RecoveryActions : Switched(action) \in Models
  BY <1>1, <1>3 DEF Switched, Models, TypeOK
<1>5. ASSUME NEW asked \in Models \cup {NoModel}, NEW task \in Tasks \cup {"general"},
             NEW heavy \in BOOLEAN, NEW pressure \in BOOLEAN
      PROVE  Target(asked, task, heavy, pressure) \in Models
  <2>1. RoleModel(IF task = "coding" THEN "coder" ELSE "general") \in Models
    BY <1>2 DEF Models
  <2>2. Offload \in Models  BY TablesAssumption
  <2>3. QED  BY <1>3, <2>1, <2>2 DEF Target
<1>6. QED  BY <1>1, <1>2, <1>4, <1>5

\* What infer returns is an answer, and a 200 has a body.
LEMMA InferType ==
    ASSUME NEW m
    PROVE  infer(m) \subseteq ({200} \X AllBodies) \cup AllErrors \cup OwnErrors
<1>1. {200} \X Bodies \subseteq {200} \X AllBodies  BY AnswersAssumption
<1>2. <<200, "local">> \in {200} \X AllBodies  BY DEF AllBodies
<1>3. {<<429, "busy">>, <<500, "missing">>, <<503, "headroom">>, <<429, "no_key">>}
          \subseteq OwnErrors
  BY DEF OwnErrors
<1>4. Errors \cup {<<503, "unreachable">>} \subseteq AllErrors
  BY AnswersAssumption DEF AllErrors
<1>5. CASE IsLocal(m)  BY <1>2, <1>3, <1>5 DEF infer
<1>6. CASE ~IsLocal(m)  BY <1>1, <1>3, <1>4, <1>6 DEF infer
<1>7. QED  BY <1>5, <1>6

\* What an attempt on a cloud model may return.
LEMMA CloudAnswers ==
    ASSUME NEW m, ~IsLocal(m)
    PROVE  infer(m) \subseteq {<<429, "no_key">>} \cup ({200} \X Bodies) \cup AllErrors
<1>1. Errors \subseteq AllErrors  BY AnswersAssumption
<1>2. <<503, "unreachable">> \in AllErrors  BY DEF AllErrors
<1>3. infer(m) \in {{<<429, "no_key">>}, ({200} \X Bodies) \cup Errors,
                    {<<503, "unreachable">>}}
  BY DEF infer
<1>4. QED  BY <1>1, <1>2, <1>3

LEMMA RecoveryType ==
    ASSUME NEW status, NEW body
    PROVE  determine_action(status, body) \in RecoveryActions \ {"none"}
BY DEF determine_action, RecoveryActions

LEMMA AnalyzeType ==
    ASSUME NEW body
    PROVE  analyze(body) \in {"TOOL_CALL", "INVALID", "MODEL_CONTINUE",
                              "COMPLETE", "MODEL_ERROR"}
BY DEF analyze

\* An answer of status 200 carries a body of a model.
LEMMA OkBody ==
    ASSUME NEW a \in ({200} \X AllBodies) \cup AllErrors \cup OwnErrors
    PROVE  /\ a[1] = 200 => a[2] \in AllBodies
           /\ a[1] \in Nat
           /\ a[1] # 200 => a[2] # "local"
BY DEF AllErrors, OwnErrors

\* Between its two counters and its status a request is always well formed; only
\* an answered attempt is analyzed and only a failed one is recovered from.
StepInv ==
    /\ TypeOK
    /\ pc = "analyze" => answer[1] = 200
    /\ pc = "recover" => answer[1] # 200
    /\ pc = "dispatch" => retry = 0 /\ turn = 0

-----------------------------------------------------------------------------
LEMMA InitStep == Init => StepInv
<1> SUFFICES ASSUME Init PROVE StepInv  OBVIOUS
<1>1. NewSession \in Sessions  BY DEF NewSession, Sessions
<1>2. NewPrompt("chatml") \in Prompts  BY DEF NewPrompt, Prompts, Templates
<1>3. Default["general"] \in Models  BY RolesAssumption DEF Models
<1>4. QED
  BY <1>1, <1>2, <1>3 DEF Init, StepInv, TypeOK, Templates, MaxTurns, MaxRetries,
     AllBodies, RecoveryActions

\* A session stays one when its status, task and results are assigned.
LEMMA SessionType ==
    ASSUME NEW s \in Sessions,
           NEW st \in {"CREATED", "INFERRING", "WAITING_FOR_TOOL", "CONTINUING",
                       "COMPLETED", "FAILED"},
           NEW task \in Tasks \cup {"none", "general"}, NEW body \in AllBodies
    PROVE  /\ [s EXCEPT !.status = st] \in Sessions
           /\ [s EXCEPT !.status = st, !.task = task] \in Sessions
           /\ [s EXCEPT !.status = st, !.results = Append(@, body)] \in Sessions
           /\ s.status \in {"CREATED", "INFERRING", "WAITING_FOR_TOOL", "CONTINUING",
                            "COMPLETED", "FAILED"}
<1>1. s.results \in Seq(AllBodies) /\ Append(s.results, body) \in Seq(AllBodies)
  BY DEF Sessions
<1>2. QED  BY <1>1 DEF Sessions

LEMMA ReceiveStep ==
    ASSUME StepInv, NEW asked \in Models \cup {NoModel},
           NEW task \in Tasks \cup {"general"}, NEW heavy \in BOOLEAN,
           NEW pressure \in BOOLEAN, Receive(asked, task, heavy, pressure)
    PROVE  StepInv'
<1> DEFINE t == IF asked = NoModel THEN task ELSE "general"
           m == Target(asked, t, heavy, pressure)
           s == IF stored = NoSession THEN NewSession ELSE stored
<1>1. m \in Models
  BY Switches DEF StepInv
<1>2. FormatFor(m) \in Templates
  <2>1. m \in resident => Template[m] \in Templates
    BY RolesAssumption DEF StepInv, TypeOK
  <2>2. NameTemplate[m] \in Templates  BY <1>1, RolesAssumption
  <2>3. QED  BY <2>1, <2>2 DEF FormatFor
<1>3. NewPrompt(FormatFor(m)) \in Prompts  BY <1>2 DEF NewPrompt, Prompts
<1>4. s \in Sessions  BY DEF NewSession, Sessions, StepInv, TypeOK
<1>5. /\ [s EXCEPT !.status = "CONTINUING"] \in Sessions
      /\ [s EXCEPT !.status = "INFERRING", !.task = t] \in Sessions
  BY <1>4 DEF Sessions
<1> HIDE DEF m, t, s
<1>6. QED
  BY <1>1, <1>2, <1>3, <1>4, <1>5
  DEF Receive, m, t, s, StepInv, TypeOK, MaxTurns, MaxRetries, RecoveryActions

LEMMA AttemptStep == ASSUME StepInv, Attempt PROVE StepInv'
<1>1. answer' \in ({200} \X AllBodies) \cup AllErrors \cup OwnErrors
  BY InferType DEF Attempt
<1>2. IsLocal(target) \/ answer'[2] \notin {"local", "headroom"}
  <2>1. SUFFICES ASSUME ~IsLocal(target)
                 PROVE  answer'[2] \notin {"local", "headroom"}
    OBVIOUS
  <2>2. answer' \in {<<429, "no_key">>} \cup ({200} \X Bodies) \cup AllErrors
    BY <2>1, CloudAnswers DEF Attempt
  <2>3. \A b \in Bodies : b \notin {"local", "headroom"}
    BY AnswersAssumption DEF AllBodies
  <2>4. QED  BY <2>2, <2>3 DEF AllErrors
<1>3. IsLocal(target) => target \in LocalModels
  BY DEF IsLocal, StepInv, TypeOK, Models
<1>4. resident' \subseteq LocalModels
  BY <1>2, <1>3 DEF Attempt, StepInv, TypeOK
<1>5. QED
  BY <1>1, <1>4 DEF Attempt, StepInv, TypeOK, RecoveryActions

LEMMA RecoverStep == ASSUME StepInv, Recover PROVE StepInv'
<1> DEFINE action == determine_action(answer[1], answer[2])
<1>1. action \in RecoveryActions  BY RecoveryType
<1>2. target' \in Models  BY <1>1, Switches DEF Recover, StepInv
<1>3. prompt' \in Prompts
  BY DEF Recover, StepInv, TypeOK, NewPrompt, Prompts
<1>4. session' \in Sessions /\ answer[1] \in Nat
  BY OkBody DEF Recover, StepInv, TypeOK, Sessions
<1>5. retry' \in 0..MaxRetries - 1
  BY DEF Recover, GivesUp, NextRetry, StepInv, TypeOK, MaxRetries
<1> HIDE DEF action
<1>6. recovery' \in RecoveryActions  BY <1>1 DEF Recover, action
<1>7. res' \in Nat /\ pc' \in {"save", "infer"}
  BY <1>4 DEF Recover, StepInv, TypeOK
<1>8. UNCHANGED <<env, resident, stored, cfg, turn, answer>>  BY DEF Recover
<1>9. QED
  BY <1>2, <1>3, <1>4, <1>5, <1>6, <1>7, <1>8 DEF StepInv, TypeOK

\* Every branch of Analyze adds the body to the results.
LEMMA AnalyzeGrows ==
    ASSUME StepInv, Analyze
    PROVE  \E st \in {session.status, "WAITING_FOR_TOOL", "CONTINUING", "COMPLETED"} :
              session' = [session EXCEPT !.status = st,
                                         !.results = Append(@, answer[2])]
BY Zenon DEF Analyze

LEMMA AnalyzeStep == ASSUME StepInv, Analyze PROVE StepInv'
<1>1. answer[2] \in AllBodies  BY OkBody DEF Analyze, StepInv, TypeOK
<1>2. session' \in Sessions
  <2>1. session \in Sessions  BY DEF StepInv, TypeOK
  <2>2. session.status \in {"CREATED", "INFERRING", "WAITING_FOR_TOOL",
                            "CONTINUING", "COMPLETED", "FAILED"}
    BY <2>1 DEF Sessions
  <2>3. PICK st \in {session.status, "WAITING_FOR_TOOL", "CONTINUING", "COMPLETED"} :
            session' = [session EXCEPT !.status = st,
                                       !.results = Append(@, answer[2])]
    BY AnalyzeGrows
  <2>4. st \in {"CREATED", "INFERRING", "WAITING_FOR_TOOL", "CONTINUING",
                "COMPLETED", "FAILED"}
    BY <2>2
  <2>5. Append(session.results, answer[2]) \in Seq(AllBodies)
    BY <1>1, <2>1 DEF Sessions
  <2>6. QED  BY <2>1, <2>3, <2>4, <2>5 DEF Sessions
<1>3. target' \in Models
  <2>1. target' \in {target, RoleModel("general")}  BY Zenon DEF Analyze
  <2>2. target \in Models /\ RoleModel("general") \in LocalModels
    BY Switches DEF StepInv, TypeOK
  <2>3. QED  BY <2>1, <2>2 DEF Models
<1>4. prompt' \in Prompts
  <2>1. prompt' \in {prompt, [prompt EXCEPT !.continued = TRUE]}  BY Zenon DEF Analyze
  <2>2. prompt \in Prompts  BY DEF StepInv, TypeOK
  <2>3. [prompt EXCEPT !.continued = TRUE] \in Prompts  BY <2>2 DEF Prompts
  <2>4. QED  BY <2>1, <2>2, <2>3
<1>5. /\ turn' \in 0..MaxTurns - 1 /\ retry' \in 0..MaxRetries - 1
      /\ res' \in Nat /\ pc' \in {"save", "infer"}
  BY DEF Analyze, NextTurn, StepInv, TypeOK, MaxTurns, MaxRetries
<1>6. UNCHANGED <<env, resident, stored, cfg, answer, recovery>>  BY DEF Analyze
<1>7. QED
  BY <1>2, <1>3, <1>4, <1>5, <1>6 DEF StepInv, TypeOK

LEMMA SaveStep == ASSUME StepInv, Save PROVE StepInv'
<1>1. NewSession \in Sessions  BY DEF NewSession, Sessions
<1>2. NewPrompt("chatml") \in Prompts  BY DEF NewPrompt, Prompts, Templates
<1>3. Default["general"] \in Models  BY RolesAssumption DEF Models
<1>4. QED
  BY <1>1, <1>2, <1>3 DEF Save, StepInv, TypeOK, Templates, MaxTurns, MaxRetries,
     AllBodies, RecoveryActions

LEMMA NextStep == StepInv /\ [Next]_vars => StepInv'
<1> SUFFICES ASSUME StepInv, [Next]_vars PROVE StepInv'  OBVIOUS
<1>1. CASE Refuse
  BY <1>1 DEF Refuse, loopVars, StepInv, TypeOK
<1>2. CASE \E asked \in Models \cup {NoModel}, task \in Tasks \cup {"general"},
              heavy, pressure \in BOOLEAN : Receive(asked, task, heavy, pressure)
  BY <1>2, ReceiveStep
<1>3. CASE Dispatch
  <2>1. session' \in Sessions  BY <1>3 DEF Dispatch, StepInv, TypeOK, Sessions
  <2>2. QED  BY <1>3, <2>1 DEF Dispatch, loopVars, StepInv, TypeOK
<1>4. CASE Attempt  BY <1>4, AttemptStep
<1>5. CASE Recover  BY <1>5, RecoverStep
<1>6. CASE Analyze  BY <1>6, AnalyzeStep
<1>7. CASE Save  BY <1>7, SaveStep
<1>8. CASE UNCHANGED vars
  BY <1>8 DEF vars, loopVars, StepInv, TypeOK
<1>9. QED  BY <1>1, <1>2, <1>3, <1>4, <1>5, <1>6, <1>7, <1>8 DEF Next

\* Every variable of the pipeline keeps its type and the loop counters their bounds
\* (DenseLiteEngine.cpp:261-266), for every table of models.
THEOREM Typing == Spec => []TypeOK
<1>1. StepInv => TypeOK  BY DEF StepInv
<1>2. QED  BY <1>1, InitStep, NextStep, PTL DEF Spec

-----------------------------------------------------------------------------
(* No network.                                                              *)

\* What OfflineAnswered assumes of the machine; it never changes.
Offline ==
    /\ ~env.online /\ env.calm
    /\ RoleModel("general") \in env.disk /\ Openrouter \in env.keys

\* A model that answers: local and loadable.
Sure(m) == IsLocal(m) /\ m \in Loadable

\* The first attempt may be on any model; the second is on Cheapest or on a model
\* that answers, the third on a model that answers.
OfflineInv ==
    Offline =>
        /\ pc = "infer" =>
             \/ retry = 0
             \/ retry = 1 /\ (Sure(target) \/ (target = Cheapest /\ Cheapest # NoModel))
             \/ retry = 2 /\ Sure(target)
        /\ pc = "recover" =>
             \/ retry = 0 /\ answer \in {<<429, "no_key">>, <<500, "missing">>,
                                         <<503, "unreachable">>}
             \/ retry = 1 /\ answer = <<503, "unreachable">>
        /\ pc = "analyze" => answer = <<200, "local">>
        /\ pc = "save" => res = 200 /\ session.status = "COMPLETED"

\* Whatever resolve_fallback picks when the network is down can be loaded.
LEMMA FallbackAnswers ==
    ASSUME StepInv, Offline
    PROVE  Sure(resolve_fallback)
<1>1. resolve_fallback \in LocalModels  BY Switches DEF StepInv
<1>2. resolve_fallback \in Loadable
  BY DEF Offline, RoleModel, resolve_fallback, Loadable
<1>3. QED  BY <1>1, <1>2, TablesAssumption DEF Sure, IsLocal

\* What an attempt returns when the network is down.
LEMMA OfflineAnswers ==
    ASSUME StepInv, Offline, Attempt
    PROVE  /\ Sure(target) => answer' = <<200, "local">>
           /\ target = Cheapest /\ Cheapest # NoModel => answer' = <<503, "unreachable">>
           /\ answer' \in {<<200, "local">>, <<429, "no_key">>, <<500, "missing">>,
                           <<503, "unreachable">>}
<1>1. answer' \in infer(target)  BY DEF Attempt
<1>2. Sure(target) => infer(target) = {<<200, "local">>}
  BY Zenon DEF Sure, Offline, infer
<1>3. target = Cheapest /\ Cheapest # NoModel => infer(target) = {<<503, "unreachable">>}
  <2>1. target = Cheapest /\ Cheapest # NoModel =>
            ~IsLocal(target) /\ Provider[target] \in env.keys
    BY TablesAssumption DEF IsLocal, Offline
  <2>2. QED  BY <2>1, Zenon DEF Offline, infer
<1>4. infer(target) \subseteq {<<200, "local">>, <<429, "no_key">>, <<500, "missing">>,
                              <<503, "unreachable">>}
  BY DEF Offline, infer
<1>5. QED  BY <1>1, <1>2, <1>3, <1>4

LEMMA OfflineStep == StepInv /\ OfflineInv /\ [Next]_vars => OfflineInv'
<1> SUFFICES ASSUME StepInv, OfflineInv, [Next]_vars, Offline'
             PROVE  OfflineInv'
  BY DEF OfflineInv
<1>1. env' = env
  BY DEF Next, vars, Refuse, Receive, Dispatch, Attempt, Recover, Analyze, Save
<1>2. Offline  BY <1>1 DEF Offline, RoleModel
<1>3. resident \subseteq resident'
  BY DEF Next, vars, Refuse, Receive, Dispatch, Attempt, Recover, Analyze, Save
<1>4. \A m : Sure(m) => Sure(m)'
  BY <1>1, <1>3 DEF Sure, Loadable, IsLocal
<1>5. CASE Refuse  BY <1>5 DEF Refuse, OfflineInv
<1>6. CASE \E asked \in Models \cup {NoModel}, task \in Tasks \cup {"general"},
              heavy, pressure \in BOOLEAN : Receive(asked, task, heavy, pressure)
  BY <1>6 DEF Receive, OfflineInv
<1>7. CASE Dispatch
  <2>1. pc = "dispatch" /\ retry = 0 /\ retry' = 0
    BY <1>7 DEF Dispatch, loopVars, StepInv
  <2>2. session \in Sessions  BY DEF StepInv, TypeOK
  <2>3. \/ pc' = "infer"
        \/ pc' = "save" /\ res' = 200 /\ session'.status = "COMPLETED"
    BY <1>7, <2>2 DEF Dispatch, Sessions
  <2>4. QED  BY <2>1, <2>3 DEF OfflineInv
<1>8. CASE Attempt
  <2>1. pc = "infer" /\ UNCHANGED <<retry, target>>  BY <1>8 DEF Attempt
  <2>2. CASE answer' = <<200, "local">>
    <3>1. pc' = "analyze"  BY <1>8, <2>2 DEF Attempt
    <3>2. QED  BY <2>2, <3>1 DEF OfflineInv
  <2>3. CASE answer' # <<200, "local">>
    <3>1. answer' \in {<<429, "no_key">>, <<500, "missing">>, <<503, "unreachable">>}
      BY <1>2, <1>8, <2>3, OfflineAnswers
    <3>2. pc' = "recover"  BY <1>8, <3>1 DEF Attempt
    <3>3. ~Sure(target)  BY <1>2, <1>8, <2>3, OfflineAnswers
    <3>4. \/ retry = 0
          \/ retry = 1 /\ target = Cheapest /\ Cheapest # NoModel
      BY <1>2, <2>1, <3>3 DEF OfflineInv
    <3>5. retry = 1 => answer' = <<503, "unreachable">>
      BY <1>2, <1>8, <3>4, OfflineAnswers
    <3>6. QED  BY <2>1, <3>1, <3>2, <3>4, <3>5 DEF OfflineInv
  <2>4. QED  BY <2>2, <2>3
<1>9. CASE Recover
  <2> DEFINE action == determine_action(answer[1], answer[2])
  <2>1. /\ answer = <<429, "no_key">> => action = "SWITCH_KEY"
        /\ answer = <<500, "missing">> => action = "FALLBACK_LOCAL"
        /\ answer = <<503, "unreachable">> => action = "FALLBACK_LOCAL"
    BY DEF determine_action
  <2>2. \/ retry = 0 /\ action \in {"SWITCH_KEY", "FALLBACK_LOCAL"}
        \/ retry = 1 /\ action = "FALLBACK_LOCAL"
    BY <1>2, <1>9, <2>1 DEF Recover, OfflineInv
  <2>3. target' = Switched(action)  BY <1>9 DEF Recover
  <2>4. ~GivesUp(action)  BY <2>2 DEF GivesUp, MaxRetries
  <2>5. pc' = "infer" /\ retry' = retry + 1  BY <1>9, <2>4 DEF Recover, NextRetry
  <2>6. Sure(resolve_fallback)  BY <1>2, FallbackAnswers
  <2>7. action = "FALLBACK_LOCAL" => Sure(target')
    BY <2>3, <2>6 DEF Switched
  <2>8. action = "SWITCH_KEY" =>
          Sure(target') \/ (target' = Cheapest /\ Cheapest # NoModel)
    BY <2>3, <2>6 DEF Switched
  <2> HIDE DEF action
  <2>9. UNCHANGED <<env, resident>>  BY <1>9 DEF Recover
  <2>10. Sure(target)' <=> Sure(target')  BY <2>9 DEF Sure, Loadable, IsLocal
  <2>11. QED  BY <2>2, <2>5, <2>7, <2>8, <2>10 DEF OfflineInv
<1>10. CASE Analyze
  <2>1. answer = <<200, "local">>  BY <1>2, <1>10 DEF Analyze, OfflineInv
  <2>2. analyze(answer[2]) = "COMPLETE" /\ is_acceptable(answer[2])
    BY <2>1 DEF analyze, is_acceptable
  <2>3. /\ session' = [session EXCEPT !.status = "COMPLETED",
                                      !.results = Append(@, answer[2])]
        /\ res' = 200 /\ pc' = "save"
    BY <1>10, <2>2 DEF Analyze
  <2>4. session'.status = "COMPLETED"
    BY <2>3 DEF StepInv, TypeOK, Sessions
  <2>5. QED  BY <2>3, <2>4 DEF OfflineInv
<1>11. CASE Save  BY <1>11 DEF Save, OfflineInv
<1>12. CASE UNCHANGED vars
  BY <1>12, <1>2, <1>4 DEF vars, loopVars, OfflineInv
<1>13. QED
  BY <1>5, <1>6, <1>7, <1>8, <1>9, <1>10, <1>11, <1>12 DEF Next

\* Three attempts are enough without a network, for every table of models and
\* providers: a key for Openrouter and a general model on disk are all it takes.
THEOREM OfflineRequests == Spec => []OfflineAnswered
<1>1. Init => OfflineInv  BY DEF Init, OfflineInv
<1>2. OfflineInv => OfflineAnswered  BY DEF OfflineInv, Offline, OfflineAnswered, Done
<1>3. QED  BY <1>1, <1>2, InitStep, NextStep, OfflineStep, PTL DEF Spec

-----------------------------------------------------------------------------
(* The results of a session.                                                *)

NoLocal(s) == \A i \in DOMAIN s.results : s.results[i] # "local"

\* A session in use or kept has no local result; one that got it is completed.
LocalInv ==
    /\ stored # NoSession => NoLocal(stored)
    /\ pc # "save" => NoLocal(session)
    /\ pc = "save" /\ session.status # "COMPLETED" => NoLocal(session)
    /\ pc = "save" => \A i \in DOMAIN session.results :
                          session.results[i] = "local" => i = Len(session.results)

LEMMA LocalStep == StepInv /\ LocalInv /\ [Next]_vars => LocalInv'
<1> SUFFICES ASSUME StepInv, LocalInv, [Next]_vars PROVE LocalInv'  OBVIOUS
<1>1. NoLocal(NewSession)  BY DEF NoLocal, NewSession
<1>2. CASE Refuse  BY <1>2 DEF Refuse, loopVars, LocalInv, NoLocal
<1>3. CASE \E asked \in Models \cup {NoModel}, task \in Tasks \cup {"general"},
              heavy, pressure \in BOOLEAN : Receive(asked, task, heavy, pressure)
  <2>1. PICK asked, task, heavy, pressure : Receive(asked, task, heavy, pressure)
    BY <1>3
  <2> DEFINE s == IF stored = NoSession THEN NewSession ELSE stored
  <2>2. NoLocal(s)  BY <1>1 DEF LocalInv
  <2>3. s \in Sessions  BY DEF NewSession, Sessions, StepInv, TypeOK
  <2>4. PICK t : session' = [s EXCEPT !.status = "INFERRING", !.task = t]
    BY <2>1 DEF Receive
  <2>5. stored' = s \/ stored' = [s EXCEPT !.status = "CONTINUING"]
    BY <2>1 DEF Receive
  <2>6. pc' = "dispatch"  BY <2>1 DEF Receive
  <2> HIDE DEF s
  <2>7. session'.results = s.results /\ stored'.results = s.results
    BY <2>3, <2>4, <2>5 DEF Sessions
  <2>8. QED  BY <2>2, <2>6, <2>7 DEF LocalInv, NoLocal
<1>4. CASE Dispatch
  <2>1. session'.results = session.results /\ stored' = stored
    BY <1>4 DEF Dispatch, StepInv, TypeOK, Sessions
  <2>2. pc = "dispatch" /\ pc' \in {"save", "infer"}  BY <1>4 DEF Dispatch
  <2>3. QED  BY <2>1, <2>2 DEF LocalInv, NoLocal
<1>5. CASE Attempt
  BY <1>5 DEF Attempt, LocalInv, NoLocal
<1>6. CASE Recover
  <2>1. session'.results = session.results /\ stored' = stored
    BY <1>6 DEF Recover, StepInv, TypeOK, Sessions
  <2>2. pc = "recover" /\ pc' \in {"save", "infer"}  BY <1>6 DEF Recover
  <2>3. QED  BY <2>1, <2>2 DEF LocalInv, NoLocal
<1>7. CASE Analyze
  <2> DEFINE r == session.results
             b == answer[2]
  <2>1. r \in Seq(AllBodies) /\ b \in AllBodies
    BY <1>7, OkBody DEF Analyze, StepInv, TypeOK, Sessions
  <2>2. session'.results = Append(r, b)
    <3>1. session \in Sessions  BY DEF StepInv, TypeOK
    <3>2. PICK st : session' = [session EXCEPT !.status = st,
                                               !.results = Append(@, b)]
      BY AnalyzeGrows, <1>7
    <3>3. QED  BY <3>1, <3>2 DEF Sessions
  <2>3. NoLocal(session)  BY <1>7 DEF Analyze, LocalInv
  <2>4. \A i \in DOMAIN Append(r, b) :
           \/ i \in DOMAIN r /\ Append(r, b)[i] = r[i]
           \/ i = Len(Append(r, b)) /\ Append(r, b)[i] = b
    BY <2>1
  <2>5. \A i \in DOMAIN session'.results :
           session'.results[i] = "local" => i = Len(session'.results) /\ b = "local"
    BY <2>2, <2>3, <2>4 DEF NoLocal
  <2>6. b = "local" => session'.status = "COMPLETED" /\ pc' = "save"
    <3>1. SUFFICES ASSUME b = "local"
                   PROVE  session'.status = "COMPLETED" /\ pc' = "save"
      OBVIOUS
    <3>2. analyze(b) = "COMPLETE" /\ is_acceptable(b)
      BY <3>1 DEF analyze, is_acceptable
    <3>3. /\ session' = [session EXCEPT !.status = "COMPLETED",
                                        !.results = Append(@, answer[2])]
          /\ pc' = "save"
      BY <1>7, <3>2 DEF Analyze
    <3>4. QED  BY <3>3 DEF StepInv, TypeOK, Sessions
  <2>7. stored' = stored  BY <1>7 DEF Analyze
  <2>8. QED  BY <2>5, <2>6, <2>7 DEF LocalInv, NoLocal
<1>8. CASE Save
  BY <1>1, <1>8 DEF Save, LocalInv, NoLocal
<1>9. CASE UNCHANGED vars  BY <1>9 DEF vars, loopVars, LocalInv, NoLocal
<1>10. QED
  BY <1>2, <1>3, <1>4, <1>5, <1>6, <1>7, <1>8, <1>9 DEF Next

\* A local answer ends its session (ResponseAnalyzer and CompletionPolicy accept it
\* always, and process erases the session), however many requests the session had.
THEOREM LocalEnds == Spec => []LocalIsLast
<1>1. Init => LocalInv  BY DEF Init, LocalInv, NoLocal, NewSession
<1>2. LocalInv => LocalIsLast  BY DEF LocalInv, LocalIsLast, NoLocal
<1>3. QED  BY <1>1, <1>2, InitStep, NextStep, LocalStep, PTL DEF Spec

\* FailureIsLastAnswer with the steps that come before the session is saved.
FailureInv ==
    /\ FailureIsLastAnswer
    /\ pc \in {"dispatch", "infer", "recover", "analyze"} => session.status # "FAILED"
    /\ stored # NoSession => stored.status # "FAILED"

LEMMA FailureStep == StepInv /\ FailureInv /\ [Next]_vars => FailureInv'
<1> SUFFICES ASSUME StepInv, FailureInv, [Next]_vars PROVE FailureInv'  OBVIOUS
<1> USE DEF FailureInv, FailureIsLastAnswer, Done
<1>1. CASE Refuse  BY <1>1 DEF Refuse, loopVars
<1>2. CASE \E asked \in Models \cup {NoModel}, task \in Tasks \cup {"general"},
              heavy, pressure \in BOOLEAN : Receive(asked, task, heavy, pressure)
  <2>1. PICK asked, task, heavy, pressure : Receive(asked, task, heavy, pressure)
    BY <1>2
  <2> DEFINE s == IF stored = NoSession THEN NewSession ELSE stored
  <2>2. s \in Sessions /\ s.status # "FAILED"
    BY DEF NewSession, Sessions, StepInv, TypeOK
  <2>3. PICK t : session' = [s EXCEPT !.status = "INFERRING", !.task = t]
    BY <2>1 DEF Receive
  <2>4. stored' = s \/ stored' = [s EXCEPT !.status = "CONTINUING"]
    BY <2>1 DEF Receive
  <2>5. pc' = "dispatch"  BY <2>1 DEF Receive
  <2> HIDE DEF s
  <2>6. session'.status = "INFERRING" /\ stored'.status # "FAILED"
    BY <2>2, <2>3, <2>4 DEF Sessions
  <2>7. QED  BY <2>5, <2>6
<1>3. CASE Dispatch
  BY <1>3 DEF Dispatch, loopVars, StepInv, TypeOK, Sessions
<1>4. CASE Attempt  BY <1>4 DEF Attempt
<1>5. CASE Recover
  <2>1. answer[1] # 200 /\ answer' = answer /\ stored' = stored
    BY <1>5 DEF Recover, StepInv
  <2>2. CASE pc' = "infer"
    BY <1>5, <2>1, <2>2 DEF Recover
  <2>3. CASE pc' # "infer"
    <3>1. /\ res' = answer[1] /\ pc' = "save" /\ retry' = retry
          /\ recovery' = "FAIL_SESSION" \/ retry + 1 = MaxRetries
      BY <1>5, <2>3 DEF Recover, GivesUp
    <3>2. retry + 1 = MaxRetries => retry = MaxRetries - 1
      BY DEF StepInv, TypeOK, MaxRetries
    <3>3. QED  BY <2>1, <3>1, <3>2
  <2>4. QED  BY <2>2, <2>3
<1>6. CASE Analyze
  <2>1. session.status # "FAILED"  BY <1>6 DEF Analyze
  <2>2. session'.status # "FAILED"
    BY <1>6, <2>1, AnalyzeGrows DEF StepInv, TypeOK, Sessions
  <2>3. stored' = stored  BY <1>6 DEF Analyze
  <2>4. QED  BY <2>2, <2>3
<1>7. CASE Save  BY <1>7 DEF Save, NewSession
<1>8. CASE UNCHANGED vars  BY <1>8 DEF vars, loopVars
<1>9. QED  BY <1>1, <1>2, <1>3, <1>4, <1>5, <1>6, <1>7, <1>8 DEF Next

\* A failed request reports the status of its last attempt, and gave up for a reason
\* RecoveryPolicy or the retry loop names.
THEOREM FailuresExplained == Spec => []FailureIsLastAnswer
<1>1. Init => FailureInv
  BY DEF Init, FailureInv, FailureIsLastAnswer, Done
<1>2. FailureInv => FailureIsLastAnswer  BY DEF FailureInv
<1>3. QED  BY <1>1, <1>2, InitStep, NextStep, FailureStep, PTL DEF Spec

\* An output that neither calls a tool nor ends the turn loop.
Spent(b) == analyze(b) \in {"MODEL_CONTINUE", "INVALID"} \/ ~is_acceptable(b)

\* The last n results of r are such outputs.
EndsSpent(r, n) == Len(r) >= n /\ \A i \in Len(r) - n + 1..Len(r) : Spent(r[i])

Unfinished(r) ==
    \/ r # << >> /\ analyze(r[Len(r)]) = "TOOL_CALL"
    \/ EndsSpent(r, MaxTurns)

\* While a request runs, the turn it is in counts the outputs at the end of its
\* results that led nowhere; what is saved without being erased is unfinished.
KeptInv ==
    /\ pc \in {"infer", "recover", "analyze"} => EndsSpent(session.results, turn)
    /\ pc = "save" /\ session.status \notin {"COMPLETED", "FAILED"} =>
          Unfinished(session.results)
    /\ pc = "idle" /\ stored # NoSession => Unfinished(stored.results)

\* One more output that led nowhere.
LEMMA EndsGrow ==
    ASSUME NEW r \in Seq(AllBodies), NEW b \in AllBodies, NEW n \in Nat,
           EndsSpent(r, n), Spent(b)
    PROVE  EndsSpent(Append(r, b), n + 1)
<1>1. Len(Append(r, b)) = Len(r) + 1 /\ Len(r) \in Nat  OBVIOUS
<1>2. \A i \in 1..Len(r) : Append(r, b)[i] = r[i]  OBVIOUS
<1>3. Append(r, b)[Len(r) + 1] = b  OBVIOUS
<1>4. ASSUME NEW i \in Len(r) + 1 - (n + 1) + 1..Len(r) + 1
      PROVE  Spent(Append(r, b)[i])
  <2>1. CASE i = Len(r) + 1  BY <1>3, <2>1
  <2>2. CASE i # Len(r) + 1
    <3>1. i \in Len(r) - n + 1..Len(r) /\ i \in 1..Len(r)
      BY <1>1, <2>2 DEF EndsSpent
    <3>2. QED  BY <1>2, <3>1 DEF EndsSpent
  <2>3. QED  BY <2>1, <2>2
<1>5. QED  BY <1>1, <1>4 DEF EndsSpent

LEMMA KeptStep == StepInv /\ KeptInv /\ [Next]_vars => KeptInv'
<1> SUFFICES ASSUME StepInv, KeptInv, [Next]_vars PROVE KeptInv'  OBVIOUS
<1>1. CASE Refuse  BY <1>1 DEF Refuse, loopVars, KeptInv
<1>2. CASE \E asked \in Models \cup {NoModel}, task \in Tasks \cup {"general"},
              heavy, pressure \in BOOLEAN : Receive(asked, task, heavy, pressure)
  <2>1. pc' = "dispatch"  BY <1>2 DEF Receive
  <2>2. QED  BY <2>1 DEF KeptInv
<1>3. CASE Dispatch
  <2>1. turn = 0 /\ turn' = 0  BY <1>3 DEF Dispatch, loopVars, StepInv
  <2>2. \/ pc' = "infer"
        \/ pc' = "save" /\ session'.status = "COMPLETED"
    BY <1>3 DEF Dispatch, StepInv, TypeOK, Sessions
  <2>3. session'.results \in Seq(AllBodies)
    BY <1>3 DEF Dispatch, StepInv, TypeOK, Sessions
  <2>4. EndsSpent(session'.results, 0)  BY <2>3 DEF EndsSpent
  <2>5. QED  BY <2>1, <2>2, <2>4 DEF KeptInv
<1>4. CASE Attempt
  <2>1. pc = "infer" /\ pc' \in {"analyze", "recover"} /\ UNCHANGED <<session, turn>>
    BY <1>4 DEF Attempt
  <2>2. QED  BY <2>1 DEF KeptInv
<1>5. CASE Recover
  <2>1. pc = "recover" /\ turn' = turn  BY <1>5 DEF Recover
  <2>2. \/ pc' = "infer" /\ session' = session
        \/ pc' = "save" /\ session'.status = "FAILED"
    BY <1>5 DEF Recover, StepInv, TypeOK, Sessions
  <2>3. QED  BY <2>1, <2>2 DEF KeptInv
<1>6. CASE Analyze
  <2> DEFINE r == session.results
             b == answer[2]
  <2>1. r \in Seq(AllBodies) /\ b \in AllBodies /\ turn \in 0..MaxTurns - 1
    BY <1>6, OkBody DEF Analyze, StepInv, TypeOK, Sessions
  <2>2. session'.results = Append(r, b)
    <3>1. session \in Sessions  BY DEF StepInv, TypeOK
    <3>2. PICK st : session' = [session EXCEPT !.status = st,
                                               !.results = Append(@, b)]
      BY AnalyzeGrows, <1>6
    <3>3. QED  BY <3>1, <3>2 DEF Sessions
  <2>3. EndsSpent(r, turn)  BY <1>6 DEF Analyze, KeptInv
  <2>4. CASE analyze(b) = "TOOL_CALL"
    <3>1. pc' = "save"  BY <1>6, <2>4 DEF Analyze
    <3>2. Append(r, b) # << >> /\ Append(r, b)[Len(Append(r, b))] = b  BY <2>1
    <3>3. QED  BY <2>2, <2>4, <3>1, <3>2 DEF KeptInv, Unfinished
  <2>5. CASE analyze(b) \in {"COMPLETE", "MODEL_ERROR"} /\ is_acceptable(b)
    <3>1. /\ session' = [session EXCEPT !.status = "COMPLETED",
                                        !.results = Append(@, answer[2])]
          /\ pc' = "save"
      BY <1>6, <2>5 DEF Analyze
    <3>2. session'.status = "COMPLETED"  BY <3>1 DEF StepInv, TypeOK, Sessions
    <3>3. QED  BY <3>1, <3>2 DEF KeptInv
  <2>6. CASE \/ analyze(b) \in {"INVALID", "MODEL_CONTINUE"}
             \/ analyze(b) \in {"COMPLETE", "MODEL_ERROR"} /\ ~is_acceptable(b)
    <3>1. NextTurn  BY <1>6, <2>6 DEF Analyze
    <3>2. Spent(b)  BY <2>6 DEF Spent
    <3>3. turn \in Nat  BY <2>1 DEF MaxTurns
    <3>4. EndsSpent(session'.results, turn + 1)
      BY <2>1, <2>2, <2>3, <3>2, <3>3, EndsGrow
    <3>5. CASE turn + 1 < MaxTurns
      <4>1. turn' = turn + 1 /\ pc' = "infer"  BY <3>1, <3>5 DEF NextTurn
      <4>2. QED  BY <3>4, <4>1 DEF KeptInv
    <3>6. CASE ~(turn + 1 < MaxTurns)
      <4>1. pc' = "save"  BY <3>1, <3>6 DEF NextTurn
      <4>2. turn + 1 = MaxTurns  BY <2>1, <3>6 DEF MaxTurns
      <4>3. QED  BY <3>4, <4>1, <4>2 DEF KeptInv, Unfinished
    <3>7. QED  BY <3>5, <3>6
  <2>7. QED  BY <2>4, <2>5, <2>6, AnalyzeType
<1>7. CASE Save
  <2>1. pc = "save" /\ pc' = "idle"  BY <1>7 DEF Save
  <2>2. \/ stored' = NoSession
        \/ stored' = session /\ session.status \notin {"COMPLETED", "FAILED"}
    BY <1>7 DEF Save
  <2>3. QED  BY <2>1, <2>2 DEF KeptInv
<1>8. CASE UNCHANGED vars  BY <1>8 DEF vars, loopVars, KeptInv
<1>9. QED  BY <1>1, <1>2, <1>3, <1>4, <1>5, <1>6, <1>7, <1>8 DEF Next

\* A session is kept only while it waits for the client's tool, or after three turns
\* in a row whose outputs could neither be accepted nor acted on, however many
\* requests it has seen (DenseLiteEngine.cpp:92-107, 301-352).
THEOREM KeptCorrect == Spec => []KeptIsUnfinished
<1>1. Init => KeptInv  BY DEF Init, KeptInv
<1>2. KeptInv => KeptIsUnfinished
  BY DEF KeptInv, KeptIsUnfinished, Unfinished, EndsSpent, Spent
<1>3. QED  BY <1>1, <1>2, InitStep, NextStep, KeptStep, PTL DEF Spec

-----------------------------------------------------------------------------
(***************************************************************************)
(* EngineSession: process run by several workers at once, each with its    *)
(* own copy of a session.  Its proofs hold for any number of workers,      *)
(* sessions and tools and a registry of any size.                          *)
(***************************************************************************)
\* A std::map with keys in K and values in V.
Map(f, K, V) == DOMAIN f \subseteq K /\ f \in [DOMAIN f -> V]

LEMMA PutMap ==
    ASSUME NEW K, NEW V, NEW f, Map(f, K, V), NEW k \in K, NEW v \in V
    PROVE  /\ Map(Put(f, k, v), K, V)
           /\ DOMAIN Put(f, k, v) = DOMAIN f \cup {k}
           /\ Put(f, k, v)[k] = v
           /\ \A x \in DOMAIN f : x # k => Put(f, k, v)[x] = f[x]
BY DEF Map, Put

LEMMA EraseMap ==
    ASSUME NEW K, NEW V, NEW f, Map(f, K, V), NEW k
    PROVE  /\ Map(Erase(f, k), K, V)
           /\ DOMAIN Erase(f, k) = DOMAIN f \ {k}
           /\ \A x \in DOMAIN f \ {k} : Erase(f, k)[x] = f[x]
BY DEF Map, Erase

\* A set of natural numbers has a least member.
LEMMA LeastOf ==
    ASSUME NEW T \in SUBSET Nat, T # {}
    PROVE  \E x \in T : \A y \in T : x <= y
<1>1. PICK x \in T : \A y \in T : ~ (<<y, x>> \in OpToRel(<, Nat))
  BY NatLessThanWellFounded, WFMin
<1>2. \A y \in T : ~(y < x)  BY <1>1 DEF OpToRel
<1>3. QED  BY <1>2

RegistryInv ==
    /\ DOMAIN stamps = DOMAIN catalogs
    /\ IsFiniteSet(DOMAIN catalogs)
    /\ Cardinality(DOMAIN catalogs) <= MaxSessions

\* TypeOK in terms of Map, for the maps.
LEMMA Maps ==
    ASSUME EngineTypeOK
    PROVE  /\ Map(active, SessionIds, SessionRecords)
           /\ Map(catalogs, SessionIds, SUBSET Tools)
           /\ Map(stamps, SessionIds, 0..MaxClock)
BY DEF EngineTypeOK, Map

\* evict_oldest_locked finds a session whose catalog it takes out.
LEMMA OldestFound ==
    ASSUME EngineTypeOK, DOMAIN stamps = DOMAIN catalogs,
           DOMAIN catalogs # {}
    PROVE  Oldest \in DOMAIN catalogs
<1> DEFINE D == DOMAIN stamps
           V == {stamps[t] : t \in D}
<1>1. D \subseteq Nat /\ V \subseteq Nat /\ D # {} /\ V # {}
  BY SizesAssumption DEF EngineTypeOK
<1>2. PICK v \in V : \A u \in V : v <= u  BY <1>1, LeastOf
<1> DEFINE F == {t \in D : stamps[t] = v}
<1>3. F \subseteq Nat /\ F # {}  BY <1>1
<1>4. PICK s \in F : \A t \in F : s <= t  BY <1>3, LeastOf
<1>5. ASSUME NEW t \in D
      PROVE  stamps[s] < stamps[t] \/ (stamps[s] = stamps[t] /\ s <= t)
  <2>1. stamps[s] = v /\ stamps[t] \in V /\ v <= stamps[t]  BY <1>2
  <2>2. CASE stamps[t] = v  BY <2>1, <2>2, <1>4
  <2>3. CASE stamps[t] # v  BY <2>1, <2>3, <1>1
  <2>4. QED  BY <2>2, <2>3
<1>6. QED  BY <1>1, <1>4, <1>5 DEF Oldest

\* register_tools keeps the registry within its size and its two maps together.
LEMMA Registration ==
    ASSUME EngineTypeOK, RegistryInv, NEW s \in SessionIds,
           NEW tools \in SUBSET (Tools \cup {NoName}), register_tools(s, tools)
    PROVE  /\ Map(catalogs', SessionIds, SUBSET Tools)
           /\ Map(stamps', SessionIds, 0..MaxClock)
           /\ RegistryInv'
           /\ DOMAIN catalogs' \subseteq DOMAIN catalogs \cup {s}
<1> DEFINE full == Cardinality(DOMAIN catalogs) >= MaxSessions /\ s \notin DOMAIN catalogs
           cat == IF full THEN Erase(catalogs, Oldest) ELSE catalogs
           sta == IF full THEN Erase(stamps, Oldest) ELSE stamps
           names == (IF s \in DOMAIN cat THEN cat[s] ELSE {}) \cup (tools \ {NoName})
<1>1. Map(cat, SessionIds, SUBSET Tools) /\ Map(sta, SessionIds, 0..MaxClock)
  BY Maps, EraseMap
<1>2. DOMAIN sta = DOMAIN cat /\ DOMAIN cat \subseteq DOMAIN catalogs
  BY DEF RegistryInv, Erase
<1>3. names \in SUBSET Tools  BY <1>1 DEF Map
<1>4. clock \in 0..MaxClock  BY DEF EngineTypeOK
<1>5. catalogs' = Put(cat, s, names) /\ stamps' = Put(sta, s, clock)
  BY DEF register_tools
<1>6. IsFiniteSet(DOMAIN cat) /\ Cardinality(DOMAIN cat) \in Nat
      /\ (s \in DOMAIN cat \/ Cardinality(DOMAIN cat) < MaxSessions)
      /\ Cardinality(DOMAIN cat) <= MaxSessions
  <2>1. Cardinality(DOMAIN catalogs) \in Nat /\ MaxSessions \in Nat \ {0}
    BY FS_CardinalityType, SizesAssumption DEF RegistryInv
  <2>2. CASE full
    <3>1. DOMAIN catalogs # {}  BY <2>1, <2>2, FS_EmptySet
    <3>2. Oldest \in DOMAIN catalogs  BY <3>1, OldestFound DEF RegistryInv
    <3>3. DOMAIN cat = DOMAIN catalogs \ {Oldest}  BY <2>2 DEF Erase
    <3>4. IsFiniteSet(DOMAIN cat)
          /\ Cardinality(DOMAIN cat) = Cardinality(DOMAIN catalogs) - 1
      BY <3>2, <3>3, FS_RemoveElement DEF RegistryInv
    <3>5. Cardinality(DOMAIN cat) \in Nat  BY <3>4, FS_CardinalityType
    <3>6. QED  BY <2>1, <3>4, <3>5 DEF RegistryInv
  <2>3. CASE ~full
    <3>1. cat = catalogs  BY <2>3
    <3>2. QED  BY <2>1, <2>3, <3>1 DEF RegistryInv
  <2>4. QED  BY <2>2, <2>3
<1> HIDE DEF cat, sta, names
<1>7. /\ DOMAIN catalogs' = DOMAIN cat \cup {s} /\ DOMAIN stamps' = DOMAIN sta \cup {s}
      /\ Map(catalogs', SessionIds, SUBSET Tools) /\ Map(stamps', SessionIds, 0..MaxClock)
  <2>1. /\ DOMAIN catalogs' = DOMAIN cat \cup {s}
        /\ DOMAIN stamps' = DOMAIN sta \cup {s}
    BY <1>5 DEF Put
  <2>2. Map(Put(cat, s, names), SessionIds, SUBSET Tools)  BY <1>1, <1>3, PutMap
  <2>3. Map(Put(sta, s, clock), SessionIds, 0..MaxClock)  BY <1>1, <1>4, PutMap
  <2>4. QED  BY <1>5, <2>1, <2>2, <2>3
<1>8. RegistryInv'
  <2>1. IsFiniteSet(DOMAIN catalogs') /\ Cardinality(DOMAIN catalogs')
            = IF s \in DOMAIN cat THEN Cardinality(DOMAIN cat)
              ELSE Cardinality(DOMAIN cat) + 1
    BY <1>6, <1>7, FS_AddElement
  <2>2. Cardinality(DOMAIN catalogs') <= MaxSessions
    BY <2>1, <1>6, SizesAssumption
  <2>3. QED  BY <1>2, <1>7, <2>1, <2>2 DEF RegistryInv
<1>9. QED  BY <1>2, <1>7, <1>8

-----------------------------------------------------------------------------
\* A client that waits has one request in flight, whose copy has every result that
\* is stored.
WaitingInv ==
    \A s \in SessionIds \ Overlap : \A w \in InFlight(s) :
        /\ \A x \in InFlight(s) : x = w
        /\ s \in DOMAIN active => active[s].results \subseteq copy[w].results

EngineInv == EngineTypeOK /\ RegistryInv /\ CatalogHasSession /\ WaitingInv

LEMMA NoRequestType == NoRequest \in Requests /\ FreshSession \in SessionRecords
<1>1. NoQuery \in QueryRecords  BY DEF NoQuery, QueryRecords
<1>2. (CHOOSE s \in SessionIds : TRUE) \in SessionIds  BY SizesAssumption
<1>3. QED
  BY <1>1, <1>2
  DEF NoRequest, FreshSession, Requests, SessionRecords, Statuses

LEMMA EngineStart == EngineInit => EngineInv
<1> SUFFICES ASSUME EngineInit PROVE EngineInv  OBVIOUS
<1>1. DOMAIN active = {} /\ DOMAIN catalogs = {} /\ DOMAIN stamps = {}
  BY DEF EngineInit
<1>2. EngineTypeOK
  BY <1>1, NoRequestType, SizesAssumption DEF EngineInit, EngineTypeOK
<1>3. RegistryInv  BY <1>1, FS_EmptySet, SizesAssumption DEF RegistryInv
<1>4. CatalogHasSession  BY <1>1 DEF CatalogHasSession
<1>5. WaitingInv  BY <1>1 DEF EngineInit, WaitingInv, InFlight
<1>6. QED  BY <1>2, <1>3, <1>4, <1>5 DEF EngineInv

\* Steps between Receive and Finish leave the sessions alone.
LEMMA StaysInFlight ==
    ASSUME EngineTypeOK, NEW w \in Workers, at[w] # "idle", NEW l, l # "idle", Goto(w, l),
           \A x \in Workers : req'[x].id = req[x].id, NEW s
    PROVE  InFlight(s)' = InFlight(s)
BY DEF InFlight, Goto, EngineTypeOK

LEMMA EngineReceiveStep ==
    ASSUME EngineInv, NEW w \in Workers, NEW s \in SessionIds,
           NEW q \in Queries,
           TakeSession(w, s, q)
    PROVE  EngineInv' /\ KeepsResults(SessionIds)
<1> DEFINE c == IF s \in DOMAIN active
                THEN [active[s] EXCEPT !.status = "CONTINUING"] ELSE FreshSession
<1> USE DEF EngineInv
<1>1. c \in SessionRecords
  BY NoRequestType DEF EngineTypeOK, SessionRecords, Statuses
<1>2. /\ active' = Put(active, s, c)
      /\ copy' = [copy EXCEPT ![w] = [c EXCEPT !.status = "INFERRING"]]
      /\ req' = [req EXCEPT ![w] = [id |-> s, query |-> q]]
      /\ at' = [at EXCEPT ![w] = "register"]
      /\ UNCHANGED <<catalogs, stamps, clock, shown>>
  BY DEF TakeSession, Goto, registryVars
<1>3. [c EXCEPT !.status = "INFERRING"] \in SessionRecords
      /\ [c EXCEPT !.status = "INFERRING"].results = c.results
  BY <1>1 DEF SessionRecords, Statuses
<1>4. s \in DOMAIN active => c.results = active[s].results
  BY DEF EngineTypeOK, SessionRecords
<1> HIDE DEF c
<1>5. /\ Map(active', SessionIds, SessionRecords)
      /\ DOMAIN active' = DOMAIN active \cup {s}
      /\ active'[s] = c
      /\ \A x \in DOMAIN active : x # s => active'[x] = active[x]
  <2>1. Map(active, SessionIds, SessionRecords)  BY Maps
  <2>2. Map(Put(active, s, c), SessionIds, SessionRecords)  BY <1>1, <2>1, PutMap
  <2>3. QED  BY <1>2, <2>2 DEF Put
<1>6. EngineTypeOK'
  <2>1. [id |-> s, query |-> q] \in Requests
    BY QueriesAssumption DEF Requests
  <2>2. req' \in [Workers -> Requests] /\ copy' \in [Workers -> SessionRecords]
    BY <1>2, <1>3, <2>1 DEF EngineTypeOK
  <2>3. QED  BY <1>2, <1>5, <2>2 DEF EngineTypeOK, Map
<1>7. RegistryInv'  BY <1>2 DEF RegistryInv
<1>8. \A t : InFlight(t)' = IF t = s THEN InFlight(t) \cup {w} ELSE InFlight(t)
  <2>1. at[w] = "idle"  BY DEF TakeSession
  <2>2. req'[w].id = s /\ at'[w] = "register"  BY <1>2 DEF EngineTypeOK
  <2>3. \A x \in Workers \ {w} : at'[x] = at[x] /\ req'[x] = req[x]
    BY <1>2 DEF EngineTypeOK
  <2>4. QED  BY <2>1, <2>2, <2>3 DEF InFlight
<1>9. CatalogHasSession'  BY <1>2, <1>5, <1>8 DEF CatalogHasSession
<1>10. WaitingInv'
  <2> SUFFICES ASSUME NEW t \in SessionIds \ Overlap, NEW x \in InFlight(t)'
               PROVE  /\ \A y \in InFlight(t)' : y = x
                      /\ t \in DOMAIN active' => active'[t].results \subseteq copy'[x].results
    BY DEF WaitingInv
  <2>1. CASE t = s
    <3>1. InFlight(s) = {}  BY <2>1 DEF TakeSession
    <3>2. InFlight(t)' = {w}  BY <2>1, <3>1, <1>8
    <3>3. copy'[w].results = c.results  BY <1>2, <1>3 DEF EngineTypeOK
    <3>4. QED  BY <2>1, <3>2, <3>3, <1>5
  <2>2. CASE t # s
    <3>1. x \in InFlight(t) /\ InFlight(t)' = InFlight(t)  BY <2>2, <1>8
    <3>2. x # w /\ x \in Workers  BY <3>1 DEF InFlight, TakeSession
    <3>3. copy'[x] = copy[x]  BY <3>2, <1>2 DEF EngineTypeOK
    <3>4. QED  BY <2>2, <3>1, <3>3, <1>5 DEF WaitingInv
  <2>3. QED  BY <2>1, <2>2
<1>11. KeepsResults(SessionIds)  BY <1>4, <1>5 DEF KeepsResults
<1>12. QED  BY <1>6, <1>7, <1>9, <1>10, <1>11

\* The steps in between: active is left alone, and copies only gain results.
LEMMA BetweenStep ==
    ASSUME EngineInv, NEW w \in Workers, NEW l, l # "idle", at[w] # "idle", Goto(w, l),
           EngineTypeOK', RegistryInv', UNCHANGED active,
           DOMAIN catalogs' \subseteq DOMAIN catalogs \cup {req[w].id},
           \A x \in Workers : /\ req'[x].id = req[x].id
                             /\ copy[x].results \subseteq copy'[x].results
    PROVE  EngineInv'
<1> USE DEF EngineInv
<1>1. \A t : InFlight(t)' = InFlight(t)  BY StaysInFlight
<1>2. w \in InFlight(req[w].id)  BY DEF InFlight
<1>3. CatalogHasSession'  BY <1>1, <1>2 DEF CatalogHasSession
<1>4. \A t : InFlight(t) \subseteq Workers  BY DEF InFlight
<1>5. WaitingInv'  BY <1>1, <1>4 DEF WaitingInv
<1>6. QED  BY <1>3, <1>5

LEMMA RegisterStep ==
    ASSUME EngineInv, NEW w \in Workers, Register(w)
    PROVE  EngineInv'
<1> USE DEF EngineInv
<1> DEFINE s == req[w].id
           q == req[w].query
           l == IF q.wants /\ q.tools = {} THEN "has_tools" ELSE "run"
<1>1. s \in SessionIds /\ q \in QueryRecords /\ q.tools \in SUBSET (Tools \cup {NoName})
  BY DEF EngineTypeOK, Requests, QueryRecords
<1>2. /\ Map(catalogs', SessionIds, SUBSET Tools) /\ Map(stamps', SessionIds, 0..MaxClock)
      /\ RegistryInv' /\ DOMAIN catalogs' \subseteq DOMAIN catalogs \cup {s}
  <2>1. CASE q.tools # {}  BY <2>1, <1>1, Registration DEF Register
  <2>2. CASE q.tools = {}
    <3>1. UNCHANGED <<catalogs, stamps>>  BY <2>2 DEF Register, registryVars
    <3>2. QED  BY <3>1, Maps DEF RegistryInv
  <2>3. QED  BY <2>1, <2>2
<1>3. req' \in [Workers -> Requests] /\ \A x \in Workers : req'[x].id = req[x].id
  <2>1. PICK tools \in {{}, q.tools} : req' = [req EXCEPT ![w].query.tools = tools]
    BY DEF Register
  <2>2. tools \in SUBSET (Tools \cup {NoName})  BY <1>1, <2>1
  <2>3. QED  BY <2>1, <2>2 DEF EngineTypeOK, Requests, QueryRecords
<1>4. shown' \subseteq SessionIds  BY <1>1 DEF Register, EngineTypeOK
<1>5. Goto(w, l) /\ at[w] = "register" /\ UNCHANGED <<active, clock, copy>>
  BY DEF Register
<1>6. EngineTypeOK'  BY <1>2, <1>3, <1>4, <1>5 DEF EngineTypeOK, Map, Goto
<1>7. l # "idle"  OBVIOUS
<1> HIDE DEF l
<1>8. QED  BY <1>2, <1>3, <1>5, <1>6, <1>7, BetweenStep

\* has_tools and get_all_tools only stamp sessions that have a catalog.
LEMMA TouchStep ==
    ASSUME EngineInv, NEW s \in SessionIds, touch(s), UNCHANGED catalogs
    PROVE  Map(stamps', SessionIds, 0..MaxClock) /\ RegistryInv'
<1>1. clock \in 0..MaxClock  BY DEF EngineInv, EngineTypeOK
<1>2. CASE s \in DOMAIN catalogs
  <2>1. stamps' = Put(stamps, s, clock)  BY <1>2 DEF touch
  <2>2. Map(Put(stamps, s, clock), SessionIds, 0..MaxClock)
    BY <1>1, Maps, PutMap DEF EngineInv
  <2>3. DOMAIN stamps' = DOMAIN stamps \cup {s}  BY <2>1 DEF Put
  <2>4. QED  BY <1>2, <2>1, <2>2, <2>3 DEF EngineInv, RegistryInv
<1>3. CASE s \notin DOMAIN catalogs
  BY <1>3, Maps DEF EngineInv, RegistryInv, touch
<1>4. QED  BY <1>2, <1>3

LEMMA HasToolsStep ==
    ASSUME EngineInv, NEW w \in Workers, HasTools(w)
    PROVE  EngineInv'
<1> USE DEF EngineInv
<1>1. req[w].id \in SessionIds  BY DEF EngineTypeOK, Requests
<1>2. UNCHANGED <<active, catalogs, clock, shown, req, copy>> /\ at[w] # "idle"
  BY DEF HasTools
<1>3. PICK l \in {"restore", "run"} : Goto(w, l)  BY DEF HasTools
<1>4. Map(stamps', SessionIds, 0..MaxClock) /\ RegistryInv'
  <2>1. CASE has_tools(req[w].id)  BY <1>1, <1>2, <2>1, TouchStep DEF HasTools
  <2>2. CASE ~has_tools(req[w].id)
    <3>1. UNCHANGED stamps  BY <2>2 DEF HasTools
    <3>2. QED  BY <3>1, <1>2, Maps DEF RegistryInv
  <2>3. QED  BY <2>1, <2>2
<1>5. EngineTypeOK'  BY <1>2, <1>3, <1>4 DEF EngineTypeOK, Map, Goto
<1>6. QED  BY <1>2, <1>3, <1>4, <1>5, BetweenStep

LEMMA RestoreStep ==
    ASSUME EngineInv, NEW w \in Workers, Restore(w)
    PROVE  EngineInv'
<1> USE DEF EngineInv
<1> DEFINE s == req[w].id
           tools == IF s \in DOMAIN catalogs THEN catalogs[s] ELSE {}
<1>1. s \in SessionIds  BY DEF EngineTypeOK, Requests
<1>2. UNCHANGED <<active, catalogs, clock, shown, copy>> /\ at[w] # "idle"
      /\ Goto(w, "run")
  BY DEF Restore
<1>3. Map(stamps', SessionIds, 0..MaxClock) /\ RegistryInv'
  BY <1>1, <1>2, TouchStep DEF Restore
<1>4. req' \in [Workers -> Requests] /\ \A x \in Workers : req'[x].id = req[x].id
  <2>1. tools \in SUBSET (Tools \cup {NoName})  BY DEF EngineTypeOK
  <2>2. req' = [req EXCEPT ![w].query.tools = tools]  BY DEF Restore
  <2> HIDE DEF tools
  <2>3. QED  BY <2>1, <2>2 DEF EngineTypeOK, Requests, QueryRecords
<1>5. EngineTypeOK'  BY <1>2, <1>3, <1>4 DEF EngineTypeOK, Map, Goto
<1>6. QED  BY <1>2, <1>3, <1>4, <1>5, BetweenStep

LEMMA RunStep ==
    ASSUME EngineInv, NEW w \in Workers, Run(w)
    PROVE  EngineInv'
<1> USE DEF EngineInv
<1>1. UNCHANGED <<active, catalogs, stamps, clock, shown>> /\ at[w] # "idle"
      /\ Goto(w, "finish")
  BY DEF Run, registryVars
<1>2. req' \in [Workers -> Requests] /\ \A x \in Workers : req'[x].id = req[x].id
  <2>1. NoQuery \in QueryRecords  BY DEF NoQuery, QueryRecords
  <2>2. req' = [req EXCEPT ![w].query = NoQuery]  BY DEF Run
  <2>3. QED  BY <2>1, <2>2 DEF EngineTypeOK, Requests
<1>3. /\ copy' \in [Workers -> SessionRecords]
      /\ \A x \in Workers : copy[x].results \subseteq copy'[x].results
  <2>1. PICK st \in Statuses, more \in BOOLEAN :
            copy' = [copy EXCEPT ![w].status = st,
                                 ![w].results = IF more THEN @ \cup {w} ELSE @]
    BY DEF Run
  <2> DEFINE R == IF more THEN copy[w].results \cup {w} ELSE copy[w].results
  <2>2. copy[w] \in SessionRecords /\ R \in SUBSET Workers
    BY DEF EngineTypeOK, SessionRecords
  <2>3. /\ copy' = [x \in Workers |-> IF x = w THEN copy'[w] ELSE copy[x]]
        /\ copy'[w] = [[copy[w] EXCEPT !.status = st] EXCEPT !.results = R]
    BY <2>1 DEF EngineTypeOK
  <2>4. copy'[w] \in SessionRecords /\ copy'[w].results = R
    BY <2>2, <2>3 DEF SessionRecords
  <2>5. QED  BY <2>3, <2>4 DEF EngineTypeOK
<1>4. EngineTypeOK'  BY <1>1, <1>2, <1>3 DEF EngineTypeOK, Goto
<1>5. RegistryInv'  BY <1>1 DEF RegistryInv
<1>6. QED  BY <1>1, <1>2, <1>3, <1>4, <1>5, BetweenStep

LEMMA FinishStep ==
    ASSUME EngineInv, NEW w \in Workers, Finish(w)
    PROVE  EngineInv' /\ KeepsResults(SessionIds \ Overlap)
<1> USE DEF EngineInv
<1> DEFINE s == req[w].id
<1>1. s \in SessionIds /\ copy[w] \in SessionRecords /\ w \in InFlight(s)
  BY DEF EngineTypeOK, Requests, Finish, InFlight
<1>2. /\ at' = [at EXCEPT ![w] = "idle"] /\ req' = [req EXCEPT ![w] = NoRequest]
      /\ copy' = [copy EXCEPT ![w] = FreshSession] /\ UNCHANGED <<clock, shown>>
  BY DEF Finish, Goto
<1>3. /\ at' \in [Workers -> {"idle", "register", "has_tools", "restore", "run", "finish"}]
      /\ req' \in [Workers -> Requests] /\ copy' \in [Workers -> SessionRecords]
  BY <1>2, NoRequestType DEF EngineTypeOK
<1>4. \A t : InFlight(t)' = InFlight(t) \ {w}
  <2>1. at'[w] = "idle"  BY <1>2 DEF EngineTypeOK
  <2>2. \A x \in Workers \ {w} : at'[x] = at[x] /\ req'[x] = req[x]
    BY <1>2 DEF EngineTypeOK
  <2>3. QED  BY <2>1, <2>2 DEF InFlight
<1>5. \A x \in Workers \ {w} : copy'[x] = copy[x]  BY <1>2 DEF EngineTypeOK
<1>6. \A t \in SessionIds : t # s => w \notin InFlight(t)  BY DEF InFlight
<1>7. Map(active, SessionIds, SessionRecords) /\ Map(catalogs, SessionIds, SUBSET Tools)
      /\ Map(stamps, SessionIds, 0..MaxClock)
  BY Maps
<1>8. ASSUME NEW A, Map(A, SessionIds, SessionRecords), active' = A,
             DOMAIN active \ {s} = DOMAIN A \ {s},
             \A t \in DOMAIN active \ {s} : A[t] = active[t],
             s \in DOMAIN A => A[s] = copy[w]
      PROVE  /\ WaitingInv'
             /\ KeepsResults(SessionIds \ Overlap)
  <2>1. ASSUME NEW t \in SessionIds \ Overlap, NEW x \in InFlight(t)'
        PROVE  /\ \A y \in InFlight(t)' : y = x
               /\ t \in DOMAIN active' => active'[t].results \subseteq copy'[x].results
    <3>1. x \in InFlight(t) /\ x # w /\ x \in Workers  BY <1>4 DEF InFlight
    <3>2. t # s  BY <1>1, <3>1 DEF WaitingInv
    <3>3. copy'[x] = copy[x]  BY <1>5, <3>1
    <3>4. QED  BY <1>4, <1>8, <3>1, <3>2, <3>3 DEF WaitingInv
  <2>2. KeepsResults(SessionIds \ Overlap)
    <3>1. s \in SessionIds \ Overlap /\ s \in DOMAIN active =>
              active[s].results \subseteq copy[w].results
      BY <1>1 DEF WaitingInv
    <3>2. QED  BY <1>8, <3>1 DEF KeepsResults
  <2>3. QED  BY <2>1, <2>2 DEF WaitingInv
<1>9. CASE copy[w].status \in {"COMPLETED", "FAILED"}
  <2>1. /\ active' = Erase(active, s)
        /\ catalogs' = Erase(catalogs, s) /\ stamps' = Erase(stamps, s)
    BY <1>9 DEF Finish, clear_session
  <2>2. /\ DOMAIN active' = DOMAIN active \ {s}
        /\ DOMAIN catalogs' = DOMAIN catalogs \ {s}
        /\ DOMAIN stamps' = DOMAIN stamps \ {s}
        /\ \A t \in DOMAIN active \ {s} : active'[t] = active[t]
    BY <2>1 DEF Erase
  <2>3. Map(active', SessionIds, SessionRecords)  BY <2>1, <1>7, EraseMap
  <2>4. Map(catalogs', SessionIds, SUBSET Tools)  BY <2>1, <1>7, EraseMap
  <2>5. Map(stamps', SessionIds, 0..MaxClock)  BY <2>1, <1>7, EraseMap
  <2>6. EngineTypeOK'  BY <1>2, <1>3, <2>3, <2>4, <2>5 DEF EngineTypeOK, Map
  <2>7. RegistryInv'
    <3>1. /\ IsFiniteSet(DOMAIN catalogs') /\ Cardinality(DOMAIN catalogs) \in Nat
          /\ Cardinality(DOMAIN catalogs') = IF s \in DOMAIN catalogs
                 THEN Cardinality(DOMAIN catalogs) - 1 ELSE Cardinality(DOMAIN catalogs)
      BY <2>2, FS_RemoveElement, FS_CardinalityType DEF RegistryInv
    <3>2. Cardinality(DOMAIN catalogs') <= MaxSessions
      BY <3>1, SizesAssumption DEF RegistryInv
    <3>3. QED  BY <2>2, <3>1, <3>2 DEF RegistryInv
  <2>8. CatalogHasSession'
    BY <1>4, <1>6, <1>7, <2>2 DEF CatalogHasSession, Map
  <2>9. WaitingInv' /\ KeepsResults(SessionIds \ Overlap)  BY <1>8, <2>2, <2>3
  <2>10. QED  BY <2>6, <2>7, <2>8, <2>9
<1>10. CASE copy[w].status \notin {"COMPLETED", "FAILED"}
  <2>1. active' = Put(active, s, copy[w]) /\ UNCHANGED <<catalogs, stamps>>
    BY <1>10 DEF Finish, registryVars
  <2>2. /\ DOMAIN active' = DOMAIN active \cup {s}
        /\ active'[s] = copy[w]
        /\ \A t \in DOMAIN active \ {s} : active'[t] = active[t]
    BY <2>1 DEF Put
  <2>3. Map(active', SessionIds, SessionRecords)  BY <2>1, <1>1, <1>7, PutMap
  <2>4. EngineTypeOK'  BY <1>2, <1>3, <2>1, <2>3 DEF EngineTypeOK, Map
  <2>5. RegistryInv'  BY <2>1 DEF RegistryInv
  <2>6. CatalogHasSession'
    BY <1>4, <1>6, <1>7, <2>1, <2>2 DEF CatalogHasSession, Map
  <2>7. WaitingInv' /\ KeepsResults(SessionIds \ Overlap)  BY <1>8, <2>2, <2>3
  <2>8. QED  BY <2>4, <2>5, <2>6, <2>7
<1>11. QED  BY <1>9, <1>10

\* Every step keeps the invariant, and the results of clients that wait.
LEMMA EngineStep ==
    ASSUME EngineInv, [EngineNext]_engineVars
    PROVE  EngineInv' /\ KeepsResults(SessionIds \ Overlap)
<1>1. ASSUME UNCHANGED active PROVE KeepsResults(SessionIds \ Overlap)
  BY <1>1 DEF KeepsResults
<1>2. CASE Tick
  <2>1. UNCHANGED <<active, catalogs, stamps, shown, at, req, copy>>
        /\ clock' \in 0..MaxClock
    BY <1>2, SizesAssumption DEF Tick, registryVars, EngineInv, EngineTypeOK
  <2>2. QED
    BY <2>1, <1>1 DEF EngineInv, EngineTypeOK, RegistryInv, CatalogHasSession,
       WaitingInv, InFlight
<1>3. ASSUME NEW w \in Workers, NEW s \in SessionIds, NEW q \in Queries,
             TakeSession(w, s, q)
      PROVE  EngineInv' /\ KeepsResults(SessionIds \ Overlap)
  BY <1>3, EngineReceiveStep DEF KeepsResults
<1>4. ASSUME NEW w \in Workers,
             Register(w) \/ HasTools(w) \/ Restore(w) \/ Run(w)
      PROVE  EngineInv' /\ KeepsResults(SessionIds \ Overlap)
  <2>1. UNCHANGED active  BY <1>4 DEF Register, HasTools, Restore, Run
  <2>2. EngineInv'  BY <1>4, RegisterStep, HasToolsStep, RestoreStep, RunStep
  <2>3. QED  BY <2>1, <2>2, <1>1
<1>5. ASSUME NEW w \in Workers, Finish(w)
      PROVE  EngineInv' /\ KeepsResults(SessionIds \ Overlap)
  BY <1>5, FinishStep
<1>6. CASE UNCHANGED engineVars
  BY <1>6, <1>1 DEF engineVars, registryVars, EngineInv, EngineTypeOK, RegistryInv,
     CatalogHasSession, WaitingInv, InFlight
<1>7. QED  BY <1>2, <1>3, <1>4, <1>5, <1>6 DEF EngineNext

\* EngineInv is an invariant of the engine, and every step keeps the results of
\* clients that wait.
LEMMA EngineInductive == EngineSpec => []EngineInv
<1>1. EngineInit => EngineInv  BY EngineStart
<1>2. EngineInv /\ [EngineNext]_engineVars => EngineInv'  BY EngineStep
<1>3. QED  BY <1>1, <1>2, PTL DEF EngineSpec

\* Every reachable state has its type, whatever the workers do.
THEOREM EngineTypeCorrect == EngineSpec => []EngineTypeOK
<1>1. EngineInv => EngineTypeOK  BY DEF EngineInv
<1>2. QED  BY EngineInductive, <1>1, PTL

\* The tool registry never holds more than max_sessions_ catalogs, and its two maps
\* have the same keys (SessionToolRegistry.cpp:15-55).
THEOREM RegistrySafe == EngineSpec => []RegistryConsistent
<1>1. EngineInv => RegistryConsistent
  BY DEF EngineInv, RegistryInv, RegistryConsistent
<1>2. QED  BY EngineInductive, <1>1, PTL

\* No catalog outlives its session, in any interleaving of overlapping requests
\* (DenseLiteEngine.cpp:105-111).
THEOREM CatalogsOwned == EngineSpec => []CatalogHasSession
<1>1. EngineInv => CatalogHasSession  BY DEF EngineInv
<1>2. QED  BY EngineInductive, <1>1, PTL

\* A client that waits for each answer never loses a stored result, whatever the
\* clients of other sessions do (DenseLiteEngine.cpp:97, 110).
THEOREM ResultsSafe == EngineSpec => ResultsAreKept
<1>1. EngineInv /\ [EngineNext]_engineVars => [KeepsResults(SessionIds \ Overlap)]_engineVars
  BY EngineStep
<1>2. QED  BY EngineInductive, <1>1, PTL DEF EngineSpec, ResultsAreKept
=============================================================================
