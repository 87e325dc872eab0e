--------------------------- MODULE RequestPipeline ---------------------------
(***************************************************************************)
(* One chat request after another of one session through DenseLiteEngine:  *)
(* process, execute_pipeline with its three internal turns of three        *)
(* attempts each, ModelEngine::infer, and the three policies that decide   *)
(* what comes next (RecoveryPolicy, ResponseAnalyzer, CompletionPolicy).   *)
(*                                                                         *)
(* Requests are served one at a time here.  A model's answer is a status   *)
(* and the kind of its body; text, tools and search hits are left out.     *)
(***************************************************************************)
EXTENDS Integers, Sequences

CONSTANTS
    CloudModels,    \* the models of the provider_models table
    LocalModels,    \* every other model name a request or a role may give
    NoModel,        \* the empty string
    Provider,       \* provider_models: the provider of a cloud model
    Openrouter,     \* the provider the engine switches to
    Cheapest,       \* its first text model, or NoModel
    Offload,        \* "openai/gpt-oss-20b"
    Role,           \* local_models' model of the roles coder and general
    Default,        \* the names used where a role has no model
    Alias,          \* the resident model called "general"
    Template,       \* the prompt format a local model was trained on
    NameTemplate,   \* the format guessed from a model's name
    Bodies,         \* bodies of the 200 answers of a cloud model
    Errors,         \* the other answers of a cloud model
    Tasks,          \* intents of the decision engine
    MaxResults,     \* bound: results of a session that still takes requests
    NoSession

MaxTurns == 3
MaxRetries == 3

Models == CloudModels \cup LocalModels
Templates == {"llama", "chatml"}
AllBodies == {"local", "stop", "length", "tool_calls", "calls", "gemini_stop",
    "max_tokens", "safety", "error", "broken", "broken_calls", "broken_error",
    "markup", "garbage", "text", "done", "empty"}
AllErrors == {<<400, "bad">>, <<400, "context">>, <<400, "unknown_model">>,
    <<401, "denied">>, <<404, "not_found">>, <<413, "large">>, <<429, "quota">>,
    <<429, "rate">>, <<500, "server">>, <<502, "gateway">>, <<503, "unreachable">>}
OwnErrors == {<<429, "no_key">>, <<429, "busy">>, <<500, "missing">>,
    <<503, "headroom">>}

\* provider_models gives each of its models one provider.
ASSUME TablesAssumption ==
    /\ CloudModels \cap LocalModels = {} /\ NoModel \notin Models
    /\ DOMAIN Provider = CloudModels
    /\ Cheapest \in {m \in CloudModels : Provider[m] = Openrouter} \cup {NoModel}
    /\ Offload \in Models /\ Alias \in LocalModels
\* Roles and their defaults name local models.
ASSUME RolesAssumption ==
    /\ Role \in [{"coder", "general"} -> LocalModels \cup {NoModel}]
    /\ Default \in [{"coder", "general"} -> LocalModels]
    /\ Template \in [LocalModels -> Templates]
    /\ NameTemplate \in [Models -> Templates]
ASSUME AnswersAssumption ==
    /\ Bodies \subseteq AllBodies \ {"local"} /\ Errors \subseteq AllErrors
    /\ Tasks \subseteq {"text", "coding", "reasoning", "image", "audio"}
    /\ MaxResults \in Nat

VARIABLES
    env,        \* what is the same for every request: keys, network, disk
    resident,   \* the models in RAM
    stored,     \* the session's entry in active_sessions, or NoSession
    session,    \* process's copy of it
    target,     \* target_model
    cfg,        \* the format of the config the prompt was compiled with
    prompt,     \* the compiled prompt
    turn, retry,
    answer,     \* status_code and output of the last attempt
    recovery,   \* what RecoveryPolicy said of it
    res,        \* the HTTP status of the last response
    pc

loopVars == <<target, cfg, prompt, turn, retry, answer, recovery>>
vars == <<env, resident, stored, session, loopVars, res, pc>>

Sessions == [status : {"CREATED", "INFERRING", "WAITING_FOR_TOOL", "CONTINUING",
                       "COMPLETED", "FAILED"},
             task : Tasks \cup {"none", "general"},
             results : Seq(AllBodies)]
Prompts == [template : Templates, reduced : BOOLEAN, continued : BOOLEAN]
RecoveryActions == {"none", "RETRY_SAME", "SWITCH_KEY", "SWITCH_PROVIDER",
    "SWITCH_MODEL", "REDUCE_CONTEXT", "FALLBACK_LOCAL", "FAIL_SESSION"}

\* Every variable has the type its C++ counterpart has; the loop counters stay
\* within the bounds of their loops.
TypeOK ==
    /\ env \in [keys : SUBSET {Provider[m] : m \in CloudModels},
                online : BOOLEAN, calm : BOOLEAN, disk : SUBSET LocalModels]
    /\ resident \subseteq LocalModels
    /\ stored \in Sessions \cup {NoSession}
    /\ session \in Sessions
    /\ target \in Models
    /\ cfg \in Templates
    /\ prompt \in Prompts
    /\ turn \in 0..MaxTurns - 1 /\ retry \in 0..MaxRetries - 1
    /\ answer \in ({200} \X AllBodies) \cup AllErrors \cup OwnErrors
    /\ recovery \in RecoveryActions
    /\ res \in Nat
    /\ pc \in {"idle", "dispatch", "infer", "recover", "analyze", "save"}

NewSession == [status |-> "CREATED", task |-> "none", results |-> << >>]

NewPrompt(f) == [template |-> f, reduced |-> FALSE, continued |-> FALSE]

Init ==
    /\ env \in [keys : SUBSET {Provider[m] : m \in CloudModels},
                online : BOOLEAN, calm : BOOLEAN, disk : SUBSET LocalModels]
    /\ resident \in SUBSET env.disk
    /\ stored = NoSession
    /\ session = NewSession
    /\ target = Default["general"] /\ cfg = "chatml"
    /\ prompt = NewPrompt("chatml")
    /\ turn = 0 /\ retry = 0
    /\ answer = <<200, "empty">>
    /\ recovery = "none"
    /\ res = 0
    /\ pc = "idle"

-----------------------------------------------------------------------------
(* The policies.                                                             *)

\* Mutant: a server error is retried like a gateway error.
determine_action_Retries(status, body) ==
    CASE status = 413 \/ body = "context" -> "REDUCE_CONTEXT"
      [] status = 404 \/ body = "unknown_model" -> "SWITCH_MODEL"
      [] status = 429 /\ body \in {"quota", "no_key"} -> "SWITCH_KEY"
      [] status = 429 /\ body \notin {"quota", "no_key"} -> "SWITCH_PROVIDER"
      [] status >= 500 -> "RETRY_SAME"
      [] OTHER -> "FAIL_SESSION"

\* RecoveryPolicy::determine_action.  The answer infer gives when no key is left
\* has the word "key" in it.
determine_action(status, body) ==
    CASE status = 413 \/ body = "context" -> "REDUCE_CONTEXT"
      [] status = 404 \/ body = "unknown_model" -> "SWITCH_MODEL"
      [] status = 429 /\ body \in {"quota", "no_key"} -> "SWITCH_KEY"
      [] status = 429 /\ body \notin {"quota", "no_key"} -> "SWITCH_PROVIDER"
      [] status \in {408, 502, 504} -> "RETRY_SAME"
      [] status >= 500 /\ status \notin {502, 504} -> "FALLBACK_LOCAL"
      [] OTHER -> "FAIL_SESSION"

\* ResponseAnalyzer::analyze with no stop reason, which is how the engine calls it.
analyze(body) ==
    CASE body \in {"empty", "error", "broken_error"} -> "MODEL_ERROR"
      [] body \in {"length", "max_tokens"} -> "MODEL_CONTINUE"
      [] body \in {"tool_calls", "calls", "broken_calls", "markup"} -> "TOOL_CALL"
      [] body \in {"safety", "broken", "garbage"} -> "INVALID"
      [] OTHER -> "COMPLETE"

\* CompletionPolicy::is_acceptable with the evidence the engine collects: it never
\* sets unresolved_error, tools_called or tool_result_received.
is_acceptable(body) ==
    /\ body # "empty"
    /\ analyze(body) = "COMPLETE" \/ body # "done"

-----------------------------------------------------------------------------
(* Choosing a model and asking it.                                           *)

IsLocal(m) == m \notin CloudModels
Loadable == resident \cup env.disk

\* The engine's resolve_fallback.
resolve_fallback ==
    IF Role["general"] # NoModel THEN Role["general"]
    ELSE IF Alias \in resident THEN Alias ELSE Default["general"]

RoleModel(r) == IF Role[r] # NoModel THEN Role[r] ELSE Default[r]

\* Routing and target selection.  asked is the model a request names, NoModel for
\* "denselite"; get_provider_for_model answers "local" for a model it does not
\* know, never "", so that a heavy request always goes to Offload.
Target(asked, task, heavy, pressure) ==
    CASE pressure /\ Cheapest # NoModel -> Cheapest
      [] asked # NoModel /\ ~(pressure /\ Cheapest # NoModel) -> asked
      [] asked = NoModel /\ heavy /\ ~(pressure /\ Cheapest # NoModel) -> Offload
      [] OTHER -> RoleModel(IF task = "coding" THEN "coder" ELSE "general")

\* The config a prompt is compiled with: a model that is not resident is known by
\* its name only.
FormatFor(m) == IF m \in resident THEN Template[m] ELSE NameTemplate[m]

\* What a model is sent: infer_cloud builds its payload from the request.
Payload(m, p) == IF IsLocal(m) THEN p ELSE "messages"

\* ModelEngine::infer: what an attempt on model m may return.  Another request may
\* hold a local model, and RAM may be short, unless the machine is calm.
infer(m) ==
    IF IsLocal(m)
    THEN (IF env.calm THEN {} ELSE {<<429, "busy">>}) \cup
         (IF m \notin Loadable THEN {<<500, "missing">>}
          ELSE {<<200, "local">>} \cup
               (IF env.calm THEN {} ELSE {<<503, "headroom">>}))
    ELSE IF Provider[m] \notin env.keys THEN {<<429, "no_key">>}
    ELSE IF env.online THEN ({200} \X Bodies) \cup Errors
    ELSE {<<503, "unreachable">>}

-----------------------------------------------------------------------------
(* process and execute_pipeline.                                             *)

\* The body does not parse, or has no messages: 400, and no session is looked up.
Refuse ==
    /\ pc = "idle"
    /\ res' = 400
    /\ UNCHANGED <<env, resident, stored, session, loopVars, pc>>

\* get_or_create_session, routing, target selection and the first compilation.
Receive(asked, task, heavy, pressure) ==
    /\ pc = "idle"
    /\ stored # NoSession => Len(stored.results) < MaxResults
    /\ LET t == IF asked = NoModel THEN task ELSE "general"
           m == Target(asked, t, heavy, pressure)
           s == IF stored = NoSession THEN NewSession ELSE stored
       IN /\ stored' = IF stored = NoSession THEN s
                       ELSE [s EXCEPT !.status = "CONTINUING"]
          /\ session' = [s EXCEPT !.status = "INFERRING", !.task = t]
          /\ target' = m
          /\ cfg' = FormatFor(m)
          /\ prompt' = NewPrompt(FormatFor(m))
    /\ turn' = 0 /\ retry' = 0
    /\ recovery' = "none"
    /\ pc' = "dispatch"
    /\ UNCHANGED <<env, resident, answer, res>>

\* Multimodal dispatch: the multimodal engine answers an image or audio request if it can.
Dispatch ==
    /\ pc = "dispatch"
    /\ \/ /\ session.task \in {"image", "audio"}
          /\ session' = [session EXCEPT !.status = "COMPLETED"]
          /\ res' = 200
          /\ pc' = "save"
       \/ /\ pc' = "infer"
          /\ UNCHANGED <<session, res>>
    /\ UNCHANGED <<env, resident, stored, loopVars>>

\* One attempt.  A local model that answers has been loaded and stays in RAM.
Attempt ==
    /\ pc = "infer"
    /\ answer' \in infer(target)
    /\ resident' = IF answer'[2] \in {"local", "headroom"} THEN resident \cup {target}
                   ELSE resident
    /\ recovery' = "none"
    /\ pc' = IF answer'[1] = 200 THEN "analyze" ELSE "recover"
    /\ UNCHANGED <<env, stored, session, target, cfg, prompt, turn, retry, res>>

\* The model an action switches to.
Switched(action) ==
    CASE action \in {"SWITCH_MODEL", "SWITCH_PROVIDER", "SWITCH_KEY"} ->
            IF Cheapest # NoModel THEN Cheapest ELSE resolve_fallback
      [] action = "FALLBACK_LOCAL" -> resolve_fallback
      [] OTHER -> target

\* Mutant: the second attempt is the last.
GivesUp_Early(action) == action = "FAIL_SESSION" \/ retry + 2 >= MaxRetries

\* The retry loop ends with the step failed.
GivesUp(action) == action = "FAIL_SESSION" \/ retry + 1 = MaxRetries

\* Mutant: a model that was switched to starts with fresh attempts.
NextRetry_Fresh(action) ==
    IF action \in {"SWITCH_MODEL", "SWITCH_PROVIDER", "SWITCH_KEY"} THEN 0
    ELSE retry + 1

\* The loop counts attempts, whatever model they were made on.
NextRetry(action) == retry + 1

\* The attempt failed: change model or prompt, then try again unless the action is
\* to fail or this was the third attempt.
Recover ==
    /\ pc = "recover"
    /\ LET action == determine_action(answer[1], answer[2])
       IN /\ recovery' = action
          /\ target' = Switched(action)
          /\ prompt' = IF action = "REDUCE_CONTEXT"
                       THEN [NewPrompt(cfg) EXCEPT !.reduced = TRUE]
                       ELSE prompt
          /\ IF GivesUp(action)
             THEN /\ session' = [session EXCEPT !.status = "FAILED"]
                  /\ res' = answer[1]
                  /\ pc' = "save"
                  /\ UNCHANGED retry
             ELSE /\ retry' = NextRetry(action)
                  /\ pc' = "infer"
                  /\ UNCHANGED <<session, res>>
    /\ UNCHANGED <<env, resident, stored, cfg, turn, answer>>

\* The next internal turn, or the curated answer when there is none left.
NextTurn ==
    /\ retry' = IF turn + 1 < MaxTurns THEN 0 ELSE retry
    /\ IF turn + 1 < MaxTurns
       THEN turn' = turn + 1 /\ pc' = "infer" /\ UNCHANGED res
       ELSE res' = 200 /\ pc' = "save" /\ UNCHANGED turn

\* The answer's kind decides: return a tool call, go on with another turn, or stop.
Analyze ==
    /\ pc = "analyze"
    /\ LET body == answer[2]
           action == analyze(body)
           grown(st) == [session EXCEPT !.status = st,
                                        !.results = Append(@, body)]
       IN \/ /\ action = "TOOL_CALL"
             /\ session' = grown("WAITING_FOR_TOOL")
             /\ res' = 200
             /\ pc' = "save"
             /\ UNCHANGED <<target, prompt, turn, retry>>
          \/ /\ action = "INVALID"
             /\ session' = grown(session.status)
             /\ target' = RoleModel("general")
             /\ NextTurn
             /\ UNCHANGED prompt
          \/ /\ action = "MODEL_CONTINUE"
             /\ session' = grown("CONTINUING")
             /\ prompt' = [prompt EXCEPT !.continued = TRUE]
             /\ NextTurn
             /\ UNCHANGED target
          \/ /\ action \in {"COMPLETE", "MODEL_ERROR"}
             /\ is_acceptable(body)
             /\ session' = grown("COMPLETED")
             /\ res' = 200
             /\ pc' = "save"
             /\ UNCHANGED <<target, prompt, turn, retry>>
          \/ /\ action \in {"COMPLETE", "MODEL_ERROR"}
             /\ ~is_acceptable(body)
             /\ session' = grown(session.status)
             /\ NextTurn
             /\ UNCHANGED <<target, prompt>>
    /\ UNCHANGED <<env, resident, stored, cfg, answer, recovery>>

\* Mutant: a session that failed is kept.
Save_KeepsFailed ==
    /\ pc = "save"
    /\ stored' = IF session.status = "COMPLETED" THEN NoSession ELSE session
    /\ session' = NewSession
    /\ target' = Default["general"] /\ cfg' = "chatml" /\ prompt' = NewPrompt("chatml")
    /\ turn' = 0 /\ retry' = 0
    /\ answer' = <<200, "empty">> /\ recovery' = "none"
    /\ res' = 0
    /\ pc' = "idle"
    /\ UNCHANGED <<env, resident>>

\* Mutant: a session that completed is kept.
Save_KeepsCompleted ==
    /\ pc = "save"
    /\ stored' = IF session.status = "FAILED" THEN NoSession ELSE session
    /\ session' = NewSession
    /\ target' = Default["general"] /\ cfg' = "chatml" /\ prompt' = NewPrompt("chatml")
    /\ turn' = 0 /\ retry' = 0
    /\ answer' = <<200, "empty">> /\ recovery' = "none"
    /\ res' = 0
    /\ pc' = "idle"
    /\ UNCHANGED <<env, resident>>

\* process erases the session or writes its copy back, and returns: the response is
\* sent and its variables are gone.
Save ==
    /\ pc = "save"
    /\ stored' = IF session.status \in {"COMPLETED", "FAILED"} THEN NoSession
                 ELSE session
    /\ session' = NewSession
    /\ target' = Default["general"] /\ cfg' = "chatml" /\ prompt' = NewPrompt("chatml")
    /\ turn' = 0 /\ retry' = 0
    /\ answer' = <<200, "empty">> /\ recovery' = "none"
    /\ res' = 0
    /\ pc' = "idle"
    /\ UNCHANGED <<env, resident>>

Next ==
    \/ Refuse
    \/ \E asked \in Models \cup {NoModel}, task \in Tasks \cup {"general"},
          heavy, pressure \in BOOLEAN : Receive(asked, task, heavy, pressure)
    \/ Dispatch
    \/ Attempt
    \/ Recover
    \/ Analyze
    \/ Save

Spec == Init /\ [][Next]_vars

\* infer always returns (connections and reads time out, generation is bounded), so
\* the worker that serves a request takes its next step.
FairSpec == Spec /\ WF_vars(Dispatch \/ Attempt \/ Recover \/ Analyze \/ Save)

-----------------------------------------------------------------------------
(* Properties.                                                               *)

Done == pc = "save"

\* Without a network a request is still answered, as long as a key for Openrouter
\* keeps it from running out of attempts: whatever model it asked for, at most one
\* missing key or local failure and one failed connection come before the general
\* model, and three attempts are just enough (DenseLiteEngine.cpp:266-289).
OfflineAnswered ==
    Done /\ ~env.online /\ env.calm
         /\ RoleModel("general") \in env.disk /\ Openrouter \in env.keys
    => res = 200 /\ session.status = "COMPLETED"

\* A request fails for a reason: the status it reports is that of its last attempt,
\* which was final or the third of its turn (DenseLiteEngine.cpp:286-296).
FailureIsLastAnswer ==
    Done /\ session.status = "FAILED" =>
        /\ res = answer[1] /\ res # 200
        /\ recovery = "FAIL_SESSION" \/ retry = MaxRetries - 1

\* A session kept for another request is unfinished: it waits for the client's tool
\* or none of its three turns gave an acceptable output.
KeptIsUnfinished ==
    pc = "idle" /\ stored # NoSession =>
        LET r == stored.results
        IN \/ r # << >> /\ analyze(r[Len(r)]) = "TOOL_CALL"
           \/ /\ Len(r) >= MaxTurns
              /\ \A i \in Len(r) - MaxTurns + 1..Len(r) :
                    \/ analyze(r[i]) \in {"MODEL_CONTINUE", "INVALID"}
                    \/ ~is_acceptable(r[i])

\* A local answer is the last one of its session: no later turn, and no later
\* request, adds to it.
LocalIsLast ==
    \A s \in {session} \cup ({stored} \ {NoSession}) :
        \A i \in DOMAIN s.results : s.results[i] = "local" => i = Len(s.results)

\* Every request that is taken gets its response, whatever the models answer.
Answered == pc # "idle" ~> pc = "idle"

\* README.md:108: with all keys exhausted, inference is local.
ExhaustedIsLocal ==
    Done /\ env.keys = {} /\ env.calm /\ LocalModels \subseteq env.disk => res = 200

\* CompletionPolicy.cpp:16: an unresolved error blocks completion.
ErrorBlocksCompletion ==
    session.status = "COMPLETED" /\ session.results # << >> =>
        analyze(session.results[Len(session.results)]) # "MODEL_ERROR"

\* RecoveryPolicy.hpp:9: REDUCE_CONTEXT answers a context window that was exceeded;
\* the attempt that follows it sends the model something else.
ReductionIsSent ==
    [][recovery' = "REDUCE_CONTEXT" /\ recovery # recovery' /\ pc' = "infer"
       => Payload(target', prompt') # Payload(target, prompt)]_vars

\* context_engine.cpp:55: the prompt is in the format of the model that gets it.
PromptFitsModel ==
    pc = "infer" /\ IsLocal(target) /\ target \in Loadable =>
        prompt.template = Template[target]
=============================================================================
