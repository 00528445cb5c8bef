-------------------------- MODULE EffectEntryProofs --------------------------
(***************************************************************************)
(* Proofs about EffectEntry: the singletons a call uses belong together,   *)
(* and the current model stays on the menu, for any number of threads and  *)
(* calls, whatever the host's payloads are and whatever throws.            *)
(***************************************************************************)
EXTENDS EffectEntry, TLAPS

\* Where a call is, and the places behind EnsureInitialized.
Places == {"idle", "enter", "once", "create", "router", "update", "refreshed", "pipeline", "commit"}
Within == {"router", "update", "refreshed", "pipeline", "commit"}

Together == built.engine > 0 /\ built.pipeline = built.engine /\ built.router = built.engine

\* The flag of call_once says which thread creates the singletons, and that
\* they are there.
OnceInv ==
    /\ pc \in [Threads -> Places]
    /\ built \in [engine : Nat, pipeline : Nat, router : Nat]
    /\ once \in Threads \union {Free, Done}
    /\ \A t \in Threads : pc[t] = "create" => once = t
    /\ \A t \in Threads : pc[t] \in Within => once = Done
    /\ once = Done => Together

\* A step of thread t that neither touches the flag nor enters or leaves the creation.
Moves(t) ==
    /\ UNCHANGED <<once, built>>
    /\ \E place \in Places \ {"create"} :
         /\ pc' = [pc EXCEPT ![t] = place]
         /\ place \in Within => pc[t] \in Within

\* Steps that only move a call keep the flag's invariant.
LEMMA MovesKeepOnce ==
    ASSUME OnceInv, NEW t \in Threads, Moves(t)
    PROVE  OnceInv'
BY DEF OnceInv, Moves, Places, Within, Together

\* All steps but those of EnsureInitialized only move a call.
LEMMA OthersMove ==
    ASSUME OnceInv, NEW t \in Threads,
           \/ Begin(t) \/ BuildSdkDispatch(t) \/ LegacyEnter(t) \/ UpdateParams(t)
           \/ LegacyChange(t) \/ RefreshModelMenu(t) \/ StoreRefreshed(t) \/ HandleAtOnce(t)
           \/ TakeParams(t) \/ LegacyConversionFails(t) \/ RunPipeline(t)
           \/ CommitSdkRenderOutput(t) \/ ExecuteHostBufferRenderBridge(t)
    PROVE  Moves(t)
<1>1. CASE Begin(t)
  <2>1. UNCHANGED <<once, built>> /\ pc' = [pc EXCEPT ![t] = "enter"]
    BY <1>1 DEF Begin
  <2>2. "enter" \in Places \ {"create"} /\ "enter" \notin Within
    BY DEF Places, Within
  <2> QED BY <2>1, <2>2 DEF Moves
<1>2. CASE BuildSdkDispatch(t)
  <2>1. UNCHANGED <<once, built>>
    BY <1>2 DEF BuildSdkDispatch, shared
  <2>2. \E place \in {"idle", "once"} : pc' = [pc EXCEPT ![t] = place]
    BY <1>2 DEF BuildSdkDispatch, WireRenderPayload, WireParamUpdatePayload, WireParamSetupPayload,
                WireGlobalSetupPayload, Return, GoTo, Throw
  <2> QED BY <2>1, <2>2 DEF Moves, Places, Within
<1>3. CASE LegacyEnter(t)
  BY <1>3 DEF LegacyEnter, Answer, Return, GoTo, shared, Moves, Places, Within
<1>4. CASE UpdateParams(t)
  <2>1. UNCHANGED <<once, built>> /\ pc[t] \in Within
    BY <1>4 DEF UpdateParams, Within
  <2>2. pc' = [pc EXCEPT ![t] = "idle"]
    BY <1>4 DEF UpdateParams, Store, Answer, Return, GoTo
  <2> QED BY <2>1, <2>2 DEF Moves, Places, Within
<1>5. CASE LegacyChange(t)
  BY <1>5 DEF LegacyChange, GoTo, shared, Moves, Places, Within
<1>6. CASE RefreshModelMenu(t)
  <2>1. UNCHANGED <<once, built>> /\ pc[t] \in Within
    BY <1>6 DEF RefreshModelMenu, Refreshes, Within
  <2>2. \E place \in {"idle", "refreshed"} : pc' = [pc EXCEPT ![t] = place]
    BY <1>6 DEF RefreshModelMenu, Answer, Return, GoTo
  <2> QED BY <2>1, <2>2 DEF Moves, Places, Within
<1>7. CASE StoreRefreshed(t)
  BY <1>7 DEF StoreRefreshed, Store, Moves, Places, Within
<1>8. CASE HandleAtOnce(t)
  BY <1>8 DEF HandleAtOnce, Answer, Return, GoTo, shared, Moves, Places, Within
<1>9. CASE TakeParams(t)
  BY <1>9 DEF TakeParams, GoTo, shared, Moves, Places, Within
<1>10. CASE LegacyConversionFails(t)
  BY <1>10 DEF LegacyConversionFails, Answer, Return, Throw, GoTo, shared, Moves, Places, Within
<1>11. CASE RunPipeline(t)
  BY <1>11 DEF RunPipeline, Throw, GoTo, shared, Moves, Places, Within
<1>12. CASE CommitSdkRenderOutput(t)
  BY <1>12 DEF CommitSdkRenderOutput, Return, GoTo, shared, Moves, Places, Within
<1>13. CASE ExecuteHostBufferRenderBridge(t)
  BY <1>13 DEF ExecuteHostBufferRenderBridge, Return, GoTo, shared, Moves, Places, Within
<1> QED BY <1>1, <1>2, <1>3, <1>4, <1>5, <1>6, <1>7, <1>8, <1>9, <1>10, <1>11, <1>12, <1>13

\* A creation leaves the flag free or the singletons together.
LEMMA CreateKeepsOnce ==
    ASSUME OnceInv, NEW t \in Threads, Create(t)
    PROVE  OnceInv'
<1>1. PICK stages \in 0..4 :
        /\ built' = [engine |-> IF stages >= 1 THEN built.engine + 1 ELSE built.engine,
                     pipeline |-> IF stages >= 2 THEN built.engine + 1 ELSE built.pipeline,
                     router |-> IF stages >= 3 THEN built.engine + 1 ELSE built.router]
        /\ once' = (IF stages = 4 THEN Done ELSE Free)
        /\ pc' = [pc EXCEPT ![t] = IF stages = 4 THEN "router" ELSE "idle"]
  <2>1. PICK stages \in 0..4 :
          /\ built' = [engine |-> IF stages >= 1 THEN built.engine + 1 ELSE built.engine,
                       pipeline |-> IF stages >= 2 THEN built.engine + 1 ELSE built.pipeline,
                       router |-> IF stages >= 3 THEN built.engine + 1 ELSE built.router]
          /\ once' = (IF stages = 4 THEN Done ELSE Free)
          /\ IF stages = 4 THEN GoTo(t, "router", local[t]) ELSE Throw(t)
    BY DEF Create, AfterCreation
  <2>2. pc' = [pc EXCEPT ![t] = IF stages = 4 THEN "router" ELSE "idle"]
    BY <2>1 DEF GoTo, Throw
  <2> QED BY <2>1, <2>2
<1>2. once = t /\ pc[t] = "create" /\ Free # Done
  BY DEF Create, OnceInv, Free, Done
<1>3. \A u \in Threads : u # t => pc[u] \notin Within \union {"create"}
  BY <1>2, EntryAssumption DEF OnceInv
<1>4. built' \in [engine : Nat, pipeline : Nat, router : Nat] /\ (stages = 4 => Together')
  BY <1>1 DEF OnceInv, Together
<1>5. pc' \in [Threads -> Places] /\ once' \in Threads \union {Free, Done}
  BY <1>1 DEF OnceInv, Places
<1>6. \A u \in Threads : pc'[u] # "create" /\ (pc'[u] \in Within => once' = Done)
  BY <1>1, <1>3 DEF OnceInv, Within
<1>7. once' = Done => Together'
  BY <1>1, <1>2, <1>4
<1> QED BY <1>4, <1>5, <1>6, <1>7 DEF OnceInv

\* The flag's invariant is inductive.
LEMMA OnceInductive == OnceInv /\ [Next]_vars => OnceInv'
<1> SUFFICES ASSUME OnceInv, [Next]_vars PROVE OnceInv'
  OBVIOUS
<1>1. CASE UNCHANGED vars
  BY <1>1 DEF vars, OnceInv, Together
<1>2. ASSUME NEW t \in Threads, WaitOnce(t) PROVE OnceInv'
  BY <1>2, EntryAssumption DEF WaitOnce, OnceInv, Together, Places, Within, Free, Done
<1>3. ASSUME NEW t \in Threads, Create(t) PROVE OnceInv'
  BY <1>3, CreateKeepsOnce
<1>4. ASSUME NEW t \in Threads, Begin(t) \/ CallStep(t), ~WaitOnce(t), ~Create(t)
      PROVE  OnceInv'
  <2>1. Moves(t)
    BY <1>4, OthersMove DEF CallStep
  <2> QED BY <2>1, MovesKeepOnce
<1> QED BY <1>1, <1>2, <1>3, <1>4 DEF Next, CallStep

\* A call that has passed EnsureInitialized finds an engine, a pipeline and a
\* router of one creation, however many creations threw before it.
THEOREM SingletonsBelongTogether == Spec => []InitialisedTogether
<1>1. Init => OnceInv
  BY DEF Init, OnceInv, Places, Within, Together, Free, Done
<1>2. OnceInv => InitialisedTogether
  BY DEF OnceInv, InitialisedTogether, Together, Within
<1> QED BY <1>1, <1>2, OnceInductive, PTL DEF Spec

-----------------------------------------------------------------------------
(* The menu.                                                               *)

\* What the record of a call keeps through every step.
HasValues(r) == "values" \in DOMAIN r /\ "model" \in DOMAIN r.values

\* The menu is filled when the singletons are there and stays what the
\* environment makes it; a refresh on its way has a model of it in its hands.
MenuInv ==
    /\ "model" \in DOMAIN current
    /\ local = [t \in Threads |-> local[t]]
    /\ \A t \in Threads : HasValues(local[t])
    /\ menu # <<>> => once = Done /\ menu = BuildModelMenu(env)
    /\ \A t \in Threads :
         pc[t] = "refreshed" => menu # <<>> /\ local[t].values.model = menu[1]
    /\ ModelStaysOnMenu

\* A step that leaves the router's parameters and the menu alone.
LeavesRouter(t) ==
    /\ UNCHANGED <<env, menu, current>>
    /\ menu # <<>> => once' = Done
    /\ \E place \in Places \ {"refreshed"} : \E r :
         /\ pc' = [pc EXCEPT ![t] = place]
         /\ local' = [local EXCEPT ![t] = r]
         /\ HasValues(r)

\* The first model of a menu that is not empty is on it.
LEMMA MenuHasFirst ==
    ASSUME NEW e, BuildModelMenu(e) # <<>>
    PROVE  InMenu(BuildModelMenu(e)[1], BuildModelMenu(e))
<1>1. \E x : BuildModelMenu(e) = <<x>>
  BY DEF BuildModelMenu
<1> QED BY <1>1 DEF InMenu

\* Such a step keeps the invariant of the menu, because the call is not in a
\* refresh before it.
LEMMA LeavingRouterKeepsMenu ==
    ASSUME OnceInv, MenuInv, NEW t \in Threads, LeavesRouter(t), pc[t] # "refreshed"
    PROVE  MenuInv'
<1>a. PICK place \in Places \ {"refreshed"} :
        \E r : pc' = [pc EXCEPT ![t] = place] /\ local' = [local EXCEPT ![t] = r] /\ HasValues(r)
  BY DEF LeavesRouter
<1>1. PICK r : pc' = [pc EXCEPT ![t] = place] /\ local' = [local EXCEPT ![t] = r] /\ HasValues(r)
  BY <1>a
<1>2. \A u \in Threads : local'[u] = IF u = t THEN r ELSE local[u]
  BY <1>1 DEF MenuInv
<1>3. local' = [u \in Threads |-> local'[u]]
  BY <1>1 DEF MenuInv
<1>4. \A u \in Threads : pc'[u] = IF u = t THEN place ELSE pc[u]
  BY <1>1 DEF OnceInv
<1>5. \A u \in Threads : pc'[u] = "refreshed" <=> pc[u] = "refreshed"
  BY <1>4
<1>6. \A u \in Threads : pc'[u] = "refreshed" => local'[u] = local[u]
  BY <1>2, <1>4
<1>7. env' = env /\ menu' = menu /\ current' = current /\ (menu # <<>> => once' = Done)
  BY DEF LeavesRouter
<1>8. \A u \in Threads : HasValues(local'[u])
  BY <1>1, <1>2 DEF MenuInv
<1>9. menu' # <<>> => once' = Done /\ menu' = BuildModelMenu(env')
  BY <1>7 DEF MenuInv
<1>10. \A u \in Threads :
         pc'[u] = "refreshed" => menu' # <<>> /\ local'[u].values.model = menu'[1]
  BY <1>5, <1>6, <1>7 DEF MenuInv
<1>11. ModelStaysOnMenu'
  BY <1>5, <1>7 DEF MenuInv, ModelStaysOnMenu
<1> QED BY <1>3, <1>7, <1>8, <1>9, <1>10, <1>11 DEF MenuInv, HasValues

\* Thread t goes to one of the places with a record that is whole.
Goes(t, places) ==
    \E place \in places : \E r :
      /\ pc' = [pc EXCEPT ![t] = place]
      /\ local' = [local EXCEPT ![t] = r]
      /\ HasValues(r)

\* The fields that steps change leave the values of a record alone.
LEMMA FieldsKeepValues ==
    ASSUME NEW r, HasValues(r), NEW x
    PROVE  /\ HasValues([r EXCEPT !.end = x])
           /\ HasValues([r EXCEPT !.answer = x])
           /\ HasValues([r EXCEPT !.picture = x])
           /\ HasValues([r EXCEPT !.request = x])
           /\ HasValues([r EXCEPT !.rerender = x])
           /\ HasValues([r EXCEPT !.setup = x])
           /\ "model" \in DOMAIN x => HasValues([r EXCEPT !.values = x])
BY DEF HasValues

\* The ways a call goes on or ends keep its record whole.
LEMMA WaysOut ==
    ASSUME NEW t \in Threads, HasValues(local[t])
    PROVE  /\ \A place, r : GoTo(t, place, r) /\ HasValues(r) => Goes(t, {place})
           /\ \A r : Return(t, r) /\ HasValues(r) => Goes(t, {"idle"})
           /\ \A ok : Answer(t, ok) => Goes(t, {"idle"})
           /\ Throw(t) => Goes(t, {"idle"})
<1>1. \A place, r : GoTo(t, place, r) /\ HasValues(r) => Goes(t, {place})
  BY DEF GoTo, Goes
<1>2. \A r : Return(t, r) /\ HasValues(r) => Goes(t, {"idle"})
  <2> SUFFICES ASSUME NEW r, Return(t, r), HasValues(r) PROVE Goes(t, {"idle"})
    OBVIOUS
  <2>1. HasValues([r EXCEPT !.end = "returned"])
    BY FieldsKeepValues
  <2> QED BY <1>1, <2>1 DEF Return
<1>3. \A ok : Answer(t, ok) => Goes(t, {"idle"})
  <2> SUFFICES ASSUME NEW ok, Answer(t, ok) PROVE Goes(t, {"idle"})
    OBVIOUS
  <2> DEFINE answer == IF OfSdk(t) THEN "none" ELSE IF ok THEN "ok" ELSE "fail"
  <2>1. HasValues([local[t] EXCEPT !.answer = answer])
    BY FieldsKeepValues
  <2> QED BY <1>2, <2>1 DEF Answer
<1>4. Throw(t) => Goes(t, {"idle"})
  <2> SUFFICES ASSUME Throw(t) PROVE Goes(t, {"idle"})
    OBVIOUS
  <2> DEFINE thrown ==
        [local[t] EXCEPT !.end = "threw",
                         !.answer = IF OfSdk(t) THEN "none" ELSE "fail",
                         !.picture = IF OfSdk(t) THEN Handled(call[t], @) ELSE @]
  <2>1. HasValues(thrown)
    BY DEF HasValues
  <2>2. GoTo(t, "idle", thrown)
    BY DEF Throw
  <2> QED BY <1>1, <2>1, <2>2
<1> QED BY <1>1, <1>2, <1>3, <1>4

\* The values a call has to change something are whole.
LEMMA ValuesAreWhole ==
    ASSUME NEW v, "model" \in DOMAIN v
    PROVE  /\ \A c : "model" \in DOMAIN TryExtractPfCmdParamValues(c)
           /\ "model" \in DOMAIN DefaultAeParams
           /\ \A m : "model" \in DOMAIN [v EXCEPT !.model = m]
           /\ \A m : [v EXCEPT !.model = m].model = m
           /\ \A q, low, high : "model" \in DOMAIN LegacyBand([v EXCEPT !.quality = q], low, high)
BY DEF TryExtractPfCmdParamValues, DefaultAeParams, LegacyBand

\* What EffectMain's dispatch makes of a call leaves a whole record.
LEMMA DispatchGoes ==
    ASSUME NEW t \in Threads, HasValues(local[t]), BuildSdkDispatch(t)
    PROVE  Goes(t, {"idle", "once"})
<1>1. \A places \in SUBSET {"idle", "once"} : Goes(t, places) => Goes(t, {"idle", "once"})
  BY DEF Goes
<1> DEFINE c == call[t]
           values == TryExtractPfCmdParamValues(c)
<1>2. "model" \in DOMAIN values
  BY DEF TryExtractPfCmdParamValues
<1>3. CASE WireRenderPayload(t)
  <2> DEFINE record == [local[t] EXCEPT !.values = values, !.request = IsConverted(c),
                                        !.picture = IF IsConverted(c) THEN @ ELSE PassThrough(c, @)]
  <2>1. HasValues(record)
    BY <1>2 DEF HasValues
  <2>2. GoTo(t, "once", record) \/ Throw(t)
    BY <1>3 DEF WireRenderPayload
  <2> HIDE DEF record
  <2> QED BY <2>1, <2>2, <1>1, WaysOut
<1>4. CASE WireParamUpdatePayload(t)
  <2> DEFINE record == [local[t] EXCEPT !.values = values, !.rerender = c.out # NoData]
  <2>1. HasValues(record)
    BY <1>2 DEF HasValues
  <2>2. GoTo(t, "once", record) \/ Return(t, local[t])
    BY <1>4 DEF WireParamUpdatePayload
  <2> HIDE DEF record
  <2> QED BY <2>1, <2>2, <1>1, WaysOut
<1>5. CASE WireParamSetupPayload(t)
  <2>1. PICK setup : Return(t, [local[t] EXCEPT !.setup = setup])
    BY <1>5 DEF WireParamSetupPayload
  <2>2. HasValues([local[t] EXCEPT !.setup = setup])
    BY FieldsKeepValues
  <2> QED BY <2>1, <2>2, <1>1, WaysOut
<1>6. CASE WireGlobalSetupPayload(t)
  <2>1. Return(t, [local[t] EXCEPT !.setup.flags = call[t].out # NoData])
    BY <1>6 DEF WireGlobalSetupPayload
  <2>2. HasValues([local[t] EXCEPT !.setup.flags = call[t].out # NoData])
    BY DEF HasValues
  <2> QED BY <2>1, <2>2, <1>1, WaysOut
<1>7. CASE GoTo(t, "once", local[t]) \/ Return(t, local[t])
  BY <1>7, <1>1, WaysOut
<1> QED BY <1>3, <1>4, <1>5, <1>6, <1>7 DEF BuildSdkDispatch

\* Every step that neither stores parameters, fills the menu nor creates the
\* singletons leaves the router alone.
LEMMA OthersLeaveRouter ==
    ASSUME OnceInv, MenuInv, NEW t \in Threads,
           \/ Begin(t) \/ BuildSdkDispatch(t) \/ LegacyEnter(t)
           \/ LegacyChange(t) \/ HandleAtOnce(t) \/ TakeParams(t) \/ LegacyConversionFails(t)
           \/ RunPipeline(t) \/ CommitSdkRenderOutput(t) \/ ExecuteHostBufferRenderBridge(t)
    PROVE  LeavesRouter(t) /\ pc[t] # "refreshed"
<1> DEFINE Elsewhere == {"idle", "enter", "once", "router", "update", "pipeline", "commit"}
<1>1. Elsewhere \subseteq Places \ {"refreshed"}
  BY DEF Places
<1>2. HasValues(local[t]) /\ "model" \in DOMAIN current /\ (menu # <<>> => once = Done)
  BY DEF MenuInv
<1>3. ASSUME NEW places \in SUBSET Elsewhere, Goes(t, places),
             UNCHANGED <<env, menu, current, once>>
      PROVE  LeavesRouter(t)
  BY <1>1, <1>2, <1>3 DEF Goes, LeavesRouter
<1>4. CASE Begin(t)
  <2>1. UNCHANGED <<env, menu, current, once>> /\ pc[t] = "idle"
    BY <1>4 DEF Begin
  <2>2. HasValues(Fresh)
    BY ValuesAreWhole, <1>2 DEF HasValues, Fresh
  <2>3. Goes(t, {"enter"})
    BY <1>4, <2>2 DEF Begin, Goes
  <2> QED BY <1>3, <2>1, <2>3
<1>5. CASE BuildSdkDispatch(t)
  BY <1>2, <1>3, <1>5, DispatchGoes DEF BuildSdkDispatch, shared
<1>6. CASE LegacyEnter(t)
  <2>1. UNCHANGED <<env, menu, current, once>> /\ pc[t] = "enter"
    BY <1>6 DEF LegacyEnter, shared
  <2>2. Goes(t, {"once"}) \/ Goes(t, {"idle"})
    BY <1>2, <1>6, WaysOut DEF LegacyEnter
  <2> QED BY <1>3, <2>1, <2>2
<1>7. CASE LegacyChange(t)
  <2>1. UNCHANGED <<env, menu, current, once>> /\ pc[t] = "router"
    BY <1>7 DEF LegacyChange, shared
  <2> DEFINE c == call[t]
             values == IF c.kind = "set_model"
                         THEN [current EXCEPT !.model = c.model]
                         ELSE LegacyBand([current EXCEPT !.quality = c.quality], c.low, c.high)
  <2>2. "model" \in DOMAIN values
    BY <1>2, ValuesAreWhole
  <2>3. GoTo(t, "update", [local[t] EXCEPT !.values = values])
    BY <1>7 DEF LegacyChange
  <2> HIDE DEF values
  <2>4. Goes(t, {"update"})
    BY <1>2, <2>2, <2>3, FieldsKeepValues, WaysOut
  <2> QED BY <1>3, <2>1, <2>4
<1>8. CASE HandleAtOnce(t)
  <2>1. UNCHANGED <<env, menu, current, once>> /\ pc[t] = "router"
    BY <1>8 DEF HandleAtOnce, shared
  <2>2. Goes(t, {"commit"}) \/ Goes(t, {"idle"})
    BY <1>2, <1>8, WaysOut DEF HandleAtOnce
  <2> QED BY <1>3, <2>1, <2>2
<1>9. CASE TakeParams(t)
  <2>1. UNCHANGED <<env, menu, current, once>> /\ pc[t] = "router"
    BY <1>9 DEF TakeParams, shared
  <2>2. "model" \in DOMAIN ParamsOf(t)
    BY <1>2 DEF ParamsOf, HasValues
  <2>3. Goes(t, {"pipeline"})
    BY <1>2, <1>9, <2>2, FieldsKeepValues, WaysOut DEF TakeParams
  <2> QED BY <1>3, <2>1, <2>3
<1>10. CASE LegacyConversionFails(t)
  <2>1. UNCHANGED <<env, menu, current, once>> /\ pc[t] = "router"
    BY <1>10 DEF LegacyConversionFails, shared
  <2>2. Goes(t, {"idle"})
    BY <1>2, <1>10, WaysOut DEF LegacyConversionFails
  <2> QED BY <1>3, <2>1, <2>2
<1>11. CASE RunPipeline(t)
  <2>1. UNCHANGED <<env, menu, current, once>> /\ pc[t] = "pipeline"
    BY <1>11 DEF RunPipeline, shared
  <2>2. Goes(t, {"commit"}) \/ Goes(t, {"idle"})
    BY <1>2, <1>11, FieldsKeepValues, WaysOut DEF RunPipeline
  <2> QED BY <1>3, <2>1, <2>2
<1>12. CASE CommitSdkRenderOutput(t)
  <2>1. UNCHANGED <<env, menu, current, once>> /\ pc[t] = "commit"
    BY <1>12 DEF CommitSdkRenderOutput, shared
  <2>2. \E picture : Return(t, [local[t] EXCEPT !.picture = picture])
    BY <1>12 DEF CommitSdkRenderOutput
  <2>3. Goes(t, {"idle"})
    BY <1>2, <2>2, FieldsKeepValues, WaysOut
  <2> QED BY <1>3, <2>1, <2>3
<1>13. CASE ExecuteHostBufferRenderBridge(t)
  <2>1. UNCHANGED <<env, menu, current, once>> /\ pc[t] = "commit"
    BY <1>13 DEF ExecuteHostBufferRenderBridge, shared
  <2> DEFINE c == call[t]
             written == ValidateHostView(LegacyOutput(c), LegacyFormat(c))
             record == [local[t] EXCEPT
                          !.answer = IF written THEN "ok" ELSE "fail",
                          !.picture = IF written
                                        THEN Rendered(ToRenderParams(env, local[t].values), LegacyFormat(c))
                                        ELSE @]
  <2>2. HasValues(record)
    BY <1>2 DEF HasValues
  <2>3. Return(t, record)
    BY <1>13 DEF ExecuteHostBufferRenderBridge
  <2> HIDE DEF record
  <2>4. Goes(t, {"idle"})
    BY <1>2, <2>2, <2>3, WaysOut
  <2> QED BY <1>3, <2>1, <2>4
<1> QED BY <1>4, <1>5, <1>6, <1>7, <1>8, <1>9, <1>10, <1>11, <1>12, <1>13

\* Storing values that are on the menu keeps the invariant.
LEMMA StoreKeepsMenu ==
    ASSUME OnceInv, MenuInv, NEW t \in Threads, NEW record, NEW values,
           HasValues(record), "model" \in DOMAIN values,
           menu # <<>> => InMenu(values.model, menu),
           Store(t, record, values), UNCHANGED <<env, once, menu>>
    PROVE  MenuInv'
<1>1. pc' = [pc EXCEPT ![t] = "idle"] /\ current' = values
  BY DEF Store
<1>2. \A u \in Threads : pc'[u] = "refreshed" => u # t /\ pc[u] = "refreshed"
  BY <1>1 DEF OnceInv
<1>3. \A u \in Threads :
        \E seen : local'[u] = [IF u = t THEN record ELSE local[u] EXCEPT !.seen = seen]
  BY DEF Store
<1>4. local' = [u \in Threads |-> local'[u]]
  BY DEF Store
<1>5. \A u \in Threads : HasValues(local'[u])
  <2> SUFFICES ASSUME NEW u \in Threads PROVE HasValues(local'[u])
    OBVIOUS
  <2> DEFINE r == IF u = t THEN record ELSE local[u]
  <2>1. HasValues(r)
    BY DEF MenuInv
  <2>2. PICK seen : local'[u] = [r EXCEPT !.seen = seen]
    BY <1>3
  <2> HIDE DEF r
  <2> QED BY <2>1, <2>2 DEF HasValues
<1>6. \A u \in Threads : u # t => local'[u].values = local[u].values
  <2> SUFFICES ASSUME NEW u \in Threads, u # t PROVE local'[u].values = local[u].values
    OBVIOUS
  <2>1. PICK seen : local'[u] = [local[u] EXCEPT !.seen = seen]
    BY <1>3
  <2>2. HasValues(local[u])
    BY DEF MenuInv
  <2> QED BY <2>1, <2>2 DEF HasValues
<1>7. \A u \in Threads :
        pc'[u] = "refreshed" => menu' # <<>> /\ local'[u].values.model = menu'[1]
  BY <1>2, <1>6 DEF MenuInv
<1>8. menu' # <<>> => once' = Done /\ menu' = BuildModelMenu(env')
  BY DEF MenuInv
<1>9. ModelStaysOnMenu'
  BY <1>1 DEF ModelStaysOnMenu
<1> QED BY <1>1, <1>4, <1>5, <1>7, <1>8, <1>9 DEF MenuInv

\* An update is stored when its model is on the menu the environment makes.
LEMMA UpdateKeepsMenu ==
    ASSUME OnceInv, MenuInv, NEW t \in Threads, UpdateParams(t)
    PROVE  MenuInv'
<1>1. HasValues(local[t]) /\ UNCHANGED <<env, once, menu>> /\ pc[t] # "refreshed"
  BY DEF UpdateParams, MenuInv
<1>2. CASE Stored(local[t].values)
  <2> DEFINE record == [local[t] EXCEPT !.end = "returned",
                                        !.answer = IF OfSdk(t) THEN "none" ELSE "ok"]
  <2>1. HasValues(record)
    BY <1>1 DEF HasValues
  <2>2. Store(t, record, local[t].values)
    BY <1>2 DEF UpdateParams
  <2>3. menu # <<>> => InMenu(local[t].values.model, menu)
    BY <1>2 DEF Stored, MenuInv
  <2> HIDE DEF record
  <2> QED BY <1>1, <2>1, <2>2, <2>3, StoreKeepsMenu DEF HasValues
<1>3. CASE ~Stored(local[t].values)
  <2>1. Goes(t, {"idle"}) /\ UNCHANGED current
    BY <1>1, <1>3, WaysOut DEF UpdateParams
  <2>2. LeavesRouter(t)
    BY <1>1, <2>1 DEF Goes, LeavesRouter, Places, MenuInv
  <2> QED BY <1>1, <2>2, LeavingRouterKeepsMenu
<1> QED BY <1>2, <1>3

\* A refresh fills the menu and takes a model of it when the current one is not
\* on it.
LEMMA RefreshKeepsMenu ==
    ASSUME OnceInv, MenuInv, NEW t \in Threads, RefreshModelMenu(t)
    PROVE  MenuInv'
<1>1. /\ UNCHANGED <<env, once, current>> /\ menu' = BuildModelMenu(env)
      /\ pc[t] = "router" /\ once = Done
  BY DEF RefreshModelMenu, Refreshes, OnceInv, Within
<1>2. HasValues(local[t]) /\ "model" \in DOMAIN current
  BY DEF MenuInv
<1>3. menu # <<>> => menu = menu'
  BY <1>1 DEF MenuInv
<1>4. menu' # <<>> => once' = Done /\ menu' = BuildModelMenu(env')
  BY <1>1
<1> DEFINE taken == [current EXCEPT !.model = menu'[1]]
           stays == menu' = <<>> \/ InMenu(current.model, menu')
<1>5. \E place \in {"idle", "refreshed"} : \E r :
        /\ pc' = [pc EXCEPT ![t] = place]
        /\ local' = [local EXCEPT ![t] = r]
        /\ HasValues(r)
        /\ place = "idle" => stays
        /\ place = "refreshed" => menu' # <<>> /\ r.values.model = menu'[1]
  <2>1. CASE stays
    <3>1. Goes(t, {"idle"})
      BY <1>2, <2>1, WaysOut DEF RefreshModelMenu
    <3> QED BY <2>1, <3>1 DEF Goes
  <2>2. CASE ~stays
    <3> DEFINE record == [local[t] EXCEPT !.values = taken]
    <3>1. "model" \in DOMAIN taken /\ taken.model = menu'[1]
      BY <1>2
    <3> HIDE DEF taken
    <3>2. HasValues(record) /\ record.values.model = menu'[1]
      BY <1>2, <3>1 DEF HasValues
    <3>3. GoTo(t, "refreshed", record)
      BY <2>2 DEF RefreshModelMenu, taken
    <3>4. menu' # <<>>
      BY <2>2
    <3> QED BY <3>2, <3>3, <3>4 DEF GoTo
  <2> QED BY <2>1, <2>2
<1>6. PICK place \in {"idle", "refreshed"} : \E r :
        /\ pc' = [pc EXCEPT ![t] = place]
        /\ local' = [local EXCEPT ![t] = r]
        /\ HasValues(r)
        /\ place = "idle" => stays
        /\ place = "refreshed" => menu' # <<>> /\ r.values.model = menu'[1]
  BY <1>5
<1>7. PICK r :
        /\ pc' = [pc EXCEPT ![t] = place]
        /\ local' = [local EXCEPT ![t] = r]
        /\ HasValues(r)
        /\ place = "idle" => stays
        /\ place = "refreshed" => menu' # <<>> /\ r.values.model = menu'[1]
  BY <1>6
<1>8. \A u \in Threads : local'[u] = IF u = t THEN r ELSE local[u]
  BY <1>7 DEF MenuInv
<1>9. local' = [u \in Threads |-> local'[u]]
  BY <1>7 DEF MenuInv
<1>10. \A u \in Threads : pc'[u] = IF u = t THEN place ELSE pc[u]
  BY <1>7 DEF OnceInv
<1>11. \A u \in Threads : HasValues(local'[u])
  BY <1>7, <1>8 DEF MenuInv
<1>12. \A u \in Threads :
         pc'[u] = "refreshed" => menu' # <<>> /\ local'[u].values.model = menu'[1]
  BY <1>3, <1>7, <1>8, <1>10 DEF MenuInv
<1>13. ModelStaysOnMenu'
  BY <1>1, <1>7, <1>10 DEF ModelStaysOnMenu
<1> QED BY <1>1, <1>2, <1>4, <1>9, <1>11, <1>12, <1>13 DEF MenuInv

\* The refresh stores what it took.
LEMMA StoreRefreshedKeepsMenu ==
    ASSUME OnceInv, MenuInv, NEW t \in Threads, StoreRefreshed(t)
    PROVE  MenuInv'
<1> DEFINE record == [local[t] EXCEPT !.end = "returned", !.answer = "ok"]
<1>1. HasValues(local[t]) /\ UNCHANGED <<env, once, menu>> /\ pc[t] = "refreshed"
  BY DEF StoreRefreshed, MenuInv
<1>2. HasValues(record) /\ Store(t, record, local[t].values)
  BY <1>1 DEF StoreRefreshed, HasValues
<1>3. menu # <<>> => InMenu(local[t].values.model, menu)
  BY <1>1, MenuHasFirst DEF MenuInv
<1> HIDE DEF record
<1> QED BY <1>1, <1>2, <1>3, StoreKeepsMenu DEF HasValues

\* A creation resets the parameters before there is a menu.
LEMMA CreateKeepsMenu ==
    ASSUME OnceInv, MenuInv, NEW t \in Threads, Create(t)
    PROVE  MenuInv'
<1>1. once = t /\ once # Done /\ menu = <<>>
  BY EntryAssumption DEF Create, OnceInv, MenuInv
<1>2. UNCHANGED <<env, menu>> /\ current' \in {DefaultAeParams, current}
  BY DEF Create
<1>3. "model" \in DOMAIN current'
  BY <1>2, ValuesAreWhole DEF MenuInv
<1>4. HasValues(local[t])
  BY DEF MenuInv
<1>5. Goes(t, {"router"}) \/ Goes(t, {"idle"})
  <2>1. GoTo(t, "router", local[t]) \/ Throw(t)
    BY DEF Create
  <2> QED BY <1>4, <2>1, WaysOut
<1>6. PICK place \in {"router", "idle"} :
        \E r : pc' = [pc EXCEPT ![t] = place] /\ local' = [local EXCEPT ![t] = r] /\ HasValues(r)
  BY <1>5 DEF Goes
<1>7. PICK r : pc' = [pc EXCEPT ![t] = place] /\ local' = [local EXCEPT ![t] = r] /\ HasValues(r)
  BY <1>6
<1>8. \A u \in Threads : HasValues(local'[u])
  BY <1>7 DEF MenuInv
<1>9. local' = [u \in Threads |-> local'[u]]
  BY <1>7 DEF MenuInv
<1>10. \A u \in Threads : pc'[u] # "refreshed"
  BY <1>1, <1>7 DEF OnceInv, MenuInv
<1> QED BY <1>1, <1>2, <1>3, <1>8, <1>9, <1>10 DEF MenuInv, ModelStaysOnMenu

\* Once a refresh has filled the menu the current model is on it.
THEOREM CurrentModelStaysOnMenu == Spec => []ModelStaysOnMenu
<1>1. Init => OnceInv /\ MenuInv
  <2> SUFFICES ASSUME Init PROVE OnceInv /\ MenuInv
    OBVIOUS
  <2>1. OnceInv
    BY DEF Init, OnceInv, Places, Within, Together, Free, Done
  <2>2. \A t \in Threads : HasValues(local[t])
    BY DEF Init, Fresh, HasValues, DefaultAeParams
  <2> QED BY <2>1, <2>2 DEF Init, MenuInv, ModelStaysOnMenu, DefaultAeParams
<1>2. OnceInv /\ MenuInv /\ [Next]_vars => OnceInv' /\ MenuInv'
  <2> SUFFICES ASSUME OnceInv, MenuInv, [Next]_vars PROVE MenuInv'
    BY OnceInductive
  <2>1. CASE UNCHANGED vars
    BY <2>1 DEF vars, MenuInv, ModelStaysOnMenu, HasValues
  <2>2. ASSUME NEW t \in Threads, WaitOnce(t) PROVE MenuInv'
    <3>1. UNCHANGED <<env, menu, current>> /\ (menu # <<>> => once' = Done) /\ pc[t] = "once"
      BY <2>2 DEF WaitOnce, MenuInv, Free, Done
    <3>2. local' = local /\ HasValues(local[t]) /\ local = [u \in Threads |-> local[u]]
      BY <2>2 DEF WaitOnce, MenuInv
    <3>3. local' = [local EXCEPT ![t] = local[t]]
      BY <3>2
    <3>4. \E place \in {"router", "create"} : pc' = [pc EXCEPT ![t] = place]
      BY <2>2 DEF WaitOnce
    <3>5. LeavesRouter(t)
      BY <3>1, <3>2, <3>3, <3>4 DEF LeavesRouter, Places
    <3> QED BY <3>1, <3>5, LeavingRouterKeepsMenu
  <2>3. ASSUME NEW t \in Threads, Begin(t) \/ CallStep(t), ~WaitOnce(t) PROVE MenuInv'
    BY <2>3, OthersLeaveRouter, LeavingRouterKeepsMenu, UpdateKeepsMenu, RefreshKeepsMenu,
       StoreRefreshedKeepsMenu, CreateKeepsMenu DEF CallStep
  <2> QED BY <2>1, <2>2, <2>3 DEF Next, CallStep
<1>3. MenuInv => ModelStaysOnMenu
  BY DEF MenuInv
<1> QED BY <1>1, <1>2, <1>3, PTL DEF Spec

-----------------------------------------------------------------------------
(* Renderings.                                                             *)

Bridges == {"host_buffer", "gray"}

\* The parameters RenderUsesItsParams allows.
Allowed(t, c, r) == IF OfSdk(t) /\ AnyParamRead(c) THEN {TryExtractPfCmdParamValues(c)} ELSE r.seen

\* A call that goes on has drawn and answered nothing, and has seen the
\* current parameters.
Waiting(r, now) == r.answer = "none" /\ r.picture.what # "rendered" /\ now \in r.seen

\* A request has a source that fits its format, and the values of its table.
HostCall(t, place, c, r) ==
    /\ place # "enter" => c.kind \notin Bridges
    /\ r.request => IsConverted(c)
    /\ (place \notin {"idle", "enter"} /\ c.kind = "render" /\ AnyParamRead(c))
         => r.values = TryExtractPfCmdParamValues(c)
    /\ (place \in {"pipeline", "commit"} /\ r.request) => r.values \in Allowed(t, c, r)

\* Only the bridges draw, with a source that they have checked.
StubCall(place, c, r) ==
    /\ place \notin {"idle", "enter"} => c.kind \in {"stub", "set_model", "set_params"} \union Bridges
    /\ place \in {"update", "refreshed"} => c.kind \notin Bridges
    /\ place \in {"pipeline", "commit"} =>
         /\ c.kind \in Bridges
         /\ ValidateHostView(LegacySource(c), LegacyFormat(c))
         /\ r.values \in r.seen

\* What a call that is over has drawn.
Drawn(t, c, r, e) ==
    /\ r.picture.what = "rendered" =>
         /\ \E values \in Allowed(t, c, r) : r.picture.params = ToRenderParams(e, values)
         /\ c.kind # "gray" => /\ Fits(r.picture.format, c.source.width, c.source.row)
                               /\ Fits(r.picture.format, c.output.width, c.output.row)
    /\ c.kind \in Bridges => (r.answer = "ok" <=> r.picture.what = "rendered")

HasFields(r) == {"values", "request", "picture", "answer", "seen"} \subseteq DOMAIN r

Sound(t, place, c, r, now, e) ==
    /\ HasFields(r)
    /\ place # "idle" => Waiting(r, now)
    /\ OfSdk(t) => HostCall(t, place, c, r)
    /\ ~OfSdk(t) => StubCall(place, c, r)
    /\ place = "idle" => Drawn(t, c, r, e)

\* Every call is sound; parameters are stored only behind EnsureInitialized.
DrawInv ==
    /\ local = [t \in Threads |-> local[t]]
    /\ call = [t \in Threads |-> call[t]]
    /\ once # Done => current = DefaultAeParams
    /\ \A t \in Threads : Sound(t, pc[t], call[t], local[t], current, env)

\* A call goes to a place with a record that is sound there.
Proceeds(t) ==
    \E place \in Places : \E r :
      /\ pc' = [pc EXCEPT ![t] = place]
      /\ local' = [local EXCEPT ![t] = r]
      /\ Sound(t, place, call[t], r, current, env)

\* Such a step keeps the invariant when it leaves the parameters alone.
LEMMA ProceedingKeepsDraw ==
    ASSUME OnceInv, DrawInv, NEW t \in Threads, Proceeds(t),
           UNCHANGED <<env, current, call>>, once' # Done => current = DefaultAeParams
    PROVE  DrawInv'
<1>1. PICK place \in Places :
        \E r : /\ pc' = [pc EXCEPT ![t] = place] /\ local' = [local EXCEPT ![t] = r]
               /\ Sound(t, place, call[t], r, current, env)
  BY DEF Proceeds
<1>2. PICK r : /\ pc' = [pc EXCEPT ![t] = place] /\ local' = [local EXCEPT ![t] = r]
               /\ Sound(t, place, call[t], r, current, env)
  BY <1>1
<1>3. \A u \in Threads : /\ local'[u] = IF u = t THEN r ELSE local[u]
                         /\ pc'[u] = IF u = t THEN place ELSE pc[u]
  BY <1>2 DEF OnceInv, DrawInv
<1>4. \A u \in Threads : Sound(u, pc'[u], call[u], local'[u], current, env)
  BY <1>2, <1>3 DEF DrawInv
<1>5. local' = [u \in Threads |-> local'[u]] /\ call' = [u \in Threads |-> call'[u]]
  BY <1>2 DEF DrawInv
<1> QED BY <1>4, <1>5 DEF DrawInv, Sound

\* The pass-through never makes a rendering.
LEMMA PassThroughDrawsNothing ==
    ASSUME NEW c, NEW p, p.what # "rendered"
    PROVE  /\ PassThrough(c, p).what # "rendered"
           /\ RenderPassThrough(c, p).what # "rendered"
           /\ Handled(c, p).what # "rendered"
<1>1. Copy(c.source, c.output).what # "rendered"
  BY DEF Copy, Source, PartOfSource
<1>2. PassThrough(c, p).what # "rendered"
  BY <1>1 DEF PassThrough
<1>3. RenderPassThrough(c, p).what # "rendered"
  BY <1>2 DEF RenderPassThrough
<1> QED BY <1>2, <1>3 DEF Handled

\* An exception ends a call without a rendering.
LEMMA ThrowingProceeds ==
    ASSUME DrawInv, NEW t \in Threads, pc[t] # "idle", Throw(t),
           pc[t] # "enter" \/ ~OfSdk(t) \/ call[t].kind \notin Bridges
    PROVE  Proceeds(t)
<1> DEFINE r == [local[t] EXCEPT !.end = "threw",
                                 !.answer = IF OfSdk(t) THEN "none" ELSE "fail",
                                 !.picture = IF OfSdk(t) THEN Handled(call[t], @) ELSE @]
<1>1. pc' = [pc EXCEPT ![t] = "idle"] /\ local' = [local EXCEPT ![t] = r]
  BY DEF Throw, GoTo
<1>2. Sound(t, pc[t], call[t], local[t], current, env)
  BY DEF DrawInv
<1>3. /\ HasFields(r) /\ r.values = local[t].values /\ r.request = local[t].request
      /\ r.seen = local[t].seen /\ r.answer # "ok"
  BY <1>2 DEF Sound, HasFields
<1>4. r.picture.what # "rendered"
  <2>1. local[t].picture.what # "rendered"
    BY <1>2 DEF Sound, Waiting
  <2>2. r.picture = IF OfSdk(t) THEN Handled(call[t], local[t].picture) ELSE local[t].picture
    BY <1>2 DEF Sound, HasFields
  <2> HIDE DEF r
  <2> QED BY <2>1, <2>2, PassThroughDrawsNothing
<1> HIDE DEF r
<1>5. Sound(t, "idle", call[t], r, current, env)
  BY <1>2, <1>3, <1>4 DEF Sound, HostCall, StubCall, Drawn, Waiting
<1> QED BY <1>1, <1>5 DEF Proceeds, Places

\* So does a return that draws nothing, from a call that is no bridge or fails.
LEMMA ReturningProceeds ==
    ASSUME DrawInv, NEW t \in Threads, pc[t] # "idle",
           pc[t] # "enter" \/ ~OfSdk(t) \/ call[t].kind \notin Bridges,
           NEW ok \in BOOLEAN, Answer(t, ok), ok => call[t].kind \notin Bridges
    PROVE  Proceeds(t)
<1> DEFINE answer == IF OfSdk(t) THEN "none" ELSE IF ok THEN "ok" ELSE "fail"
           r == [[local[t] EXCEPT !.answer = answer] EXCEPT !.end = "returned"]
<1>1. pc' = [pc EXCEPT ![t] = "idle"] /\ local' = [local EXCEPT ![t] = r]
  BY DEF Answer, Return, GoTo
<1>2. Sound(t, pc[t], call[t], local[t], current, env)
  BY DEF DrawInv
<1>3. /\ HasFields(r) /\ r.values = local[t].values /\ r.request = local[t].request
      /\ r.seen = local[t].seen /\ r.answer = answer /\ r.picture = local[t].picture
  BY <1>2 DEF Sound, HasFields
<1> HIDE DEF r
<1>4. Sound(t, "idle", call[t], r, current, env)
  BY <1>2, <1>3 DEF Sound, HostCall, StubCall, Drawn, Waiting
<1> QED BY <1>1, <1>4 DEF Proceeds, Places

\* A new call has a fresh record.
LEMMA BeginKeepsDraw ==
    ASSUME OnceInv, DrawInv, NEW t \in Threads, Begin(t)
    PROVE  DrawInv'
<1>1. PICK c : call' = [call EXCEPT ![t] = c]
  BY DEF Begin
<1>2. /\ local' = [local EXCEPT ![t] = Fresh] /\ pc' = [pc EXCEPT ![t] = "enter"]
      /\ UNCHANGED <<env, once, current>>
  BY DEF Begin
<1>3. Sound(t, "enter", c, Fresh, current, env)
  <2>1. HasFields(Fresh)
    BY DEF HasFields, Fresh
  <2>2. Waiting(Fresh, current) /\ ~Fresh.request
    BY DEF Waiting, Fresh, Untouched
  <2> QED BY <2>1, <2>2 DEF Sound, HostCall, StubCall
<1>4. \A u \in Threads : /\ local'[u] = IF u = t THEN Fresh ELSE local[u]
                         /\ pc'[u] = IF u = t THEN "enter" ELSE pc[u]
                         /\ call'[u] = IF u = t THEN c ELSE call[u]
  BY <1>1, <1>2 DEF OnceInv, DrawInv
<1>5. \A u \in Threads : Sound(u, pc'[u], call'[u], local'[u], current, env)
  BY <1>3, <1>4 DEF DrawInv
<1>6. local' = [u \in Threads |-> local'[u]] /\ call' = [u \in Threads |-> call'[u]]
  BY <1>1, <1>2 DEF DrawInv
<1> QED BY <1>2, <1>5, <1>6 DEF DrawInv, Sound

\* The dispatch wires a render with a source that fits, or without a request.
LEMMA DispatchProceeds ==
    ASSUME DrawInv, NEW t \in Threads, BuildSdkDispatch(t)
    PROVE  Proceeds(t)
<1> DEFINE c == call[t]
           values == TryExtractPfCmdParamValues(c)
<1>1. Sound(t, "enter", c, local[t], current, env) /\ pc[t] = "enter" /\ OfSdk(t)
  BY DEF DrawInv, BuildSdkDispatch
<1>2. c.kind \notin Bridges
  BY DEF BuildSdkDispatch, Bridges
<1>3. \A r : GoTo(t, "once", r) /\ Sound(t, "once", c, r, current, env) => Proceeds(t)
  BY DEF GoTo, Proceeds, Places
<1>4. \A r : GoTo(t, "idle", r) /\ Sound(t, "idle", c, r, current, env) => Proceeds(t)
  BY DEF GoTo, Proceeds, Places
<1>5. CASE c.kind = "render" /\ WireRenderPayload(t)
  <2> DEFINE r == [local[t] EXCEPT !.values = values, !.request = IsConverted(c),
                                   !.picture = IF IsConverted(c) THEN @ ELSE PassThrough(c, @)]
  <2>1. /\ HasFields(r) /\ r.values = values /\ r.request = IsConverted(c)
        /\ r.seen = local[t].seen /\ r.answer = local[t].answer
        /\ r.picture = IF IsConverted(c) THEN local[t].picture ELSE PassThrough(c, local[t].picture)
    BY <1>1 DEF Sound, HasFields
  <2>2. GoTo(t, "once", r) \/ Throw(t)
    BY <1>5 DEF WireRenderPayload
  <2> HIDE DEF r
  <2>3. Waiting(r, current)
    BY <1>1, <2>1, PassThroughDrawsNothing DEF Sound, Waiting
  <2>4. Sound(t, "once", c, r, current, env)
    BY <1>1, <1>2, <2>1, <2>3 DEF Sound, HostCall
  <2> QED BY <1>1, <1>2, <1>3, <2>2, <2>4, ThrowingProceeds
<1>6. CASE c.kind = "changed" /\ WireParamUpdatePayload(t)
  <2>1. CASE Return(t, local[t])
    <3> DEFINE r == [local[t] EXCEPT !.end = "returned"]
    <3>1. /\ HasFields(r) /\ r.request = local[t].request
          /\ r.answer = local[t].answer /\ r.picture = local[t].picture
      BY <1>1 DEF Sound, HasFields
    <3>2. GoTo(t, "idle", r)
      BY <2>1 DEF Return
    <3> HIDE DEF r
    <3>3. Sound(t, "idle", c, r, current, env)
      BY <1>1, <1>2, <3>1 DEF Sound, HostCall, Drawn, Waiting
    <3> QED BY <1>4, <3>2, <3>3
  <2>2. CASE ~Return(t, local[t])
    <3> DEFINE r == [local[t] EXCEPT !.values = values, !.rerender = c.out # NoData]
    <3>1. /\ HasFields(r) /\ r.request = local[t].request /\ r.seen = local[t].seen
          /\ r.answer = local[t].answer /\ r.picture = local[t].picture
      BY <1>1 DEF Sound, HasFields
    <3>2. GoTo(t, "once", r)
      BY <1>6, <2>2 DEF WireParamUpdatePayload
    <3> HIDE DEF r
    <3>3. Sound(t, "once", c, r, current, env)
      BY <1>1, <1>2, <1>6, <3>1 DEF Sound, HostCall, Waiting
    <3> QED BY <1>3, <3>2, <3>3
  <2> QED BY <2>1, <2>2
<1>7. CASE c.kind = "params_setup" /\ WireParamSetupPayload(t)
  <2>1. PICK setup : Return(t, [local[t] EXCEPT !.setup = setup])
    BY <1>7 DEF WireParamSetupPayload
  <2> DEFINE r == [[local[t] EXCEPT !.setup = setup] EXCEPT !.end = "returned"]
  <2>2. /\ HasFields(r) /\ r.request = local[t].request
        /\ r.answer = local[t].answer /\ r.picture = local[t].picture
    BY <1>1 DEF Sound, HasFields
  <2>3. GoTo(t, "idle", r)
    BY <2>1 DEF Return
  <2> HIDE DEF r
  <2>4. Sound(t, "idle", c, r, current, env)
    BY <1>1, <1>2, <2>2 DEF Sound, HostCall, Drawn, Waiting
  <2> QED BY <1>4, <2>3, <2>4
<1>8. CASE c.kind = "global_setup" /\ WireGlobalSetupPayload(t)
  <2> DEFINE r == [[local[t] EXCEPT !.setup.flags = c.out # NoData] EXCEPT !.end = "returned"]
  <2>1. /\ HasFields(r) /\ r.request = local[t].request
        /\ r.answer = local[t].answer /\ r.picture = local[t].picture
    BY <1>1 DEF Sound, HasFields
  <2>2. GoTo(t, "idle", r)
    BY <1>8 DEF WireGlobalSetupPayload, Return
  <2> HIDE DEF r
  <2>3. Sound(t, "idle", c, r, current, env)
    BY <1>1, <1>2, <2>1 DEF Sound, HostCall, Drawn, Waiting
  <2> QED BY <1>4, <2>2, <2>3
<1>9. CASE c.kind = "about" /\ GoTo(t, "once", local[t])
  <2>1. Sound(t, "once", c, local[t], current, env)
    BY <1>1, <1>2, <1>9 DEF Sound, HostCall, Waiting
  <2> QED BY <1>3, <1>9, <2>1
<1>10. CASE c.kind = "sequence" /\ Return(t, local[t])
  <2> DEFINE r == [local[t] EXCEPT !.end = "returned"]
  <2>1. /\ HasFields(r) /\ r.request = local[t].request
        /\ r.answer = local[t].answer /\ r.picture = local[t].picture
    BY <1>1 DEF Sound, HasFields
  <2>2. GoTo(t, "idle", r)
    BY <1>10 DEF Return
  <2> HIDE DEF r
  <2>3. Sound(t, "idle", c, r, current, env)
    BY <1>1, <1>2, <2>1 DEF Sound, HostCall, Drawn, Waiting
  <2> QED BY <1>4, <2>2, <2>3
<1> QED BY <1>5, <1>6, <1>7, <1>8, <1>9, <1>10 DEF BuildSdkDispatch

\* The stubs enter with a call of theirs, or fail.
LEMMA EnteringProceeds ==
    ASSUME DrawInv, NEW t \in Threads, LegacyEnter(t)
    PROVE  Proceeds(t)
<1>1. Sound(t, "enter", call[t], local[t], current, env) /\ pc[t] = "enter" /\ ~OfSdk(t)
  BY DEF DrawInv, LegacyEnter
<1>2. CASE GoTo(t, "once", local[t]) /\ call[t].kind \in {"stub", "set_model", "set_params"} \union Bridges
  <2>1. Sound(t, "once", call[t], local[t], current, env)
    BY <1>1, <1>2 DEF Sound, StubCall
  <2> QED BY <1>2, <2>1 DEF GoTo, Proceeds, Places
<1>3. CASE Answer(t, FALSE)
  BY <1>1, <1>3, ReturningProceeds
<1>4. CASE Answer(t, TRUE) /\ call[t].kind = "set_freeze"
  BY <1>1, <1>4, ReturningProceeds DEF Bridges
<1> QED BY <1>2, <1>3, <1>4 DEF LegacyEnter, Bridges

\* The router's answers draw nothing, and only renders without a request pass.
LEMMA HandlingProceeds ==
    ASSUME DrawInv, NEW t \in Threads, HandleAtOnce(t)
    PROVE  Proceeds(t)
<1>1. Sound(t, "router", call[t], local[t], current, env) /\ pc[t] = "router"
  BY DEF DrawInv, HandleAtOnce
<1>2. CASE \E ok \in BOOLEAN : Answer(t, ok) /\ call[t].kind \in {"about", "stub"}
  BY <1>1, <1>2, ReturningProceeds DEF Bridges
<1>3. CASE call[t].kind = "render" /\ ~local[t].request /\ GoTo(t, "commit", local[t])
  <2>1. Sound(t, "commit", call[t], local[t], current, env)
    BY <1>1, <1>3 DEF Sound, HostCall, StubCall, Bridges
  <2> QED BY <1>3, <2>1 DEF GoTo, Proceeds, Places
<1>4. CASE call[t].kind = "about" /\ Answer(t, TRUE)
  BY <1>2, <1>4
<1>5. CASE call[t].kind = "stub" /\ Answer(t, call[t].id \in {StubCommands.about, StubCommands.render})
  <2> DEFINE ok == call[t].id \in {StubCommands.about, StubCommands.render}
  <2>1. ok \in BOOLEAN
    OBVIOUS
  <2> HIDE DEF ok
  <2>2. \E x \in BOOLEAN : Answer(t, x)
    BY <1>5, <2>1 DEF ok
  <2> QED BY <1>2, <1>5, <2>2
<1> QED BY <1>3, <1>4, <1>5 DEF HandleAtOnce

\* A stub's copy of the parameters waits to be sent back.
LEMMA ChangingProceeds ==
    ASSUME DrawInv, NEW t \in Threads, LegacyChange(t)
    PROVE  Proceeds(t)
<1>1. Sound(t, "router", call[t], local[t], current, env) /\ pc[t] = "router"
  BY DEF DrawInv, LegacyChange
<1>2. PICK values : GoTo(t, "update", [local[t] EXCEPT !.values = values])
  BY DEF LegacyChange
<1> DEFINE r == [local[t] EXCEPT !.values = values]
<1>3. /\ HasFields(r) /\ r.request = local[t].request /\ r.seen = local[t].seen
      /\ r.answer = local[t].answer /\ r.picture = local[t].picture
  BY <1>1 DEF Sound, HasFields
<1>4. GoTo(t, "update", r)
  BY <1>2
<1>5. call[t].kind \notin Bridges /\ call[t].kind # "render"
      /\ call[t].kind \in {"set_model", "set_params"}
  BY DEF LegacyChange, Bridges
<1> HIDE DEF r
<1>6. Sound(t, "update", call[t], r, current, env)
  BY <1>1, <1>3, <1>5 DEF Sound, HostCall, StubCall, Waiting
<1> QED BY <1>4, <1>6 DEF GoTo, Proceeds, Places

\* A refresh ends, or holds what it is to store.
LEMMA RefreshingProceeds ==
    ASSUME DrawInv, NEW t \in Threads, RefreshModelMenu(t)
    PROVE  Proceeds(t)
<1>1. Sound(t, "router", call[t], local[t], current, env) /\ pc[t] = "router"
  BY DEF DrawInv, RefreshModelMenu, Refreshes
<1>2. call[t].kind = "stub"
  BY DEF RefreshModelMenu, Refreshes
<1>3. CASE \E ok \in BOOLEAN : Answer(t, ok)
  BY <1>1, <1>2, <1>3, ReturningProceeds DEF Bridges
<1>4. CASE ~\E ok \in BOOLEAN : Answer(t, ok)
  <2>1. PICK values : GoTo(t, "refreshed", [local[t] EXCEPT !.values = values])
    BY <1>4 DEF RefreshModelMenu
  <2> DEFINE r == [local[t] EXCEPT !.values = values]
  <2>2. /\ HasFields(r) /\ r.request = local[t].request /\ r.seen = local[t].seen
        /\ r.answer = local[t].answer /\ r.picture = local[t].picture
    BY <1>1 DEF Sound, HasFields
  <2>3. GoTo(t, "refreshed", r)
    BY <2>1
  <2> HIDE DEF r
  <2>4. Sound(t, "refreshed", call[t], r, current, env)
    BY <1>1, <1>2, <2>2 DEF Sound, HostCall, StubCall, Waiting, Bridges
  <2> QED BY <2>3, <2>4 DEF GoTo, Proceeds, Places
<1> QED BY <1>3, <1>4

\* A rendering takes the values of its payload, or those the router has.
LEMMA TakingProceeds ==
    ASSUME DrawInv, NEW t \in Threads, TakeParams(t)
    PROVE  Proceeds(t)
<1> DEFINE c == call[t]
           r == [local[t] EXCEPT !.values = ParamsOf(t)]
<1>1. Sound(t, "router", c, local[t], current, env) /\ pc[t] = "router"
  BY DEF DrawInv, TakeParams
<1>2. GoTo(t, "pipeline", r)
  BY DEF TakeParams
<1>3. /\ HasFields(r) /\ r.request = local[t].request /\ r.seen = local[t].seen
      /\ r.answer = local[t].answer /\ r.picture = local[t].picture /\ r.values = ParamsOf(t)
  BY <1>1 DEF Sound, HasFields
<1>4. \/ c.kind = "render"
      \/ c.kind \in Bridges /\ ValidateHostView(LegacySource(c), LegacyFormat(c))
  BY DEF TakeParams, Bridges
<1> HIDE DEF r
<1>5. ASSUME OfSdk(t) PROVE HostCall(t, "pipeline", c, r)
  <2>1. c.kind = "render" /\ HostCall(t, "router", c, local[t]) /\ current \in local[t].seen
    BY <1>1, <1>4, <1>5 DEF Sound, HostCall, Waiting
  <2>2. AnyParamRead(c) => r.values = TryExtractPfCmdParamValues(c)
    BY <1>3, <2>1 DEF HostCall, ParamsOf
  <2>3. ~AnyParamRead(c) => r.values \in r.seen
    BY <1>3, <2>1 DEF ParamsOf
  <2>4. r.values \in Allowed(t, c, r)
    BY <1>5, <2>2, <2>3 DEF Allowed
  <2>5. c.kind \notin Bridges /\ (r.request => IsConverted(c))
    BY <1>3, <2>1 DEF HostCall
  <2> QED BY <2>2, <2>4, <2>5 DEF HostCall
<1>6. ASSUME ~OfSdk(t) PROVE StubCall("pipeline", c, r)
  <2>1. StubCall("router", c, local[t]) /\ current \in local[t].seen
    BY <1>1, <1>6 DEF Sound, Waiting
  <2>2. c.kind # "render"
    BY <2>1 DEF StubCall, Bridges
  <2> QED BY <1>3, <1>4, <2>1, <2>2 DEF StubCall, ParamsOf
<1>7. Sound(t, "pipeline", c, r, current, env)
  BY <1>1, <1>3, <1>5, <1>6 DEF Sound, Waiting
<1> QED BY <1>2, <1>7 DEF GoTo, Proceeds, Places

\* A bridge whose source cannot be read ends without a rendering.
LEMMA FailingProceeds ==
    ASSUME DrawInv, NEW t \in Threads, LegacyConversionFails(t)
    PROVE  Proceeds(t)
<1>1. pc[t] = "router" /\ (Answer(t, FALSE) \/ Throw(t))
  BY DEF LegacyConversionFails
<1> QED BY <1>1, ReturningProceeds, ThrowingProceeds

\* The pipeline returns, throws or faults.
LEMMA RunningProceeds ==
    ASSUME DrawInv, NEW t \in Threads, RunPipeline(t)
    PROVE  Proceeds(t)
<1> DEFINE r == [local[t] EXCEPT !.end = "faulted"]
<1>1. Sound(t, "pipeline", call[t], local[t], current, env) /\ pc[t] = "pipeline"
  BY DEF DrawInv, RunPipeline
<1>2. CASE GoTo(t, "commit", local[t])
  <2>1. Sound(t, "commit", call[t], local[t], current, env)
    BY <1>1 DEF Sound, HostCall, StubCall
  <2> QED BY <1>2, <2>1 DEF GoTo, Proceeds, Places
<1>3. CASE Throw(t)
  BY <1>1, <1>3, ThrowingProceeds
<1>4. CASE OfSdk(t) /\ GoTo(t, "idle", r)
  <2>1. /\ HasFields(r) /\ r.request = local[t].request
        /\ r.answer = local[t].answer /\ r.picture = local[t].picture
    BY <1>1 DEF Sound, HasFields
  <2> HIDE DEF r
  <2>2. Sound(t, "idle", call[t], r, current, env)
    BY <1>1, <1>4, <2>1 DEF Sound, HostCall, Drawn, Waiting
  <2> QED BY <1>4, <2>2 DEF GoTo, Proceeds, Places
<1> QED BY <1>2, <1>3, <1>4 DEF RunPipeline

\* What the host finds is drawn inside the rows that were checked.
LEMMA CommittingProceeds ==
    ASSUME DrawInv, NEW t \in Threads, CommitSdkRenderOutput(t)
    PROVE  Proceeds(t)
<1> DEFINE c == call[t]
           written == local[t].request /\ ValidateHostView(c.output, FormatOf(c))
           picture == IF written THEN Rendered(ToRenderParams(env, local[t].values), FormatOf(c))
                                 ELSE RenderPassThrough(c, local[t].picture)
           r == [[local[t] EXCEPT !.picture = picture] EXCEPT !.end = "returned"]
<1>1. Sound(t, "commit", c, local[t], current, env) /\ pc[t] = "commit" /\ OfSdk(t)
  BY DEF DrawInv, CommitSdkRenderOutput
<1>2. GoTo(t, "idle", r)
  BY DEF CommitSdkRenderOutput, Return
<1>3. /\ HasFields(r) /\ r.request = local[t].request /\ r.seen = local[t].seen
      /\ r.answer = local[t].answer /\ r.picture = picture
  BY <1>1 DEF Sound, HasFields
<1>4. HostCall(t, "commit", c, local[t]) /\ Waiting(local[t], current)
  BY <1>1 DEF Sound
<1>5. CASE written
  <2>1. picture.params = ToRenderParams(env, local[t].values) /\ picture.format = FormatOf(c)
    BY <1>5 DEF Rendered
  <2>2. local[t].values \in Allowed(t, c, local[t])
    BY <1>4, <1>5 DEF HostCall
  <2>3. Allowed(t, c, r) = Allowed(t, c, local[t])
    BY <1>3 DEF Allowed
  <2>4. Fits(FormatOf(c), c.source.width, c.source.row)
    BY <1>4, <1>5 DEF HostCall, IsConverted, ValidateHostView
  <2>5. Fits(FormatOf(c), c.output.width, c.output.row)
    BY <1>5 DEF ValidateHostView
  <2>6. c.kind \notin Bridges
    BY <1>4 DEF HostCall
  <2> HIDE DEF picture, r, written
  <2>7. Drawn(t, c, r, env)
    BY <1>3, <2>1, <2>2, <2>3, <2>4, <2>5, <2>6 DEF Drawn
  <2>8. HostCall(t, "idle", c, r)
    BY <1>3, <1>4 DEF HostCall
  <2>9. Sound(t, "idle", c, r, current, env)
    BY <1>1, <1>3, <2>7, <2>8 DEF Sound
  <2> QED BY <1>2, <2>9 DEF GoTo, Proceeds, Places
<1>6. CASE ~written
  <2>1. picture.what # "rendered"
    BY <1>4, <1>6, PassThroughDrawsNothing DEF Waiting
  <2> HIDE DEF picture, r, written
  <2>2. Sound(t, "idle", c, r, current, env)
    BY <1>1, <1>3, <1>4, <2>1 DEF Sound, HostCall, Drawn, Waiting
  <2> QED BY <1>2, <2>2 DEF GoTo, Proceeds, Places
<1> QED BY <1>5, <1>6

\* So is what a bridge draws, which answers 0 only then.
LEMMA BridgingProceeds ==
    ASSUME DrawInv, NEW t \in Threads, ExecuteHostBufferRenderBridge(t)
    PROVE  Proceeds(t)
<1> DEFINE c == call[t]
           written == ValidateHostView(LegacyOutput(c), LegacyFormat(c))
           answer == IF written THEN "ok" ELSE "fail"
           picture == IF written THEN Rendered(ToRenderParams(env, local[t].values), LegacyFormat(c))
                                 ELSE local[t].picture
           r == [[local[t] EXCEPT !.answer = answer, !.picture = picture] EXCEPT !.end = "returned"]
<1>1. Sound(t, "commit", c, local[t], current, env) /\ pc[t] = "commit" /\ ~OfSdk(t)
  BY DEF DrawInv, ExecuteHostBufferRenderBridge
<1>2. GoTo(t, "idle", r)
  BY DEF ExecuteHostBufferRenderBridge, Return
<1>3. /\ HasFields(r) /\ r.request = local[t].request /\ r.seen = local[t].seen
      /\ r.answer = answer /\ r.picture = picture
  BY <1>1 DEF Sound, HasFields
<1>4. StubCall("commit", c, local[t]) /\ Waiting(local[t], current)
  BY <1>1 DEF Sound
<1>5. picture.what = "rendered" <=> written
  BY <1>4 DEF Rendered, Waiting
<1>6. ASSUME written PROVE \E values \in Allowed(t, c, r) : picture.params = ToRenderParams(env, values)
  <2>1. local[t].values \in Allowed(t, c, r)
    BY <1>1, <1>3, <1>4 DEF StubCall, Allowed
  <2>2. picture.params = ToRenderParams(env, local[t].values)
    BY <1>6 DEF Rendered
  <2> HIDE DEF picture, r, written
  <2> QED BY <2>1, <2>2
<1>7. ASSUME written, c.kind # "gray"
      PROVE  /\ Fits(picture.format, c.source.width, c.source.row)
             /\ Fits(picture.format, c.output.width, c.output.row)
  <2>1. picture.format = LegacyFormat(c)
    BY <1>7 DEF Rendered
  <2>2. LegacySource(c) = c.source /\ LegacyOutput(c) = c.output
    BY <1>7 DEF LegacySource, LegacyOutput
  <2> QED BY <1>4, <1>7, <2>1, <2>2 DEF StubCall, ValidateHostView
<1>8. answer = "ok" <=> written
  OBVIOUS
<1> HIDE DEF picture, r, written, answer
<1>9. Drawn(t, c, r, env)
  BY <1>3, <1>5, <1>6, <1>7, <1>8 DEF Drawn
<1>10. Sound(t, "idle", c, r, current, env)
  BY <1>1, <1>3, <1>9 DEF Sound, StubCall
<1> QED BY <1>2, <1>10 DEF GoTo, Proceeds, Places

\* Storing parameters ends a call that draws nothing, and is seen by the others.
LEMMA StoringKeepsDraw ==
    ASSUME OnceInv, DrawInv, NEW t \in Threads, NEW r, NEW values,
           pc[t] \in Within, Store(t, r, values), UNCHANGED <<env, once, call>>,
           Sound(t, "idle", call[t], r, current, env), r.picture.what # "rendered"
    PROVE  DrawInv'
<1>1. once = Done
  BY DEF OnceInv
<1>2. pc' = [pc EXCEPT ![t] = "idle"] /\ current' = values
  BY DEF Store
<1> DEFINE next(u) == LET q == IF u = t THEN r ELSE local[u]
                      IN  [q EXCEPT !.seen = IF pc[u] = "idle" THEN @ ELSE @ \union {values}]
<1>3. local' = [u \in Threads |-> next(u)]
  BY DEF Store
<1>4. \A u \in Threads : local'[u] = next(u)
  BY <1>3
<1>5. \A u \in Threads : Sound(u, pc'[u], call[u], local'[u], values, env)
  <2> SUFFICES ASSUME NEW u \in Threads PROVE Sound(u, pc'[u], call[u], local'[u], values, env)
    OBVIOUS
  <2> DEFINE q == IF u = t THEN r ELSE local[u]
             place == IF u = t THEN "idle" ELSE pc[u]
             seen == IF pc[u] = "idle" THEN q.seen ELSE q.seen \union {values}
             p == [q EXCEPT !.seen = seen]
  <2>1. Sound(u, place, call[u], q, current, env)
    BY DEF DrawInv
  <2>2. HasFields(q)
    BY <2>1 DEF Sound
  <2>3. local'[u] = p
    BY <1>4
  <2>4. pc'[u] = place
    BY <1>2 DEF OnceInv
  <2>5. /\ HasFields(p) /\ p.values = q.values /\ p.request = q.request
        /\ p.picture = q.picture /\ p.answer = q.answer /\ p.seen = seen
    BY <2>2 DEF HasFields
  <2>6. q.seen \subseteq seen /\ (place # "idle" => values \in seen)
    OBVIOUS
  <2>7. CASE u = t
    <3>1. place = "idle" /\ p.picture.what # "rendered" /\ q = r
      BY <2>5, <2>7
    <3> HIDE DEF q, place, seen, p
    <3>2. Sound(u, "idle", call[u], p, values, env)
      BY <2>1, <2>5, <3>1 DEF Sound, HostCall, StubCall, Drawn
    <3> QED BY <2>3, <2>4, <3>1, <3>2
  <2>8. CASE u # t /\ place = "idle"
    <3>1. seen = q.seen
      BY <2>8
    <3> HIDE DEF q, place, seen, p
    <3>2. Sound(u, "idle", call[u], p, values, env)
      BY <2>1, <2>5, <2>8, <3>1 DEF Sound, HostCall, StubCall, Drawn, Allowed
    <3> QED BY <2>3, <2>4, <2>8, <3>2
  <2>9. CASE place # "idle"
    <3> HIDE DEF q, place, seen, p
    <3>1. HostCall(u, place, call[u], q) => HostCall(u, place, call[u], p)
      BY <2>5, <2>6 DEF HostCall, Allowed
    <3>2. StubCall(place, call[u], q) => StubCall(place, call[u], p)
      BY <2>5, <2>6 DEF StubCall
    <3>3. Waiting(p, values)
      BY <2>1, <2>5, <2>6, <2>9 DEF Sound, Waiting
    <3>4. Sound(u, place, call[u], p, values, env)
      BY <2>1, <2>5, <2>9, <3>1, <3>2, <3>3 DEF Sound
    <3> QED BY <2>3, <2>4, <3>4
  <2> QED BY <2>7, <2>8, <2>9
<1>6. local' = [u \in Threads |-> local'[u]] /\ call' = [u \in Threads |-> call'[u]]
  BY <1>3 DEF DrawInv
<1> QED BY <1>1, <1>2, <1>5, <1>6 DEF DrawInv, Sound

\* An update is stored or refused.
LEMMA UpdateKeepsDraw ==
    ASSUME OnceInv, DrawInv, NEW t \in Threads, UpdateParams(t)
    PROVE  DrawInv'
<1>1. Sound(t, pc[t], call[t], local[t], current, env) /\ pc[t] \in {"router", "update"}
  BY DEF DrawInv, UpdateParams
<1>2. UNCHANGED <<env, once, call>> /\ (pc[t] = "router" => call[t].kind = "changed")
  BY DEF UpdateParams
<1>3. call[t].kind \notin Bridges
  BY <1>1, <1>2 DEF Sound, HostCall, StubCall, Bridges
<1>4. CASE Stored(local[t].values)
  <2> DEFINE r == [local[t] EXCEPT !.end = "returned",
                                   !.answer = IF OfSdk(t) THEN "none" ELSE "ok"]
  <2>1. Store(t, r, local[t].values)
    BY <1>4 DEF UpdateParams
  <2>2. /\ HasFields(r) /\ r.request = local[t].request /\ r.picture = local[t].picture
    BY <1>1 DEF Sound, HasFields
  <2> HIDE DEF r
  <2>3. Sound(t, "idle", call[t], r, current, env) /\ r.picture.what # "rendered"
    BY <1>1, <1>3, <2>2 DEF Sound, HostCall, StubCall, Drawn, Waiting
  <2> QED BY <1>1, <1>2, <2>1, <2>3, StoringKeepsDraw DEF Within
<1>5. CASE ~Stored(local[t].values)
  <2>1. Answer(t, FALSE) /\ current' = current
    BY <1>5 DEF UpdateParams
  <2>2. Proceeds(t)
    BY <1>1, <2>1, ReturningProceeds
  <2> QED BY <1>2, <2>1, <2>2, ProceedingKeepsDraw DEF DrawInv
<1> QED BY <1>4, <1>5

\* So is what a refresh holds.
LEMMA StoreRefreshedKeepsDraw ==
    ASSUME OnceInv, DrawInv, NEW t \in Threads, StoreRefreshed(t)
    PROVE  DrawInv'
<1> DEFINE r == [local[t] EXCEPT !.end = "returned", !.answer = "ok"]
<1>1. Sound(t, "refreshed", call[t], local[t], current, env) /\ pc[t] = "refreshed"
  BY DEF DrawInv, StoreRefreshed
<1>2. Store(t, r, local[t].values) /\ UNCHANGED <<env, once, call>>
  BY DEF StoreRefreshed
<1>3. call[t].kind \notin Bridges
  BY <1>1 DEF Sound, HostCall, StubCall
<1>4. HasFields(r) /\ r.request = local[t].request /\ r.picture = local[t].picture
  BY <1>1 DEF Sound, HasFields
<1> HIDE DEF r
<1>5. Sound(t, "idle", call[t], r, current, env) /\ r.picture.what # "rendered"
  BY <1>1, <1>3, <1>4 DEF Sound, HostCall, StubCall, Drawn, Waiting
<1> QED BY <1>1, <1>2, <1>5, StoringKeepsDraw DEF Within

\* The flag is looked at, and a creation resets parameters nobody has changed.
LEMMA InitialisingKeepsDraw ==
    ASSUME OnceInv, DrawInv, NEW t \in Threads, WaitOnce(t) \/ Create(t)
    PROVE  DrawInv'
<1>1. Sound(t, pc[t], call[t], local[t], current, env) /\ pc[t] \in {"once", "create"}
  BY DEF DrawInv, WaitOnce, Create
<1>2. Sound(t, "router", call[t], local[t], current, env)
      /\ Sound(t, "create", call[t], local[t], current, env)
  BY <1>1 DEF Sound, HostCall, StubCall
<1>3. CASE WaitOnce(t)
  <2>1. UNCHANGED <<env, current, call>> /\ (once' # Done => once # Done)
    BY <1>3 DEF WaitOnce, Free, Done
  <2>2. local' = [local EXCEPT ![t] = local[t]]
    BY <1>3 DEF WaitOnce, DrawInv
  <2>3. \E place \in {"router", "create"} : pc' = [pc EXCEPT ![t] = place]
    BY <1>3 DEF WaitOnce
  <2>4. Proceeds(t)
    BY <1>2, <2>2, <2>3 DEF Proceeds, Places
  <2> QED BY <2>1, <2>4, ProceedingKeepsDraw DEF DrawInv
<1>4. CASE Create(t)
  <2>1. once = t /\ once # Done /\ current = DefaultAeParams
    BY <1>4, EntryAssumption DEF Create, OnceInv, DrawInv
  <2>2. UNCHANGED <<env, current, call>>
    BY <1>4, <2>1 DEF Create
  <2>3. GoTo(t, "router", local[t]) \/ Throw(t)
    BY <1>4 DEF Create
  <2>4. Proceeds(t)
    BY <1>1, <1>2, <2>3, ThrowingProceeds DEF GoTo, Proceeds, Places
  <2> QED BY <2>1, <2>2, <2>4, ProceedingKeepsDraw
<1> QED BY <1>3, <1>4

\* The invariant of renderings is inductive beside that of the flag.
LEMMA DrawInvariant == Spec => [](OnceInv /\ DrawInv)
<1>1. Init => OnceInv /\ DrawInv
  <2> SUFFICES ASSUME Init PROVE OnceInv /\ DrawInv
    OBVIOUS
  <2>1. OnceInv
    BY DEF Init, OnceInv, Places, Within, Together, Free, Done
  <2>2. \A t \in Threads : pc[t] = "idle" /\ call[t] = NoCall /\ local[t] = Fresh
    BY DEF Init
  <2>3. HasFields(Fresh) /\ ~Fresh.request /\ Fresh.picture.what # "rendered"
    BY DEF HasFields, Fresh, Untouched
  <2>4. NoCall.kind \notin Bridges
    BY DEF NoCall, Bridges
  <2>5. \A t \in Threads : Sound(t, "idle", NoCall, Fresh, current, env)
    BY <2>3, <2>4 DEF Sound, HostCall, StubCall, Drawn
  <2>6. \A t \in Threads : Sound(t, pc[t], call[t], local[t], current, env)
    BY <2>2, <2>5
  <2>7. /\ local = [t \in Threads |-> local[t]] /\ call = [t \in Threads |-> call[t]]
        /\ current = DefaultAeParams
    BY DEF Init
  <2> QED BY <2>1, <2>6, <2>7 DEF DrawInv
<1>2. OnceInv /\ DrawInv /\ [Next]_vars => OnceInv' /\ DrawInv'
  <2> SUFFICES ASSUME OnceInv, DrawInv, [Next]_vars PROVE DrawInv'
    BY OnceInductive
  <2>1. CASE UNCHANGED vars
    BY <2>1 DEF vars, DrawInv, Sound
  <2>2. ASSUME NEW t \in Threads,
               \/ BuildSdkDispatch(t) \/ LegacyEnter(t) \/ LegacyChange(t) \/ HandleAtOnce(t)
               \/ TakeParams(t) \/ LegacyConversionFails(t) \/ RunPipeline(t)
               \/ CommitSdkRenderOutput(t) \/ ExecuteHostBufferRenderBridge(t)
        PROVE  DrawInv'
    <3>1. UNCHANGED shared
      BY <2>2 DEF BuildSdkDispatch, LegacyEnter, LegacyChange, HandleAtOnce, TakeParams,
                  LegacyConversionFails, RunPipeline, CommitSdkRenderOutput,
                  ExecuteHostBufferRenderBridge
    <3>2. Proceeds(t)
      BY <2>2, DispatchProceeds, EnteringProceeds, ChangingProceeds, HandlingProceeds,
         TakingProceeds, FailingProceeds, RunningProceeds, CommittingProceeds, BridgingProceeds
    <3> QED BY <3>1, <3>2, ProceedingKeepsDraw DEF shared, DrawInv
  <2>3. ASSUME NEW t \in Threads, RefreshModelMenu(t) PROVE DrawInv'
    <3>1. UNCHANGED <<env, once, current, call>>
      BY <2>3 DEF RefreshModelMenu
    <3> QED BY <2>3, <3>1, RefreshingProceeds, ProceedingKeepsDraw DEF DrawInv
  <2> QED BY <2>1, <2>2, <2>3, BeginKeepsDraw, InitialisingKeepsDraw, UpdateKeepsDraw,
             StoreRefreshedKeepsDraw DEF Next, CallStep
<1> QED BY <1>1, <1>2, PTL DEF Spec

\* No rendering reads or writes past a row of its layers, whatever format was
\* guessed from the host's rows or said by a caller of the stubs, and a bridge
\* answers 0 exactly when it has drawn.
THEOREM RenderingsStayInTheRow == Spec => []StaysInTheRow
<1>1. OnceInv /\ DrawInv => StaysInTheRow
  <2> SUFFICES ASSUME DrawInv, NEW t \in Threads, pc[t] = "idle"
               PROVE  /\ (local[t].picture.what = "rendered" /\ call[t].kind # "gray") =>
                           LET f == local[t].picture.format
                           IN  /\ Fits(f, call[t].source.width, call[t].source.row)
                               /\ Fits(f, call[t].output.width, call[t].output.row)
                      /\ call[t].kind \in {"host_buffer", "gray"} =>
                           (local[t].answer = "ok" <=> local[t].picture.what = "rendered")
    BY DEF StaysInTheRow
  <2>1. Drawn(t, call[t], local[t], env)
    BY DEF DrawInv, Sound
  <2> QED BY <2>1 DEF Drawn, Bridges
<1> QED BY <1>1, DrawInvariant, PTL

\* A rendering is made with the parameters of its payload, or with one whole
\* value the router has had since the call began, whatever other threads store.
THEOREM RenderingsUseTheirParams == Spec => []RenderUsesItsParams
<1>1. OnceInv /\ DrawInv => RenderUsesItsParams
  <2> SUFFICES ASSUME DrawInv, NEW t \in Threads, pc[t] = "idle",
                      local[t].picture.what = "rendered"
               PROVE  \E values \in Allowed(t, call[t], local[t]) :
                        local[t].picture.params = ToRenderParams(env, values)
    BY DEF RenderUsesItsParams, Allowed
  <2>1. Drawn(t, call[t], local[t], env)
    BY DEF DrawInv, Sound
  <2> QED BY <2>1 DEF Drawn
<1> QED BY <1>1, DrawInvariant, PTL

-----------------------------------------------------------------------------
(* How the calls of the host end.                                          *)

Setups == {"global_setup", "params_setup"}
Routed == {"render", "changed", "about"}

\* The layers can be copied into one another.
Copyable(c) == PassThrough(c, Untouched) # Untouched

\* What the host has of a render that did not fault, and in a guarded build did
\* not throw: a rendering in the format of the layers, or the source.
PictureEnds(c, r, e) ==
    (Copyable(c) /\ (r.end = "returned" \/ (r.end = "threw" /\ e.guarded)))
      => r.picture.what = "rendered" \/ r.picture = Copy(c.source, c.output)

\* What a setup with a place for the answer has told the host.
SetupEnds(c, r) ==
    c.out # NoData
      => r.setup.flags /\ (r.setup.params = SchemaCount <=> r.setup.registered = SchemaCount - 1)

Ends(c, r, e) ==
    /\ c.kind = "render" => PictureEnds(c, r, e)
    /\ c.kind \in Setups => SetupEnds(c, r)
    /\ r.picture.what = "rendered" => HasHostBuffers(c) /\ r.picture.format = FormatOf(c)

HasEnds(r) == {"values", "request", "picture", "answer", "end", "setup", "rerender"} \subseteq DOMAIN r

\* A call of the host on its way: a setup is answered at once, and what goes to
\* the router is none of the stubs' calls.
Follows(place, c, r, e) ==
    /\ HasEnds(r)
    /\ c.kind = "render" => {c.source, c.output} \subseteq Layers \union {NoLayer}
    /\ place \notin {"idle", "enter"} => c.kind \in Routed /\ place \notin {"update", "refreshed"}
    /\ place = "enter" => r.setup = NoSetup
    /\ place = "idle" => Ends(c, r, e)

EndInv == \A t \in HostThreads : Follows(pc[t], call[t], local[t], env)

\* A call of the host goes to a place with a record that follows there.
Advances(t) ==
    \E place \in Places : \E r :
      /\ pc' = [pc EXCEPT ![t] = place]
      /\ local' = [local EXCEPT ![t] = r]
      /\ Follows(place, call[t], r, env)

\* Such a step keeps the invariant.
LEMMA AdvancingKeepsEnds ==
    ASSUME OnceInv, DrawInv, EndInv, NEW t \in HostThreads, Advances(t), UNCHANGED <<env, call>>
    PROVE  EndInv'
<1>1. PICK place \in Places :
        \E r : /\ pc' = [pc EXCEPT ![t] = place] /\ local' = [local EXCEPT ![t] = r]
               /\ Follows(place, call[t], r, env)
  BY DEF Advances
<1>2. PICK r : /\ pc' = [pc EXCEPT ![t] = place] /\ local' = [local EXCEPT ![t] = r]
               /\ Follows(place, call[t], r, env)
  BY <1>1
<1>3. \A u \in HostThreads : /\ local'[u] = IF u = t THEN r ELSE local[u]
                             /\ pc'[u] = IF u = t THEN place ELSE pc[u]
  BY <1>2 DEF OnceInv, DrawInv, Threads
<1> QED BY <1>2, <1>3 DEF EndInv

\* A step of another thread that does not touch the records keeps it too.
LEMMA OtherThreadsKeepEnds ==
    ASSUME OnceInv, DrawInv, EndInv, NEW t \in LegacyThreads, UNCHANGED env,
           \E place : pc' = [pc EXCEPT ![t] = place],
           \E r : local' = [local EXCEPT ![t] = r],
           \E c : call' = [call EXCEPT ![t] = c]
    PROVE  EndInv'
<1>1. \A u \in HostThreads : u \in Threads /\ u # t
  BY EntryAssumption DEF Threads
<1>2. \A u \in HostThreads : pc'[u] = pc[u] /\ local'[u] = local[u] /\ call'[u] = call[u]
  BY <1>1 DEF OnceInv, DrawInv
<1> QED BY <1>2 DEF EndInv

\* The copy of the source does not depend on the picture before.
LEMMA CopyableIsCopied ==
    ASSUME NEW c, NEW p
    PROVE  /\ Copyable(c) => PassThrough(c, p) = Copy(c.source, c.output)
           /\ ~Copyable(c) => PassThrough(c, p) = p
<1>1. Copy(c.source, c.output) # Untouched
  BY DEF Copy, Source, PartOfSource, Untouched
<1> QED BY <1>1 DEF Copyable, PassThrough

\* A call that is neither a render nor a setup ends as it has to when it has
\* drawn nothing.
LEMMA OtherCallsEnd ==
    ASSUME NEW c, NEW r, NEW e, c.kind \notin Setups \union {"render"}, HasEnds(r),
           r.picture.what # "rendered"
    PROVE  Follows("idle", c, r, e)
BY DEF Follows, Ends

\* A record that goes on is followed wherever a call of its kind goes.
LEMMA GoingOnFollows ==
    ASSUME NEW t \in HostThreads, NEW r, NEW place \in {"once", "create", "router", "pipeline", "commit"},
           Follows(pc[t], call[t], local[t], env), call[t].kind \in Routed, HasEnds(r)
    PROVE  Follows(place, call[t], r, env)
BY DEF Follows

\* An exception ends a call of the host as it has to.
LEMMA ThrowingAdvances ==
    ASSUME NEW t \in HostThreads, pc[t] # "idle", call[t].kind \notin Setups,
           Sound(t, pc[t], call[t], local[t], current, env),
           Follows(pc[t], call[t], local[t], env), Throw(t)
    PROVE  Advances(t)
<1> DEFINE c == call[t]
           r == [local[t] EXCEPT !.end = "threw",
                                 !.answer = IF OfSdk(t) THEN "none" ELSE "fail",
                                 !.picture = IF OfSdk(t) THEN Handled(call[t], @) ELSE @]
<1>1. pc' = [pc EXCEPT ![t] = "idle"] /\ local' = [local EXCEPT ![t] = r]
  BY DEF Throw, GoTo
<1>2. HasEnds(r) /\ r.end = "threw" /\ r.picture = Handled(c, local[t].picture)
  BY DEF Follows, HasEnds, OfSdk
<1> HIDE DEF r
<1>3. r.picture.what # "rendered"
  BY <1>2, PassThroughDrawsNothing DEF Sound, Waiting
<1>4. (c.kind = "render" /\ Copyable(c) /\ env.guarded) => r.picture = Copy(c.source, c.output)
  BY <1>2, CopyableIsCopied DEF Handled, RenderPassThrough
<1>5. Follows("idle", c, r, env)
  BY <1>2, <1>3, <1>4 DEF Follows, Ends, PictureEnds
<1> QED BY <1>1, <1>5 DEF Advances, Places

\* So does a plain answer, of a call that is neither a render nor a setup.
LEMMA AnsweringAdvances ==
    ASSUME NEW t \in HostThreads, pc[t] # "idle", call[t].kind \notin Setups \union {"render"},
           Sound(t, pc[t], call[t], local[t], current, env),
           Follows(pc[t], call[t], local[t], env), NEW ok, Answer(t, ok)
    PROVE  Advances(t)
<1> DEFINE answer == IF OfSdk(t) THEN "none" ELSE IF ok THEN "ok" ELSE "fail"
           r == [[local[t] EXCEPT !.answer = answer] EXCEPT !.end = "returned"]
<1>1. pc' = [pc EXCEPT ![t] = "idle"] /\ local' = [local EXCEPT ![t] = r]
  BY DEF Answer, Return, GoTo
<1>2. HasEnds(r) /\ r.picture = local[t].picture
  BY DEF Follows, HasEnds
<1> HIDE DEF r
<1>3. Follows("idle", call[t], r, env)
  BY <1>2, OtherCallsEnd DEF Sound, Waiting
<1> QED BY <1>1, <1>3 DEF Advances, Places

\* A new call has told nothing yet.
LEMMA BeginKeepsEnds ==
    ASSUME OnceInv, DrawInv, EndInv, env \in Environments, NEW t \in Threads, Begin(t)
    PROVE  EndInv'
<1>1. PICK c \in (IF OfSdk(t) THEN SdkCalls[env] ELSE LegacyCalls[env]) : call' = [call EXCEPT ![t] = c]
  BY DEF Begin
<1>2. /\ local' = [local EXCEPT ![t] = Fresh] /\ pc' = [pc EXCEPT ![t] = "enter"]
      /\ UNCHANGED env
  BY DEF Begin
<1>3. CASE t \in HostThreads
  <2>1. c.kind = "render" => {c.source, c.output} \subseteq Layers \union {NoLayer}
    BY <1>1, <1>3, LayerAssumption DEF OfSdk
  <2>2. Follows("enter", c, Fresh, env)
    BY <2>1 DEF Follows, HasEnds, Fresh, Setups
  <2>3. \A u \in HostThreads : /\ local'[u] = IF u = t THEN Fresh ELSE local[u]
                               /\ pc'[u] = IF u = t THEN "enter" ELSE pc[u]
                               /\ call'[u] = IF u = t THEN c ELSE call[u]
    BY <1>1, <1>2 DEF OnceInv, DrawInv, Threads
  <2> QED BY <1>2, <2>2, <2>3 DEF EndInv
<1>4. CASE t \in LegacyThreads
  BY <1>1, <1>2, <1>4, OtherThreadsKeepEnds
<1> QED BY <1>3, <1>4 DEF Threads

\* The dispatch answers a setup, and passes a render on with the source in its
\* output when the router gets no request.
LEMMA DispatchAdvances ==
    ASSUME NEW t \in HostThreads, BuildSdkDispatch(t),
           Sound(t, pc[t], call[t], local[t], current, env),
           Follows(pc[t], call[t], local[t], env)
    PROVE  Advances(t)
<1> DEFINE c == call[t]
           values == TryExtractPfCmdParamValues(c)
<1>1. pc[t] = "enter" /\ HasEnds(local[t]) /\ local[t].setup = NoSetup
      /\ local[t].picture.what # "rendered"
  BY DEF BuildSdkDispatch, Follows, Sound, Waiting
<1>2. \A r : GoTo(t, "once", r) /\ HasEnds(r) /\ c.kind \in Routed => Advances(t)
  <2> SUFFICES ASSUME NEW r, GoTo(t, "once", r), HasEnds(r), c.kind \in Routed PROVE Advances(t)
    OBVIOUS
  <2>1. Follows("once", c, r, env)
    BY GoingOnFollows
  <2> QED BY <2>1 DEF GoTo, Advances, Places
<1>3. \A r : Return(t, r) /\ HasEnds(r) /\ r.picture.what # "rendered" /\ c.kind # "render"
             /\ (c.kind \in Setups => SetupEnds(c, r)) => Advances(t)
  <2> SUFFICES ASSUME NEW r, Return(t, r), HasEnds(r), r.picture.what # "rendered",
                      c.kind # "render", c.kind \in Setups => SetupEnds(c, r)
               PROVE  Advances(t)
    OBVIOUS
  <2> DEFINE d == [r EXCEPT !.end = "returned"]
  <2>1. GoTo(t, "idle", d)
    BY DEF Return
  <2>2. HasEnds(d) /\ d.picture = r.picture /\ d.setup = r.setup
    BY DEF HasEnds
  <2> HIDE DEF d
  <2>3. Follows("idle", c, d, env)
    BY <2>2 DEF Follows, Ends, SetupEnds
  <2> QED BY <2>1, <2>3 DEF GoTo, Advances, Places
<1>4. CASE c.kind = "render" /\ WireRenderPayload(t)
  <2> DEFINE r == [local[t] EXCEPT !.values = values, !.request = IsConverted(c),
                                   !.picture = IF IsConverted(c) THEN @ ELSE PassThrough(c, @)]
  <2>1. HasEnds(r)
    BY <1>1 DEF HasEnds
  <2>2. GoTo(t, "once", r) \/ Throw(t)
    BY <1>4 DEF WireRenderPayload
  <2>3. c.kind \in Routed \ Setups /\ pc[t] # "idle"
    BY <1>1, <1>4 DEF Setups, Routed
  <2> HIDE DEF r
  <2> QED BY <1>2, <2>1, <2>2, <2>3, ThrowingAdvances
<1>5. CASE c.kind = "changed" /\ WireParamUpdatePayload(t)
  <2> DEFINE r == [local[t] EXCEPT !.values = values, !.rerender = c.out # NoData]
  <2>1. HasEnds(r)
    BY <1>1 DEF HasEnds
  <2>2. GoTo(t, "once", r) \/ Return(t, local[t])
    BY <1>5 DEF WireParamUpdatePayload
  <2> HIDE DEF r
  <2> QED BY <1>1, <1>2, <1>3, <1>5, <2>1, <2>2 DEF Setups, Routed
<1>6. CASE c.kind = "params_setup" /\ WireParamSetupPayload(t)
  <2>1. PICK registered \in (IF c.in = NoData \/ c.out = NoData THEN {0} ELSE {0, 3, SchemaCount - 1}) :
          Return(t, [local[t] EXCEPT !.setup = [flags |-> c.out # NoData,
                                                params |-> ParamsAnnounced(c, registered),
                                                registered |-> registered]])
    BY <1>6 DEF WireParamSetupPayload
  <2> DEFINE setup == [flags |-> c.out # NoData, params |-> ParamsAnnounced(c, registered),
                       registered |-> registered]
             r == [local[t] EXCEPT !.setup = setup]
  <2>2. HasEnds(r) /\ r.picture = local[t].picture /\ r.setup = setup
    BY <1>1 DEF HasEnds
  <2>3. Return(t, r)
    BY <2>1
  <2>4. SetupEnds(c, r)
    <3> SUFFICES ASSUME c.out # NoData
                 PROVE  ParamsAnnounced(c, registered) = SchemaCount <=> registered = SchemaCount - 1
      <4>1. /\ setup.flags <=> c.out # NoData
            /\ setup.params = ParamsAnnounced(c, registered) /\ setup.registered = registered
        OBVIOUS
      <4> HIDE DEF setup
      <4> QED BY <2>2, <4>1 DEF SetupEnds
    <3>1. CASE c.in = NoData
      <4>1. registered = 0 /\ ParamsAnnounced(c, registered) = 1
        BY <2>1, <3>1 DEF ParamsAnnounced, SchemaCount
      <4> QED BY <4>1 DEF SchemaCount
    <3>2. CASE c.in # NoData
      BY <3>2 DEF ParamsAnnounced, SchemaCount
    <3> QED BY <3>1, <3>2
  <2> HIDE DEF r, setup
  <2> QED BY <1>1, <1>3, <1>6, <2>2, <2>3, <2>4
<1>7. CASE c.kind = "global_setup" /\ WireGlobalSetupPayload(t)
  <2> DEFINE r == [local[t] EXCEPT !.setup.flags = c.out # NoData]
  <2>1. HasEnds(r) /\ r.picture = local[t].picture
        /\ r.setup = [NoSetup EXCEPT !.flags = c.out # NoData]
    BY <1>1 DEF HasEnds
  <2>2. Return(t, r)
    BY <1>7 DEF WireGlobalSetupPayload
  <2> HIDE DEF r
  <2>3. SetupEnds(c, r)
    <3> DEFINE setup == [NoSetup EXCEPT !.flags = c.out # NoData]
    <3>1. (c.out # NoData => setup.flags) /\ setup.params = 0 /\ setup.registered = 0
      BY DEF NoSetup
    <3> HIDE DEF setup
    <3> QED BY <2>1, <3>1 DEF SetupEnds, SchemaCount, setup
  <2> QED BY <1>1, <1>3, <1>7, <2>1, <2>2, <2>3
<1>8. CASE c.kind = "about" /\ GoTo(t, "once", local[t])
  BY <1>1, <1>2, <1>8 DEF Routed
<1>9. CASE c.kind = "sequence" /\ Return(t, local[t])
  BY <1>1, <1>3, <1>9 DEF Setups
<1> QED BY <1>4, <1>5, <1>6, <1>7, <1>8, <1>9 DEF BuildSdkDispatch

\* The commit leaves the rendering, in the format of the layers, or the source.
LEMMA CommittingAdvances ==
    ASSUME NEW t \in HostThreads, CommitSdkRenderOutput(t),
           Sound(t, pc[t], call[t], local[t], current, env),
           Follows(pc[t], call[t], local[t], env)
    PROVE  Advances(t)
<1> DEFINE c == call[t]
           written == local[t].request /\ ValidateHostView(c.output, FormatOf(c))
           picture == IF written THEN Rendered(ToRenderParams(env, local[t].values), FormatOf(c))
                                 ELSE RenderPassThrough(c, local[t].picture)
           r == [[local[t] EXCEPT !.picture = picture] EXCEPT !.end = "returned"]
<1>1. GoTo(t, "idle", r) /\ pc[t] = "commit"
  BY DEF CommitSdkRenderOutput, Return
<1>2. HasEnds(r) /\ r.picture = picture
  BY DEF Follows, HasEnds
<1>3. c.kind \notin Setups /\ local[t].picture.what # "rendered"
  BY <1>1 DEF Follows, Sound, Waiting, Setups, Routed
<1>4. CASE written
  <2>1. IsConverted(c)
    BY <1>4 DEF Sound, HostCall, OfSdk
  <2>2. picture.what = "rendered" /\ picture.format = FormatOf(c)
    BY <1>4 DEF Rendered
  <2> HIDE DEF picture, r, written
  <2>3. Follows("idle", c, r, env)
    BY <1>2, <1>3, <2>1, <2>2 DEF Follows, Ends, PictureEnds, IsConverted
  <2> QED BY <1>1, <2>3 DEF GoTo, Advances, Places
<1>5. CASE ~written
  <2>1. picture.what # "rendered"
    BY <1>3, <1>5, PassThroughDrawsNothing
  <2>2. (c.kind = "render" /\ Copyable(c)) => picture = Copy(c.source, c.output)
    BY <1>5, CopyableIsCopied DEF RenderPassThrough
  <2> HIDE DEF picture, r, written
  <2>3. Follows("idle", c, r, env)
    BY <1>2, <1>3, <2>1, <2>2 DEF Follows, Ends, PictureEnds
  <2> QED BY <1>1, <2>3 DEF GoTo, Advances, Places
<1> QED BY <1>4, <1>5

\* The other steps of a call of the host behind the dispatch.
LEMMA RoutingAdvances ==
    ASSUME NEW t \in HostThreads,
           Sound(t, pc[t], call[t], local[t], current, env),
           Follows(pc[t], call[t], local[t], env),
           \/ HandleAtOnce(t) \/ TakeParams(t) \/ LegacyConversionFails(t) \/ RunPipeline(t)
    PROVE  Advances(t)
<1>1. pc[t] \in {"router", "pipeline"} /\ HasEnds(local[t]) /\ call[t].kind \in Routed
  BY DEF Follows, HandleAtOnce, TakeParams, LegacyConversionFails, RunPipeline
<1>2. \A place \in {"pipeline", "commit"} : \A r : GoTo(t, place, r) /\ HasEnds(r) => Advances(t)
  <2> SUFFICES ASSUME NEW place \in {"pipeline", "commit"}, NEW r, GoTo(t, place, r), HasEnds(r)
               PROVE  Advances(t)
    OBVIOUS
  <2>1. Follows(place, call[t], r, env)
    BY <1>1, GoingOnFollows
  <2> QED BY <2>1 DEF GoTo, Advances, Places
<1>3. CASE HandleAtOnce(t)
  <2>1. CASE GoTo(t, "commit", local[t])
    BY <1>1, <1>2, <2>1
  <2>2. CASE (\E ok : Answer(t, ok)) /\ call[t].kind \in {"about", "stub"}
    BY <1>1, <2>2, AnsweringAdvances DEF Setups
  <2> QED BY <1>3, <2>1, <2>2 DEF HandleAtOnce
<1>4. CASE TakeParams(t)
  <2> DEFINE r == [local[t] EXCEPT !.values = ParamsOf(t)]
  <2>1. HasEnds(r) /\ GoTo(t, "pipeline", r)
    BY <1>1, <1>4 DEF HasEnds, TakeParams
  <2> HIDE DEF r
  <2> QED BY <1>2, <2>1
<1>5. CASE LegacyConversionFails(t)
  BY <1>1, <1>5 DEF LegacyConversionFails, Routed
<1>6. CASE RunPipeline(t)
  <2>1. CASE GoTo(t, "commit", local[t])
    BY <1>1, <1>2, <2>1
  <2>2. CASE Throw(t)
    BY <1>1, <2>2, ThrowingAdvances DEF Setups, Routed
  <2> DEFINE r == [local[t] EXCEPT !.end = "faulted"]
  <2>3. CASE GoTo(t, "idle", r)
    <3>1. HasEnds(r) /\ r.end = "faulted" /\ r.picture = local[t].picture
      BY <1>1 DEF HasEnds
    <3>2. GoTo(t, "idle", r)
      BY <2>3
    <3> HIDE DEF r
    <3>3. r.picture.what # "rendered"
      BY <1>1, <3>1 DEF Sound, Waiting
    <3>4. Follows("idle", call[t], r, env)
      BY <1>1, <3>1, <3>3 DEF Follows, Ends, PictureEnds, Setups, Routed
    <3> QED BY <3>2, <3>4 DEF GoTo, Advances, Places
  <2> QED BY <1>6, <2>1, <2>2, <2>3 DEF RunPipeline
<1> QED BY <1>3, <1>4, <1>5, <1>6

\* The flag is looked at or the singletons are made.
LEMMA InitialisingAdvances ==
    ASSUME DrawInv, NEW t \in HostThreads, WaitOnce(t) \/ Create(t),
           Sound(t, pc[t], call[t], local[t], current, env),
           Follows(pc[t], call[t], local[t], env)
    PROVE  Advances(t)
<1>1. pc[t] \in {"once", "create"} /\ HasEnds(local[t]) /\ call[t].kind \in Routed \ Setups
  BY DEF WaitOnce, Create, Follows, Setups, Routed
<1>2. \A place \in {"create", "router"} : Follows(place, call[t], local[t], env)
  BY <1>1, GoingOnFollows
<1>3. CASE WaitOnce(t)
  <2>1. local' = [local EXCEPT ![t] = local[t]]
    BY <1>3 DEF WaitOnce, DrawInv, Threads
  <2>2. \E place \in {"router", "create"} : pc' = [pc EXCEPT ![t] = place]
    BY <1>3 DEF WaitOnce
  <2> QED BY <1>2, <2>1, <2>2 DEF Advances, Places
<1>4. CASE Create(t)
  <2>1. GoTo(t, "router", local[t]) \/ Throw(t)
    BY <1>4 DEF Create
  <2>2. CASE GoTo(t, "router", local[t])
    BY <1>2, <2>2 DEF GoTo, Advances, Places
  <2> QED BY <1>1, <2>1, <2>2, ThrowingAdvances
<1> QED BY <1>3, <1>4

\* Storing parameters changes of the other records only what they have seen.
LEMMA StoringKeepsEnds ==
    ASSUME OnceInv, DrawInv, EndInv, NEW t \in Threads, NEW r, NEW values, UNCHANGED <<env, call>>,
           Store(t, r, values), t \in HostThreads => HasEnds(r) /\ Follows("idle", call[t], r, env)
    PROVE  EndInv'
<1> DEFINE next(u) == LET q == IF u = t THEN r ELSE local[u]
                      IN  [q EXCEPT !.seen = IF pc[u] = "idle" THEN @ ELSE @ \union {values}]
<1>1. local' = [u \in Threads |-> next(u)]
  BY DEF Store
<1>2. \A u \in Threads : local'[u] = next(u)
  BY <1>1
<1>3. \A u \in Threads : pc'[u] = IF u = t THEN "idle" ELSE pc[u]
  BY DEF Store, OnceInv
<1>4. ASSUME NEW u \in HostThreads PROVE Follows(pc'[u], call[u], local'[u], env)
  <2> DEFINE q == IF u = t THEN r ELSE local[u]
             seen == IF pc[u] = "idle" THEN q.seen ELSE q.seen \union {values}
             p == [q EXCEPT !.seen = seen]
  <2>1. HasEnds(q) /\ Follows(pc'[u], call[u], q, env)
    BY <1>3 DEF EndInv, Follows, Threads
  <2>2. local'[u] = p
    BY <1>2 DEF Threads
  <2>3. HasEnds(p) /\ p.picture = q.picture /\ p.end = q.end /\ p.setup = q.setup
    BY <2>1 DEF HasEnds
  <2> HIDE DEF q, seen, p
  <2> QED BY <2>1, <2>2, <2>3 DEF Follows, Ends, PictureEnds, SetupEnds
<1> QED BY <1>4 DEF EndInv

\* Parameters are stored by calls that are neither a render nor a setup.
LEMMA UpdatesKeepEnds ==
    ASSUME OnceInv, DrawInv, EndInv, NEW t \in Threads, UpdateParams(t) \/ StoreRefreshed(t)
    PROVE  EndInv'
<1>1. /\ UNCHANGED <<env, call>> /\ pc[t] \in {"router", "update", "refreshed"}
      /\ pc[t] = "router" => call[t].kind = "changed"
  BY DEF UpdateParams, StoreRefreshed
<1>2. Sound(t, pc[t], call[t], local[t], current, env)
  BY DEF DrawInv
<1>3. t \in HostThreads => /\ Follows(pc[t], call[t], local[t], env)
                           /\ call[t].kind \notin Setups \union {"render"}
  BY <1>1 DEF EndInv, Follows, Setups, Routed
<1>4. ASSUME NEW r, NEW values, Store(t, r, values), r.picture = local[t].picture,
             t \in HostThreads => HasEnds(r)
      PROVE  EndInv'
  <2>1. t \in HostThreads => Follows("idle", call[t], r, env)
    BY <1>1, <1>2, <1>3, <1>4, OtherCallsEnd DEF Sound, Waiting
  <2> QED BY <1>1, <1>4, <2>1, StoringKeepsEnds
<1>5. CASE UpdateParams(t) /\ Stored(local[t].values)
  <2> DEFINE r == [local[t] EXCEPT !.end = "returned",
                                   !.answer = IF OfSdk(t) THEN "none" ELSE "ok"]
  <2>1. Store(t, r, local[t].values)
    BY <1>5 DEF UpdateParams
  <2>2. r.picture = local[t].picture /\ (t \in HostThreads => HasEnds(r))
    BY <1>2, <1>3 DEF Sound, HasFields, Follows, HasEnds
  <2> HIDE DEF r
  <2> QED BY <1>4, <2>1, <2>2
<1>6. CASE UpdateParams(t) /\ ~Stored(local[t].values)
  <2>1. Answer(t, FALSE)
    BY <1>6 DEF UpdateParams
  <2>2. CASE t \in HostThreads
    <3>1. Advances(t)
      BY <1>1, <1>2, <1>3, <2>1, <2>2, AnsweringAdvances
    <3> QED BY <1>1, <2>2, <3>1, AdvancingKeepsEnds
  <2>3. CASE t \in LegacyThreads
    <3>1. call' = [call EXCEPT ![t] = call[t]]
      BY <1>1 DEF DrawInv
    <3> QED BY <1>1, <2>1, <2>3, <3>1, OtherThreadsKeepEnds DEF Answer, Return, GoTo
  <2> QED BY <2>2, <2>3 DEF Threads
<1>7. CASE StoreRefreshed(t)
  <2> DEFINE r == [local[t] EXCEPT !.end = "returned", !.answer = "ok"]
  <2>1. Store(t, r, local[t].values)
    BY <1>7 DEF StoreRefreshed
  <2>2. r.picture = local[t].picture /\ (t \in HostThreads => HasEnds(r))
    BY <1>2, <1>3 DEF Sound, HasFields, Follows, HasEnds
  <2> HIDE DEF r
  <2> QED BY <1>4, <2>1, <2>2
<1> QED BY <1>5, <1>6, <1>7

\* No step of a stub touches the record of a call of the host.
LEMMA StubsKeepEnds ==
    ASSUME OnceInv, DrawInv, EndInv, NEW t \in LegacyThreads, CallStep(t),
           ~UpdateParams(t), ~StoreRefreshed(t)
    PROVE  EndInv'
<1> USE DEF GoTo
<1>1. t \in Threads /\ UNCHANGED <<env, call>> /\ \E place : pc' = [pc EXCEPT ![t] = place]
  <2>1. UNCHANGED <<env, call>>
    BY DEF CallStep, shared, BuildSdkDispatch, LegacyEnter, WaitOnce, Create, LegacyChange,
           RefreshModelMenu, HandleAtOnce, TakeParams, LegacyConversionFails, RunPipeline,
           CommitSdkRenderOutput, ExecuteHostBufferRenderBridge
  <2>2. ~OfSdk(t)
    BY EntryAssumption DEF OfSdk
  <2>3. \E place : pc' = [pc EXCEPT ![t] = place]
    BY <2>2 DEF CallStep, Answer, Return, Throw, BuildSdkDispatch, LegacyEnter, WaitOnce, Create,
                LegacyChange, RefreshModelMenu, HandleAtOnce, TakeParams, LegacyConversionFails,
                RunPipeline, CommitSdkRenderOutput, ExecuteHostBufferRenderBridge
  <2> QED BY <2>1, <2>3 DEF Threads
<1>2. \E r : local' = [local EXCEPT ![t] = r]
  <2>1. CASE WaitOnce(t)
    <3>1. local' = [local EXCEPT ![t] = local[t]]
      BY <1>1, <2>1 DEF WaitOnce, DrawInv
    <3> QED BY <3>1
  <2>2. CASE ~WaitOnce(t)
    <3>1. ~OfSdk(t)
      BY EntryAssumption DEF OfSdk
    <3> QED BY <2>2, <3>1 DEF CallStep, Answer, Return, Throw, BuildSdkDispatch, LegacyEnter, Create,
                LegacyChange, RefreshModelMenu, HandleAtOnce, TakeParams, LegacyConversionFails,
                RunPipeline, CommitSdkRenderOutput, ExecuteHostBufferRenderBridge
  <2> QED BY <2>1, <2>2
<1>3. call' = [call EXCEPT ![t] = call[t]]
  BY <1>1 DEF DrawInv
<1> QED BY <1>1, <1>2, <1>3, OtherThreadsKeepEnds

\* The invariant of the ends is inductive beside the two others.
LEMMA EndInvariant == Spec => [](DrawInv /\ EndInv)
<1>1. Init => env \in Environments /\ EndInv
  <2> SUFFICES ASSUME Init PROVE EndInv
    BY DEF Init
  <2>1. \A t \in HostThreads : pc[t] = "idle" /\ call[t] = NoCall /\ local[t] = Fresh
    BY DEF Init, Threads
  <2>2. Follows("idle", NoCall, Fresh, env)
    BY DEF Follows, Ends, HasEnds, Fresh, NoCall, Untouched, Setups
  <2> QED BY <2>1, <2>2 DEF EndInv
<1>2. /\ OnceInv /\ DrawInv /\ EndInv /\ env \in Environments
      /\ [Next]_vars
      => EndInv' /\ (env \in Environments)'
  <2> SUFFICES ASSUME OnceInv, DrawInv, EndInv, env \in Environments, [Next]_vars
               PROVE  EndInv' /\ env' \in Environments
    OBVIOUS
  <2>1. CASE UNCHANGED vars
    BY <2>1 DEF vars, EndInv
  <2>2. ASSUME NEW t \in Threads, Begin(t) PROVE EndInv' /\ env' \in Environments
    BY <2>2, BeginKeepsEnds DEF Begin
  <2>3. ASSUME NEW t \in Threads, CallStep(t) PROVE EndInv' /\ env' \in Environments
    <3>1. UNCHANGED <<env, call>>
      BY <2>3 DEF CallStep, shared, BuildSdkDispatch, LegacyEnter, WaitOnce, Create, UpdateParams,
           LegacyChange, RefreshModelMenu, StoreRefreshed, HandleAtOnce, TakeParams,
           LegacyConversionFails, RunPipeline, CommitSdkRenderOutput, ExecuteHostBufferRenderBridge
    <3>2. CASE UpdateParams(t) \/ StoreRefreshed(t)
      BY <3>1, <3>2, UpdatesKeepEnds
    <3>3. CASE ~UpdateParams(t) /\ ~StoreRefreshed(t) /\ t \in LegacyThreads
      BY <2>3, <3>1, <3>3, StubsKeepEnds
    <3>4. CASE ~UpdateParams(t) /\ ~StoreRefreshed(t) /\ t \in HostThreads
      <4>1. Sound(t, pc[t], call[t], local[t], current, env) /\ Follows(pc[t], call[t], local[t], env)
        BY <3>4 DEF DrawInv, EndInv
      <4>2. ~LegacyEnter(t) /\ ~ExecuteHostBufferRenderBridge(t)
        BY <3>4 DEF LegacyEnter, ExecuteHostBufferRenderBridge, OfSdk
      <4>3. ~LegacyChange(t) /\ ~RefreshModelMenu(t)
        BY <4>1 DEF LegacyChange, RefreshModelMenu, Refreshes, Follows, Routed
      <4>4. Advances(t)
        BY <2>3, <3>4, <4>1, <4>2, <4>3, DispatchAdvances, InitialisingAdvances, RoutingAdvances,
           CommittingAdvances DEF CallStep
      <4> QED BY <3>1, <3>4, <4>4, AdvancingKeepsEnds
    <3> QED BY <3>2, <3>3, <3>4 DEF Threads
  <2> QED BY <2>1, <2>2, <2>3 DEF Next, vars
<1> QED BY <1>1, <1>2, DrawInvariant, PTL DEF Spec

\* When a render has both its layers, the host finds the rendering or the
\* source in the output: whatever could not be used, was refused or threw in a
\* guarded build.
THEOREM RendersLeaveAPicture == Spec => []RenderLeavesAPicture
<1>1. DrawInv /\ EndInv => RenderLeavesAPicture
  <2> SUFFICES ASSUME EndInv, NEW t \in HostThreads,
                      Over(t, "render"), PassThrough(call[t], Untouched) # Untouched,
                      local[t].end = "returned" \/ (local[t].end = "threw" /\ env.guarded)
               PROVE  \/ local[t].picture.what \in {"rendered", "source"}
                      \/ /\ local[t].picture.what = "part"
                         /\ Copy(call[t].source, call[t].output) = PartOfSource
    BY DEF RenderLeavesAPicture
  <2>1. PictureEnds(call[t], local[t], env)
    BY DEF EndInv, Follows, Ends, Over
  <2>2. local[t].picture.what = "rendered" \/ local[t].picture = Copy(call[t].source, call[t].output)
    BY <2>1 DEF PictureEnds, Copyable
  <2> QED BY <2>2 DEF Copy, Source, PartOfSource
<1> QED BY <1>1, EndInvariant, PTL

\* A setup with a place for the answer is answered, and announces all the
\* parameters exactly when all are registered.
THEOREM SetupsAreAnswered == Spec => []SetupIsAnswered
<1>1. DrawInv /\ EndInv => SetupIsAnswered
  <2> SUFFICES ASSUME EndInv, NEW t \in HostThreads, pc[t] = "idle",
                      call[t].kind \in Setups, call[t].out # NoData
               PROVE  /\ local[t].setup.flags
                      /\ local[t].setup.params = SchemaCount
                           <=> local[t].setup.registered = SchemaCount - 1
    BY DEF SetupIsAnswered, Setups
  <2>1. SetupEnds(call[t], local[t])
    BY DEF EndInv, Follows, Ends
  <2> QED BY <2>1 DEF SetupEnds
<1> QED BY <1>1, EndInvariant, PTL

\* A layer that tells its format gives its hint.
LEMMA HintTells ==
    ASSUME NEW l \in Layers, l.width > 0, TellsItsFormat(l)
    PROVE  HintOf(l, None) = l.format
<1>1. l.width \in Int /\ l.row \in Int /\ l.format \in Formats
  BY DEF Layers
<1>2. CASE l.hint # None
  <2>1. l.hint = l.format
    BY <1>2 DEF TellsItsFormat
  <2> QED BY <1>2, <2>1 DEF HintOf, SelectBestPixelFormatHint
<1>3. CASE l.hint = None
  <2>1. l.row = l.width * BytesPerPixel[l.format]
    BY <1>3 DEF TellsItsFormat
  <2>2. \A f \in Formats : l.row = l.width * BytesPerPixel[f] => f = l.format
    BY <1>1, <2>1 DEF Formats, BytesPerPixel
  <2>3. StrideHint(l.width, l.row) = l.format
    BY <1>1, <2>1, <2>2 DEF StrideHint
  <2>4. l.format # None
    BY <1>1, LayerAssumption
  <2> QED BY <1>3, <2>3, <2>4 DEF HintOf, SelectBestPixelFormatHint
<1> QED BY <1>2, <1>3

\* Layers that tell one format, and hold its pixels, are taken for what they are.
LEMMA SelectedIsTold ==
    ASSUME NEW s \in Layers, NEW o \in Layers, s.width > 0, s.width = o.width,
           s.format = o.format, TellsItsFormat(s), TellsItsFormat(o)
    PROVE  SelectedFormat(s, o, None) = s.format
<1> DEFINE row == IF s.row < o.row THEN s.row ELSE o.row
           candidates == Candidates(o.width, row)
<1>1. HintOf(s, None) = s.format /\ HintOf(o, None) = s.format
  BY HintTells
<1>2. s.format \in Formats /\ Fits(s.format, o.width, row) /\ o.width > 0
  BY DEF Layers, Fits
<1>3. s.format \in candidates
  BY <1>2 DEF Candidates
<1> HIDE DEF candidates, row
<1>4. SelectHostRenderPixelFormat(candidates, s.format, s.format) = s.format
  BY <1>3 DEF SelectHostRenderPixelFormat
<1> QED BY <1>1, <1>4 DEF SelectedFormat, candidates, row

\* Layers that tell their format are read and written as what they are, also
\* when padding makes their rows look like those of a deeper one.
THEOREM PicturesAreReadRight == Spec => []PictureIsReadRight
<1>1. DrawInv /\ EndInv => PictureIsReadRight
  <2> SUFFICES ASSUME EndInv, NEW t \in HostThreads,
                      Over(t, "render"), local[t].picture.what = "rendered",
                      call[t].source.format = call[t].output.format,
                      TellsItsFormat(call[t].source), TellsItsFormat(call[t].output)
               PROVE  local[t].picture.format = call[t].source.format
    BY DEF PictureIsReadRight
  <2> DEFINE c == call[t]
  <2>1. /\ HasHostBuffers(c) /\ local[t].picture.format = FormatOf(c)
        /\ {c.source, c.output} \subseteq Layers \union {NoLayer}
    BY DEF EndInv, Follows, Ends, Over
  <2>2. c.source \in Layers /\ c.output \in Layers /\ c.source.width > 0
        /\ c.source.width = c.output.width
    BY <2>1 DEF HasHostBuffers, IsValidLayer, SameSize
  <2> QED BY <2>1, <2>2, SelectedIsTold DEF FormatOf
<1> QED BY <1>1, EndInvariant, PTL

=============================================================================
