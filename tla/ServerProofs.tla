---------------------------- MODULE ServerProofs ----------------------------
(***************************************************************************)
(* Proofs about Server, for every number of calls, connections, keys and   *)
(* accounts: the calls run concurrently, while devices come and go and     *)
(* change the keys.                                                        *)
(***************************************************************************)
EXTENDS Server, TLAPS

-----------------------------------------------------------------------------
(* Types.                                                                  *)

KeyTable == [Key -> Row \cup {None}]

\* What the hub keeps.
HubTyped ==
    /\ proved \in [Conn -> SUBSET Account] /\ bound \subseteq Conn
    /\ ret \in [Call -> {"idle", "open", "offline", "timeout", "answered"}]
    /\ acct \in [Call -> Account \cup {None}]
    /\ offer \in [Call -> SUBSET Conn] /\ given \in [Call -> SUBSET Conn]
    /\ by \in [Call -> Conn \cup {None}]

Typed ==
    /\ rows \in KeyTable
    /\ seen \in [Call -> SUBSET Account]
    /\ HubTyped
    /\ ServerTypeOK

\* None is no row, no account and no resolved key.
LEMMA NoneIsNoValue == None \notin Row /\ None \notin Account /\ None \notin APIKey
BY StoreAssumption, ServerAssumption

\* The statements by which devices manage the keys keep the type of the table.
LEMMA KeyStepTyped == ASSUME rows \in KeyTable, KeyStep PROVE rows' \in KeyTable
<1>1. ASSUME NEW k \in Key, NEW a \in Account, NEW h \in Hash, RegisterAPIKey(k, a, h)
      PROVE  rows' \in KeyTable
  <2> DEFINE os == IF rows[k] = None THEN {} ELSE rows[k].origins
             row == [owner |-> a, hash |-> h, origins |-> os]
  <2>1. os \in SUBSET Origin
    BY DEF KeyTable, Row
  <2>2. rows' = rows \/ rows' = [rows EXCEPT ![k] = row]
    BY <1>1 DEF RegisterAPIKey
  <2> HIDE DEF os
  <2>3. row \in Row
    BY <2>1 DEF Row
  <2> QED BY <2>2, <2>3 DEF KeyTable
<1>2. ASSUME NEW k \in Key, NEW a, NEW row \in Row \cup {None}, IfOwned(k, a, row)
      PROVE  rows' \in KeyTable
  <2>1. rows' = rows \/ rows' = [rows EXCEPT ![k] = row]
    BY <1>2 DEF IfOwned
  <2> QED BY <2>1 DEF KeyTable
<1>3. ASSUME NEW k \in Key, NEW a \in Account, NEW b \in Account, RebindAPIKey(k, a, b)
      PROVE  rows' \in KeyTable
  <2>1. CASE rows[k] = None
    <3>1. rows' = rows
      BY <1>3, <2>1, Zenon DEF RebindAPIKey, IfOwned
    <3> QED BY <3>1
  <2>2. CASE rows[k] \in Row
    <3>1. [rows[k] EXCEPT !.owner = b] \in Row
      BY <2>2 DEF Row
    <3> QED BY <1>2, <1>3, <3>1 DEF RebindAPIKey
  <2> QED BY <2>1, <2>2 DEF KeyTable
<1>4. ASSUME NEW k \in Key, NEW a \in Account, RevokeAPIKey(a, k) PROVE rows' \in KeyTable
  BY <1>2, <1>4 DEF RevokeAPIKey
<1>5. ASSUME NEW k \in Key, NEW a \in Account, NEW os \in SUBSET Origin,
             UpdateKeyOrigins(k, a, os)
      PROVE  rows' \in KeyTable
  <2>1. CASE rows[k] = None
    <3>1. rows' = rows
      BY <1>5, <2>1, Zenon DEF UpdateKeyOrigins, IfOwned
    <3> QED BY <3>1
  <2>2. CASE rows[k] \in Row
    <3>1. [rows[k] EXCEPT !.origins = os] \in Row
      BY <2>2 DEF Row
    <3> QED BY <1>2, <1>5, <3>1 DEF UpdateKeyOrigins
  <2> QED BY <2>1, <2>2 DEF KeyTable
<1> QED BY <1>1, <1>3, <1>4, <1>5 DEF KeyStep

\* All steps but KeyStep leave the keys alone.
LEMMA NextRows == Typed /\ [ServerNext]_vars => rows' \in KeyTable
<1> SUFFICES ASSUME Typed, [ServerNext]_vars PROVE rows' \in KeyTable
  OBVIOUS
<1>1. CASE KeyStep
  BY <1>1, KeyStepTyped DEF Typed
<1>2. CASE rows' = rows
  BY <1>2 DEF Typed
<1> QED BY <1>1, <1>2 DEF ServerNext, HandlerStep, HubCall, Arrive, Cors, OriginAllowed, Fails,
        RejectMethod, AuthKey, ResolveAPIKey, Admit, Online, Send, WriteDevices, Await, HubStep,
        storeVars, vars

\* A secret stands for accounts.
LEMMA StandsType ==
    ASSUME NEW h, NEW table \in KeyTable
    PROVE  /\ Stands(h, table) \subseteq Account
           /\ \A k \in Key : table[k] # None /\ table[k].hash = h
                => table[k].owner \in Stands(h, table)
<1>1. \A k \in Key : table[k] # None => table[k] \in Row
  BY DEF KeyTable
<1>2. \A k \in Key : table[k] # None => table[k].owner \in Account
  BY <1>1 DEF Row
<1> QED BY <1>2 DEF Stands

\* Every step is observed.
LEMMA Observed ==
    ASSUME ServerNext PROVE Observe
BY DEF ServerNext, HandlerStep, HubCall, Arrive, Cors, RejectMethod, AuthKey, Admit, Online, Send,
   WriteDevices, Await, HubStep, KeyStep

\* The history of a call only grows, and stays a set of accounts.
LEMMA NextSeen ==
    ASSUME Typed, [ServerNext]_vars
    PROVE  /\ seen' \in [Call -> SUBSET Account]
           /\ \A x \in Call : seen[x] \subseteq seen'[x]
<1>1. CASE Observe
  <2>1. \A x \in Call : Stands(http'[x].secret, rows') \subseteq Account
    BY NextRows, StandsType
  <2>2. \A x \in Call :
          /\ seen'[x] \in SUBSET Account
          /\ seen[x] \subseteq seen'[x]
    BY <1>1, <2>1 DEF Observe, Typed
  <2>3. seen' = [x \in Call |-> seen'[x]]
    BY <1>1 DEF Observe
  <2> QED BY <2>2, <2>3
<1>2. CASE UNCHANGED vars
  BY <1>2 DEF vars, Typed
<1> QED BY <1>1, <1>2, Observed

\* The operations of the hub keep its types.
LEMMA RouterTypes ==
    ASSUME HubTyped
    PROVE  /\ \A x \in Call, a \in Account : H!Open(x, a) => HubTyped'
           /\ \A x \in Call, c \in Conn : H!Give(x, c) \/ H!Skip(x, c) => HubTyped'
           /\ \A x \in Call : H!Return(x) => HubTyped'
           /\ \A c \in Conn : H!BindConn(c) \/ H!UnbindConn(c) => HubTyped'
           /\ \A c \in Conn, S \in SUBSET Account : H!Prove(c, S) => HubTyped'
<1>1. ASSUME NEW x \in Call, NEW a \in Account, H!Open(x, a) PROVE HubTyped'
  <2>1. H!Serving(a) \subseteq Conn
    BY DEF HubTyped, H!Serving
  <2> QED BY <1>1, <2>1 DEF HubTyped, H!Open
<1>2. ASSUME NEW x \in Call, NEW c \in Conn, H!Give(x, c) PROVE HubTyped'
  BY <1>2 DEF HubTyped, H!Give
<1>3. ASSUME NEW x \in Call, NEW c \in Conn, H!Skip(x, c) PROVE HubTyped'
  BY <1>3 DEF HubTyped, H!Skip
<1>4. ASSUME NEW x \in Call, H!ReturnError(x) PROVE HubTyped'
  BY <1>4 DEF HubTyped, H!ReturnError
<1>5. ASSUME NEW x \in Call, NEW c \in Conn, H!ReturnAnswer(x, c) PROVE HubTyped'
  BY <1>5 DEF HubTyped, H!ReturnAnswer
<1>6. ASSUME NEW c \in Conn, H!BindConn(c) \/ H!UnbindConn(c) PROVE HubTyped'
  BY <1>6 DEF HubTyped, H!BindConn, H!UnbindConn
<1>7. ASSUME NEW c \in Conn, NEW S \in SUBSET Account, H!Prove(c, S) PROVE HubTyped'
  BY <1>7 DEF HubTyped, H!Prove
<1> QED BY <1>1, <1>2, <1>3, <1>4, <1>5, <1>6, <1>7 DEF H!Return

\* A call that goes on past authKey has a key.
LEMMA KeyOf ==
    ASSUME Typed, NEW x \in Call, at[x] \in {"admit", "online", "send", "wait"}
    PROVE  key[x] \in APIKey /\ key[x].owner \in Account
<1>1. key[x] \in APIKey
  BY DEF Typed, ServerTypeOK
<1> QED BY <1>1 DEF APIKey

\* Each step keeps the types of the hub.
LEMMA NextHubTyped == Typed /\ [ServerNext]_vars => HubTyped'
<1> SUFFICES ASSUME Typed, [ServerNext]_vars PROVE HubTyped'
  OBVIOUS
<1>0. HubTyped
  BY DEF Typed
<1>1. CASE UNCHANGED hubVars
  BY <1>0, <1>1 DEF hubVars, HubTyped
<1>2. ASSUME NEW x \in Call, Send(x) PROVE HubTyped'
  BY <1>0, <1>2, KeyOf, RouterTypes DEF Send
<1>3. ASSUME NEW x \in Call, WriteDevices(x) PROVE HubTyped'
  BY <1>0, <1>3, RouterTypes DEF WriteDevices
<1>4. ASSUME NEW x \in Call, Await(x) PROVE HubTyped'
  BY <1>0, <1>4, RouterTypes DEF Await
<1>5. CASE HubStep
  BY <1>0, <1>5, RouterTypes DEF HubStep
<1> QED BY <1>1, <1>2, <1>3, <1>4, <1>5 DEF ServerNext, HandlerStep, HubCall, Arrive, Cors, RejectMethod,
        AuthKey, Admit, Online, KeyStep, vars

Codes == {0, 200, 204, 400, 401, 403, 404, 405, 429, 502, 503, 504}
Places == {"idle", "cors", "auth", "admit", "online", "send", "wait", "done"}

\* A handler goes on or answers.
LEMMA HandlerMoves ==
    ASSUME ServerTypeOK, NEW x \in Call, UNCHANGED <<http, key>>,
           \/ \E pc \in Places : GoTo(x, pc) /\ (pc \in {"idle", "cors", "auth"} \/ key[x] # None)
           \/ \E code \in Codes : Respond(x, code)
    PROVE  ServerTypeOK'
BY DEF ServerTypeOK, GoTo, Respond, Places, Codes

\* Resolving a secret returns a key of the store.
LEMMA ResolvedKey ==
    ASSUME rows \in KeyTable, NEW h, ResolveAPIKey(h), reply'.err = "ok"
    PROVE  /\ reply'.val \in APIKey
           /\ reply'.val.owner \in Stands(h, rows)
<1>0. reply' # Reply("not found", None)
  <2>1. Reply("not found", None).err = "not found"
    BY DEF Reply
  <2> QED BY <2>1
<1>1. PICK k \in Key : /\ rows[k] # None /\ rows[k].hash = h
                       /\ reply' = Reply("ok", [id |-> k, owner |-> rows[k].owner,
                                                origins |-> rows[k].origins])
  BY <1>0, Zenon DEF ResolveAPIKey
<1>2. rows[k] \in Row
  BY <1>1 DEF KeyTable
<1>3. rows[k].owner \in Account /\ rows[k].origins \in SUBSET Origin
  BY <1>2 DEF Row
<1>4. reply'.val = [id |-> k, owner |-> rows[k].owner, origins |-> rows[k].origins]
  BY <1>1 DEF Reply
<1>5. rows[k].owner \in Stands(h, rows)
  BY <1>1, StandsType
<1>6. reply'.val.owner = rows[k].owner /\ reply'.val \in APIKey
  BY <1>3, <1>4 DEF APIKey
<1> QED BY <1>5, <1>6

\* What the handler makes of the hub's answer: a refusal means that nobody was
\* given the call.
LEMMA AwaitAnswers ==
    ASSUME Typed, NEW x \in Call, Await(x)
    PROVE  \E code \in {200, 404, 502, 503, 504} :
             Respond(x, code) /\ (code = 503 => given[x] = {})
<1>1. CASE ret'[x] = "offline"
  <2>1. given[x] = {}
    BY <1>1 DEF Await, H!Return, H!ReturnError, H!ReturnAnswer, Typed, HubTyped
  <2>2. Respond(x, 503)
    BY <1>1 DEF Await
  <2> QED BY <2>1, <2>2
<1>2. CASE ret'[x] = "timeout"
  BY <1>2 DEF Await
<1>3. CASE ret'[x] \notin {"offline", "timeout"}
  <2>1. PICK code \in Answered(x) : Respond(x, code)
    BY <1>3 DEF Await
  <2>2. code \in {200, 404, 502}
    BY DEF Answered
  <2> QED BY <2>1, <2>2
<1> QED BY <1>1, <1>2, <1>3

\* Each step keeps the types of the handlers.
LEMMA NextServerTypeOK == Typed /\ [ServerNext]_vars => ServerTypeOK'
<1> SUFFICES ASSUME Typed, [ServerNext]_vars PROVE ServerTypeOK'
  OBVIOUS
<1>0. ServerTypeOK
  BY DEF Typed
<1>1. CASE UNCHANGED handlerVars
  BY <1>0, <1>1 DEF handlerVars, ServerTypeOK
<1>2. ASSUME NEW x \in Call, NEW h \in HttpCall, Arrive(x, h) PROVE ServerTypeOK'
  BY <1>0, <1>2 DEF Arrive, GoTo, ServerTypeOK
<1>3. ASSUME NEW x \in Call, Cors(x) PROVE ServerTypeOK'
  <2>1. GoTo(x, "auth") \/ Respond(x, 204) \/ Respond(x, 403)
    BY <1>3 DEF Cors
  <2> QED BY <1>0, <1>3, <2>1, HandlerMoves DEF Cors, Codes, Places
<1>4. ASSUME NEW x \in Call, RejectMethod(x) PROVE ServerTypeOK'
  BY <1>0, <1>4, HandlerMoves DEF RejectMethod, Codes
<1>5. ASSUME NEW x \in Call, AuthKey(x) PROVE ServerTypeOK'
  <2>1. CASE Respond(x, 401) /\ UNCHANGED <<http, key>>
    BY <1>0, <2>1, HandlerMoves DEF Codes
  <2>2. CASE /\ reply'.err = "ok" /\ http' = http
             /\ key' = [key EXCEPT ![x] = reply'.val] /\ GoTo(x, "admit")
    <3>1. ResolveAPIKey(http[x].secret)
      BY <1>5, <2>2 DEF AuthKey, Fails, Reply
    <3>2. reply'.val \in APIKey
      BY <2>2, <3>1, ResolvedKey DEF Typed
    <3>3. reply'.val # None
      BY <3>2, NoneIsNoValue
    <3> QED BY <1>0, <2>2, <3>2, <3>3 DEF GoTo, ServerTypeOK
  <2> QED BY <1>5, <2>1, <2>2 DEF AuthKey
<1>6. ASSUME NEW x \in Call, Admit(x) PROVE ServerTypeOK'
  <2>1. Respond(x, 429) \/ Respond(x, 400) \/ GoTo(x, "online")
    BY <1>6 DEF Admit
  <2>2. key[x] # None /\ UNCHANGED <<http, key>>
    BY <1>0, <1>6 DEF Admit, ServerTypeOK
  <2> QED BY <1>0, <2>1, <2>2, HandlerMoves DEF Codes, Places
<1>7. ASSUME NEW x \in Call, Online(x) PROVE ServerTypeOK'
  <2>1. Respond(x, 200) \/ Respond(x, 503) \/ GoTo(x, "send")
    BY <1>7 DEF Online
  <2>2. key[x] # None /\ UNCHANGED <<http, key>>
    BY <1>0, <1>7 DEF Online, ServerTypeOK
  <2> QED BY <1>0, <2>1, <2>2, HandlerMoves DEF Codes, Places
<1>8. ASSUME NEW x \in Call, Send(x) PROVE ServerTypeOK'
  <2>1. Respond(x, 503) \/ GoTo(x, "wait")
    BY <1>8 DEF Send
  <2>2. key[x] # None /\ UNCHANGED <<http, key>>
    BY <1>0, <1>8 DEF Send, ServerTypeOK
  <2> QED BY <1>0, <2>1, <2>2, HandlerMoves DEF Codes, Places
<1>9. ASSUME NEW x \in Call, Await(x) PROVE ServerTypeOK'
  <2>1. \E code \in Codes : Respond(x, code)
    BY <1>9, AwaitAnswers DEF Codes
  <2> QED BY <1>0, <1>9, <2>1, HandlerMoves DEF Await
<1> QED BY <1>1, <1>2, <1>3, <1>4, <1>5, <1>6, <1>7, <1>8, <1>9 DEF ServerNext, HandlerStep, HubCall,
        WriteDevices, HubStep, KeyStep, vars, handlerVars

\* Every step keeps the types.
LEMMA NextTyped == Typed /\ [ServerNext]_vars => Typed'
BY NextRows, NextSeen, NextHubTyped, NextServerTypeOK DEF Typed

\* The relay starts without keys, connections and calls.
LEMMA InitTyped == ServerInit => Typed
BY DEF ServerInit, Init, H!Init, Call, Typed, KeyTable, HubTyped, ServerTypeOK

\* The handlers' variables keep the types of their Go values, and only a call
\* that authKey let through goes on to the hub.
THEOREM ServerTypes == ServerSpec => []ServerTypeOK
<1>1. Typed => ServerTypeOK
  BY DEF Typed
<1> QED BY <1>1, InitTyped, NextTyped, PTL DEF ServerSpec

-----------------------------------------------------------------------------
(* Who gets a call, and what the caller may conclude from its status.      *)

\* Before its call of the hub a handler has neither sent anything nor answered.
Stage ==
    \A x \in Call :
        /\ at[x] # "done" => status[x] = 0
        /\ at[x] \notin {"wait", "done"} => given[x] = {} /\ offer[x] = {} /\ by[x] = None

\* The connections that a call was or will be given to have proved the account
\* that the secret stood for when it was resolved.
Routed ==
    \A x \in Call :
        /\ at[x] \in {"admit", "online", "send", "wait"} => key[x].owner \in seen[x]
        /\ \A c \in offer[x] \cup given[x] :
             key[x] # None /\ key[x].owner \in proved[c] \cap seen[x]
        /\ by[x] # None => \E c \in given[x] : DeviceOf[c] = DeviceOf[by[x]]

\* A step of the hub that is about no call.
LEMMA HubStepFrame ==
    ASSUME Typed, HubStep
    PROVE  /\ UNCHANGED <<handlerVars, ret, offer, given, by>>
           /\ \A c \in Conn : proved[c] \subseteq proved'[c]
<1>1. UNCHANGED <<handlerVars, ret, offer, given, by>>
  BY DEF HubStep, H!BindConn, H!UnbindConn, H!Prove
<1>2. \/ proved' = proved
      \/ \E c \in Conn, S \in SUBSET Account : proved[c] = {} /\ proved' = [proved EXCEPT ![c] = S]
  BY DEF HubStep, H!BindConn, H!UnbindConn, H!Prove
<1>3. \A c \in Conn : proved[c] \subseteq proved'[c]
  BY <1>2 DEF Typed, HubTyped
<1> QED BY <1>1, <1>3

\* A step of one call leaves the others alone, in the handlers and in the hub.
LEMMA OtherCalls ==
    ASSUME Typed, NEW x \in Call, HandlerStep(x) \/ \E h \in HttpCall : Arrive(x, h),
           NEW y \in Call, y # x
    PROVE  /\ at'[y] = at[y] /\ key'[y] = key[y] /\ status'[y] = status[y]
           /\ offer'[y] = offer[y] /\ given'[y] = given[y] /\ by'[y] = by[y]
           /\ proved' = proved
<1>1. at'[y] = at[y] /\ key'[y] = key[y] /\ status'[y] = status[y]
  BY DEF HandlerStep, HubCall, Arrive, Cors, RejectMethod, AuthKey, Admit, Online, Send, WriteDevices,
     Await, GoTo, Respond, handlerVars, Typed, ServerTypeOK
<1>2. /\ offer'[y] = offer[y] /\ given'[y] = given[y] /\ by'[y] = by[y]
      /\ proved' = proved
  BY DEF HandlerStep, HubCall, Arrive, Cors, RejectMethod, AuthKey, Admit, Online, Send, WriteDevices,
     Await, hubVars, H!Open, H!Give, H!Skip, H!Return, H!ReturnError, H!ReturnAnswer, Typed,
     HubTyped
<1> QED BY <1>1, <1>2

\* What each step of a handler does to its own call.
LEMMA StepStage ==
    ASSUME Typed, Stage, NEW x \in Call, HandlerStep(x) \/ \E h \in HttpCall : Arrive(x, h)
    PROVE  /\ at'[x] # "done" => status'[x] = 0
           /\ at'[x] \notin {"wait", "done"} => given'[x] = {} /\ offer'[x] = {} /\ by'[x] = None
           /\ status'[x] \in {204, 400, 401, 403, 405, 429, 503} => given'[x] = {}
<1>1. CASE /\ at[x] \notin {"wait", "done"}
           /\ UNCHANGED <<given, offer, by>>
           /\ (\E pc : GoTo(x, pc)) \/ (\E code : Respond(x, code))
  <2>1. given'[x] = {} /\ offer'[x] = {} /\ by'[x] = None
    BY <1>1 DEF Stage
  <2>2. at'[x] # "done" => status'[x] = 0
    BY <1>1 DEF Stage, GoTo, Respond, Typed, ServerTypeOK
  <2> QED BY <2>1, <2>2
<1>2. CASE Send(x)
  <2>1. given'[x] = {} /\ by'[x] = None /\ at'[x] \in {"done", "wait"}
    BY <1>2 DEF Send, H!Open, Stage, GoTo, Respond, Typed, ServerTypeOK
  <2>2. at'[x] # "done" => status'[x] = 0
    BY <1>2 DEF Send, Stage, GoTo, Respond, Typed, ServerTypeOK
  <2> QED BY <2>1, <2>2
<1>3. CASE WriteDevices(x)
  BY <1>3 DEF WriteDevices, handlerVars, Stage
<1>4. CASE Await(x)
  <2>1. PICK code \in {200, 404, 502, 503, 504} :
          Respond(x, code) /\ (code = 503 => given[x] = {})
    BY <1>4, AwaitAnswers
  <2>2. at'[x] = "done" /\ status'[x] = code
    BY <2>1 DEF Respond, Typed, ServerTypeOK
  <2>3. given' = given
    BY <1>4 DEF Await, H!Return, H!ReturnError, H!ReturnAnswer
  <2> QED BY <2>1, <2>2, <2>3
<1> QED BY <1>1, <1>2, <1>3, <1>4 DEF HandlerStep, HubCall, Arrive, Cors, RejectMethod, AuthKey, Admit,
        Online, hubVars

\* Every step keeps Stage, and with it RefusedMeansUnsent.
LEMMA NextStage ==
    Typed /\ Stage /\ RefusedMeansUnsent /\ [ServerNext]_vars => Stage' /\ RefusedMeansUnsent'
<1> SUFFICES ASSUME Typed, Stage, RefusedMeansUnsent, [ServerNext]_vars, NEW y \in Call
             PROVE  /\ at'[y] # "done" => status'[y] = 0
                    /\ at'[y] \notin {"wait", "done"}
                         => given'[y] = {} /\ offer'[y] = {} /\ by'[y] = None
                    /\ status'[y] \in {204, 400, 401, 403, 405, 429, 503} => given'[y] = {}
  BY DEF Stage, RefusedMeansUnsent
<1>1. CASE /\ at'[y] = at[y] /\ status'[y] = status[y]
           /\ offer'[y] = offer[y] /\ given'[y] = given[y] /\ by'[y] = by[y]
  BY <1>1 DEF Stage, RefusedMeansUnsent
<1>2. ASSUME NEW x \in Call, HandlerStep(x) \/ \E h \in HttpCall : Arrive(x, h), x # y
      PROVE  /\ at'[y] = at[y] /\ status'[y] = status[y]
             /\ offer'[y] = offer[y] /\ given'[y] = given[y] /\ by'[y] = by[y]
  BY <1>2, OtherCalls
<1>3. CASE HandlerStep(y) \/ \E h \in HttpCall : Arrive(y, h)
  BY <1>3, StepStage
<1>4. CASE HubStep
  BY <1>1, <1>4, HubStepFrame DEF handlerVars
<1>5. CASE KeyStep \/ UNCHANGED vars
  BY <1>1, <1>5 DEF KeyStep, vars, handlerVars, hubVars
<1> QED BY <1>1, <1>2, <1>3, <1>4, <1>5 DEF ServerNext

\* No call has arrived initially.
LEMMA InitStage == ServerInit => Stage /\ RefusedMeansUnsent
BY DEF ServerInit, H!Init, Call, Stage, RefusedMeansUnsent

\* A caller that gets any status but 200, 404, 502 or 504 knows that no device
\* was given its request, so that trying again cannot move funds twice.
THEOREM RefusalsAreSafe == ServerSpec => []RefusedMeansUnsent
BY InitTyped, NextTyped, InitStage, NextStage, PTL DEF ServerSpec

\* The secret of a call is resolved to an account it stands for at that moment.
LEMMA AuthObserves ==
    ASSUME Typed, NEW x \in Call, AuthKey(x), at'[x] = "admit"
    PROVE  key'[x].owner \in seen'[x]
<1>1. at[x] = "auth" /\ http' = http /\ rows' = rows
  BY DEF AuthKey, ResolveAPIKey, Fails
<1>2. Stands(http[x].secret, rows) \subseteq seen'[x]
  BY <1>1 DEF AuthKey, Observe
<1>3. reply'.err = "ok"
  BY DEF AuthKey, Respond, Typed, ServerTypeOK
<1>4. ResolveAPIKey(http[x].secret)
  BY <1>3 DEF AuthKey, Fails, Reply
<1>5. reply'.val.owner \in Stands(http[x].secret, rows)
  BY <1>3, <1>4, ResolvedKey DEF Typed
<1>6. key'[x] = reply'.val
  BY <1>3 DEF AuthKey, Typed, ServerTypeOK
<1> QED BY <1>2, <1>5, <1>6

\* A connection that is offered a call has proved its account.
LEMMA StepRouted ==
    ASSUME Typed, Stage, Routed, NEW x \in Call, ServerNext,
           HandlerStep(x) \/ \E h \in HttpCall : Arrive(x, h)
    PROVE  /\ at'[x] \in {"admit", "online", "send", "wait"} => key'[x].owner \in seen'[x]
           /\ \A c \in offer'[x] \cup given'[x] :
                key'[x] # None /\ key'[x].owner \in proved'[c] \cap seen'[x]
           /\ by'[x] # None => \E c \in given'[x] : DeviceOf[c] = DeviceOf[by'[x]]
<1>0. seen[x] \subseteq seen'[x]
  BY NextSeen
<1>1. CASE /\ at[x] \notin {"wait", "done"} /\ UNCHANGED <<hubVars, key>>
           /\ \/ \E pc : GoTo(x, pc)
                   /\ (pc \in {"cors", "auth"} \/ at[x] \in {"admit", "online", "send"})
              \/ \E code : Respond(x, code)
  <2>1. given'[x] = {} /\ offer'[x] = {} /\ by'[x] = None
    BY <1>1 DEF Stage, hubVars
  <2>2. at'[x] \in {"admit", "online", "send", "wait"} => at[x] \in {"admit", "online", "send"}
    BY <1>1 DEF GoTo, Respond, Typed, ServerTypeOK
  <2> QED BY <1>0, <1>1, <2>1, <2>2 DEF Routed
<1>2. CASE \E h \in HttpCall : Arrive(x, h)
  BY <1>1, <1>2 DEF Arrive
<1>3. CASE Cors(x)
  <2>1. GoTo(x, "auth") \/ Respond(x, 204) \/ Respond(x, 403)
    BY <1>3 DEF Cors
  <2> QED BY <1>1, <1>3, <2>1 DEF Cors, Codes
<1>4. CASE RejectMethod(x)
  BY <1>1, <1>4 DEF RejectMethod, Codes
<1>5. CASE AuthKey(x)
  <2>1. given'[x] = {} /\ offer'[x] = {} /\ by'[x] = None
    BY <1>5 DEF AuthKey, Stage, hubVars
  <2>2. CASE GoTo(x, "admit")
    <3>1. at'[x] = "admit"
      BY <1>5, <2>2 DEF AuthKey, GoTo, Typed, ServerTypeOK
    <3> QED BY <1>5, <2>1, <3>1, AuthObserves
  <2>3. CASE Respond(x, 401)
    <3>1. at'[x] = "done"
      BY <2>3 DEF Respond, Typed, ServerTypeOK
    <3> QED BY <2>1, <3>1
  <2> QED BY <1>5, <2>2, <2>3 DEF AuthKey
<1>6. CASE Admit(x)
  BY <1>1, <1>6 DEF Admit, Codes
<1>7. CASE Online(x)
  BY <1>1, <1>7 DEF Online, Codes
<1>8. CASE Send(x)
  <2>1. /\ at[x] = "send" /\ key' = key /\ H!Open(x, key[x].owner)
        /\ GoTo(x, "wait") \/ Respond(x, 503)
    BY <1>8 DEF Send
  <2>2. key[x] # None /\ key[x].owner \in seen[x]
    BY <2>1, NoneIsNoValue, KeyOf DEF Routed
  <2>3. given'[x] = {} /\ by'[x] = None /\ offer'[x] = H!Serving(key[x].owner) /\ proved' = proved
    BY <2>1 DEF H!Open, Stage, Typed, HubTyped
  <2>4. \A c \in offer'[x] : key[x].owner \in proved[c]
    BY <2>3 DEF H!Serving
  <2> QED BY <1>0, <2>1, <2>2, <2>3, <2>4
<1>9. CASE WriteDevices(x)
  <2>1. /\ at[x] = "wait" /\ UNCHANGED <<at, key, proved, by>>
        /\ offer'[x] \cup given'[x] \subseteq offer[x] \cup given[x]
        /\ given[x] \subseteq given'[x]
    BY <1>9 DEF WriteDevices, handlerVars, H!Give, H!Skip, Typed, HubTyped
  <2> QED BY <1>0, <2>1 DEF Routed
<1>10. CASE Await(x)
  <2>1. PICK code \in {200, 404, 502, 503, 504} : Respond(x, code)
    BY <1>10, AwaitAnswers
  <2>2. at'[x] = "done"
    BY <2>1 DEF Respond, Typed, ServerTypeOK
  <2>3. UNCHANGED <<key, offer, given, proved>>
    BY <1>10 DEF Await, H!Return, H!ReturnError, H!ReturnAnswer
  <2>4. by'[x] # None => \E c \in given[x] : DeviceOf[c] = DeviceOf[by'[x]]
    BY <1>10 DEF Await, H!Return, H!ReturnError, H!ReturnAnswer, Typed, HubTyped, Routed
  <2> QED BY <1>0, <2>2, <2>3, <2>4 DEF Routed
<1> QED BY <1>2, <1>3, <1>4, <1>5, <1>6, <1>7, <1>8, <1>9, <1>10 DEF HandlerStep, HubCall

\* Every step keeps Routed.
LEMMA NextRouted == Typed /\ Stage /\ Routed /\ [ServerNext]_vars => Routed'
<1> SUFFICES ASSUME Typed, Stage, Routed, [ServerNext]_vars, NEW y \in Call
             PROVE  /\ at'[y] \in {"admit", "online", "send", "wait"}
                         => key'[y].owner \in seen'[y]
                    /\ \A c \in offer'[y] \cup given'[y] :
                         key'[y] # None /\ key'[y].owner \in proved'[c] \cap seen'[y]
                    /\ by'[y] # None => \E c \in given'[y] : DeviceOf[c] = DeviceOf[by'[y]]
  BY DEF Routed
<1>0. seen[y] \subseteq seen'[y]
  BY NextSeen
<1>1. CASE /\ at'[y] = at[y] /\ key'[y] = key[y] /\ status'[y] = status[y]
           /\ offer'[y] = offer[y] /\ given'[y] = given[y] /\ by'[y] = by[y]
           /\ \A c \in Conn : proved[c] \subseteq proved'[c]
  <2>1. offer[y] \cup given[y] \subseteq Conn
    BY DEF Typed, HubTyped
  <2> QED BY <1>0, <1>1, <2>1 DEF Routed
<1>2. ASSUME NEW x \in Call, HandlerStep(x) \/ \E h \in HttpCall : Arrive(x, h), x # y
      PROVE  /\ at'[y] = at[y] /\ key'[y] = key[y] /\ status'[y] = status[y]
             /\ offer'[y] = offer[y] /\ given'[y] = given[y] /\ by'[y] = by[y]
             /\ \A c \in Conn : proved[c] \subseteq proved'[c]
  BY <1>2, OtherCalls
<1>3. CASE HandlerStep(y) \/ \E h \in HttpCall : Arrive(y, h)
  BY <1>3, StepRouted DEF ServerNext
<1>4. CASE HubStep
  BY <1>1, <1>4, HubStepFrame DEF handlerVars
<1>5. CASE KeyStep \/ UNCHANGED vars
  BY <1>1, <1>5 DEF KeyStep, vars, handlerVars, hubVars
<1> QED BY <1>1, <1>2, <1>3, <1>4, <1>5 DEF ServerNext

\* No call was given to anybody initially.
LEMMA InitRouted == ServerInit => Routed
BY DEF ServerInit, H!Init, Call, Routed

\* A call reaches, and is answered by, only devices that proved an account the
\* caller's secret stood for at some moment of the call, whatever is registered,
\* rotated, rebound or revoked while it runs.
THEOREM OnlyTheOwnersDevices == ServerSpec => []GivenToKeyOwner
<1>1. Typed /\ Stage /\ Routed => GivenToKeyOwner
  <2> SUFFICES ASSUME Typed, Stage, Routed, NEW x \in Call
               PROVE  /\ \A c \in given[x] : proved[c] \cap seen[x] # {}
                      /\ by[x] # None => \E c \in given[x] : DeviceOf[c] = DeviceOf[by[x]]
    BY DEF GivenToKeyOwner
  <2>1. ASSUME NEW c \in given[x] PROVE proved[c] \cap seen[x] # {}
    <3>1. key[x].owner \in proved[c] /\ key[x].owner \in seen[x]
      BY <2>1 DEF Routed
    <3>2. proved[c] \subseteq Account
      BY <2>1 DEF Typed, HubTyped
    <3> QED BY <3>1, <3>2, NoneIsNoValue
  <2> QED BY <2>1 DEF Routed
<1> QED BY <1>1, InitTyped, NextTyped, InitStage, NextStage, InitRouted, NextRouted, PTL
        DEF ServerSpec
=============================================================================
