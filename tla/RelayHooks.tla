----------------------------- MODULE RelayHooks -----------------------------
(***************************************************************************)
(* The four hooks of the nemo-relay plugin and what they send.  A hook     *)
(* makes an event of its arguments and forwards it to the gateway whose    *)
(* URL the plugin looked up once, with a client it makes once.  The hooks  *)
(* of model requests keep no other state; those of tool calls are the      *)
(* ones of RelayPlugin, whose PreForward and PostForward are here what a   *)
(* hook does last, whether or not its event got anywhere.                  *)
(***************************************************************************)
EXTENDS RelayPlugin

CONSTANTS
  ApiCalls,   \* model requests
  Request,    \* Request[a]: which messages Hermes hands to the pre hook of a
  Response,   \* Response[a]: which forms of the answer it hands to the post hook
  Supplied,   \* Supplied[c]: the provider's id of call c, None if blank
  Gateways,   \* what NEMO_RELAY_GATEWAY_URL may be, None if not set
  MaxLost     \* events that may be lost on the way

Requests  == [request_messages : {"list", "empty", "absent"},
              conversation_history : {"list", "empty", "absent"},
              user_message : BOOLEAN]
Responses == [response : {"choices", "other", "absent"},
              assistant_message : {"object", "absent"}]

ASSUME HooksAssumption ==
  /\ ApiCalls \cap Calls = {}
  /\ Request \in [ApiCalls -> Requests] /\ Response \in [ApiCalls -> Responses]
  /\ MaxLost \in Nat

VARIABLES
  api,        \* api[a]: which hooks of request a have returned
  gateway,    \* NEMO_RELAY_GATEWAY_URL
  latch,      \* _GATEWAY_LOOKED_UP and _GATEWAY_URL
  client,     \* _CLIENT was made
  ready,      \* events whose hook has the URL and is about to post
  sent,       \* events that reached the gateway
  lost        \* history: events whose post failed or had no client

hookVars == <<api, gateway, latch, client, ready, sent, lost>>
allVars  == <<vars, hookVars>>

ApiStages == {"new", "asked", "done"}

-----------------------------------------------------------------------------
(* The events *)

\* The messages of a request: the first list that is not empty, or else the
\* user's message, or else the empty list.
_coerce_request_messages(r) ==
  CASE r.request_messages = "list"     -> "request"
    [] r.request_messages # "list" /\ r.conversation_history = "list" -> "history"
    [] OTHER -> IF r.user_message THEN "user" ELSE "empty"

\* An answer counts as the provider's own only in a shape the gateway knows.
_serialize_response_object(r) == r.response = "choices"
_serialize_assistant_message(r) == r.assistant_message # "absent"

\* The id of a tool event: the one supplied, or a digest of key and arguments.
_stable_tool_call_id(c, supplied) == IF supplied # None THEN supplied ELSE Id[c]

\* Every event names the task and call it is about (_correlation).
Event(hook, of, id, body) == [hook |-> hook, of |-> of, id |-> id, body |-> body]

PreApi(a) == Event("pre_api_request", a, None,
                   [messages |-> _coerce_request_messages(Request[a])])
PostApi(a) == Event("post_api_request", a, None,
                    [raw_response |-> _serialize_response_object(Response[a]),
                     assistant_message |-> _serialize_assistant_message(Response[a])])

\* Hermes supplies no id at the pre; the post takes the queued one if there is one.
PreTool(c) == Event("pre_tool_call", c, _stable_tool_call_id(c, None), None)
PostTool(c) ==
  Event("post_tool_call", c,
        IF echo[c] # None THEN _stable_tool_call_id(echo[c], None)
        ELSE _stable_tool_call_id(c, Supplied[c]), None)

-----------------------------------------------------------------------------
(* _forward; Returns is the end of the hook *)

\* Mutant of _gateway_url: the lookup is remembered and the URL is not.
_gateway_url_Unstored(e, Returns) ==
  /\ e \notin ready
  /\ latch' = [latch EXCEPT !.looked_up = TRUE]
  /\ LET url == IF latch.looked_up THEN latch.url ELSE gateway
     IN IF url = None
        THEN Returns /\ UNCHANGED ready
        ELSE ready' = ready \cup {e} /\ UNCHANGED <<vars, api>>
  /\ UNCHANGED <<gateway, client, sent, lost>>

\* Under the lock: the first hook looks the URL up, and all take what it found.
_gateway_url(e, Returns) ==
  /\ e \notin ready
  /\ latch' = IF latch.looked_up THEN latch ELSE [looked_up |-> TRUE, url |-> gateway]
  /\ IF latch'.url = None
     THEN Returns /\ UNCHANGED ready
     ELSE ready' = ready \cup {e} /\ UNCHANGED <<vars, api>>
  /\ UNCHANGED <<gateway, client, sent, lost>>

\* A post that fails may have arrived, for the timeout is the client's.
Lose(e) ==
  /\ Cardinality(lost) < MaxLost
  /\ lost' = lost \cup {e}
  /\ \/ client' = TRUE /\ sent' \in {sent, sent \cup {e}}
     \/ ~client /\ UNCHANGED <<client, sent>>

\* The client is made if need be, then the event is posted; errors are swallowed.
Post(e, Returns) ==
  /\ e \in ready
  /\ ready' = ready \ {e}
  /\ Returns
  /\ \/ client' = TRUE /\ sent' = sent \cup {e} /\ UNCHANGED lost
     \/ Lose(e)
  /\ UNCHANGED <<gateway, latch>>

_forward(e, Returns) == _gateway_url(e, Returns) \/ Post(e, Returns)

-----------------------------------------------------------------------------
(* The hooks *)

Moves(a, stageOfA) == api' = [api EXCEPT ![a] = stageOfA] /\ UNCHANGED vars

on_pre_api_request(a)  == api[a] = "new" /\ _forward(PreApi(a), Moves(a, "asked"))
\* Called only when the request was answered.
on_post_api_request(a) == api[a] = "asked" /\ _forward(PostApi(a), Moves(a, "done"))

on_pre_tool_call(c) ==
  \/ PrePush(c) /\ UNCHANGED hookVars
  \/ stage[c] = "queued" /\ _forward(PreTool(c), PreForward(c) /\ UNCHANGED api)
on_post_tool_call(c) ==
  \/ PostPop(c) /\ UNCHANGED hookVars
  \/ stage[c] = "popped" /\ _forward(PostTool(c), PostForward(c) /\ UNCHANGED api)

\* A pre that is missed and a tool that is blocked call no hook.
NoHook(c) == (PreMissed(c) \/ Block(c)) /\ UNCHANGED hookVars

HooksInit ==
  /\ Init
  /\ api = [a \in ApiCalls |-> "new"]
  /\ gateway \in Gateways
  /\ latch = [looked_up |-> FALSE, url |-> None]
  /\ client = FALSE
  /\ ready = {} /\ sent = {} /\ lost = {}

HooksNext ==
  \/ \E a \in ApiCalls : on_pre_api_request(a) \/ on_post_api_request(a)
  \/ \E c \in Calls : on_pre_tool_call(c) \/ on_post_tool_call(c) \/ NoHook(c)

HooksSpec == HooksInit /\ [][HooksNext]_allVars

-----------------------------------------------------------------------------
EventsOf(of, events) == {e \in events : e.of = of}

HooksTypeOK ==
  /\ PluginTypeOK
  /\ api \in [ApiCalls -> ApiStages]
  /\ latch \in [looked_up : BOOLEAN, url : Gateways \cup {None}]
  /\ client \in BOOLEAN
  /\ \A e \in ready \cup sent \cup lost : e.of \in Calls \cup ApiCalls

\* What the gateway sees of a process that has its URL: of a tool call that is
\* over, and whose key is undisturbed, exactly a pre and a post with the id of
\* that pre; of a model request exactly its two events.  Only a post that failed
\* makes one missing: the lookup that hooks on several threads share loses none.
SpansPaired ==
  gateway # None =>
    /\ \A c \in Calls :
         stage[c] = "done" /\ Key[c] \notin disturbed /\ EventsOf(c, lost) = {} =>
           EventsOf(c, sent) = {PreTool(c), Event("post_tool_call", c, PreTool(c).id, None)}
    /\ \A a \in ApiCalls :
         api[a] = "done" /\ EventsOf(a, lost) = {} =>
           EventsOf(a, sent) = {PreApi(a), PostApi(a)}
=============================================================================
