--------------------------- MODULE BlenderWorkflow ---------------------------
(***************************************************************************)
(* blender_workflow_mcp_server.py, which answers one MCP call after another*)
(* and sends each valid one to Blender, and blender_workflow_helper.py,    *)
(* which Blender runs for it.  The server gives up waiting after a timeout;*)
(* Blender does not give up working.                                       *)
(***************************************************************************)
EXTENDS Naturals, Sequences

CONSTANTS MaxAsked    \* MCP calls

ASSUME WorkflowAssumption == MaxAsked \in Nat

VARIABLES
  call,      \* the MCP call in hand, or the last one
  queue,     \* code Blender has been sent and has not run
  out,       \* artifacts by kind, as the number of the call that wrote them
  response,  \* the answer to the last call
  saved,     \* the scene has a source file
  up,        \* Blender runs its MCP add-on
  asked      \* MCP calls so far

wfVars == <<call, queue, out, response, saved, up, asked>>

Kinds == {"usd", "json"}
Tools == {"capability_probe", "scene_inventory", "usd_export", "usd_inspect", "artifact_receipts"}

\* What may be wrong with an argument: a path that is not absolute or not under
\* the roots, a file name without a USD suffix, too many paths, a tool that does
\* not exist; or, which nobody checks, the output being the input.
Faults(tool) ==
  CASE tool = "capability_probe" -> {"none"}
    [] tool = "scene_inventory" -> {"none", "outside"}
    [] tool = "usd_export" -> {"none", "outside", "relative", "suffix"}
    [] tool = "usd_inspect" -> {"none", "outside", "relative", "same"}
    [] tool = "artifact_receipts" -> {"none", "outside", "too many"}
    [] OTHER -> {"unknown"}

_under(fault) == fault # "outside"
_validate_path(fault) == fault # "relative" /\ _under(fault)
_validated_request(tool, fault) ==
  tool \in Tools /\ _validate_path(fault) /\ fault # "too many"

Answer(status, isError, seen) ==
  response' = [call |-> asked', status |-> status, isError |-> isError, seen |-> seen]

NothingSeen == [k \in {} |-> 0]

-----------------------------------------------------------------------------
(* The server *)

Call(tool, fault) ==
  /\ call.stage = "idle"
  /\ asked < MaxAsked
  /\ asked' = asked + 1
  /\ UNCHANGED <<out, saved, up>>

\* Invalid arguments are the caller's to repair, not an error.
Invalid(tool, fault) ==
  /\ Call(tool, fault)
  /\ ~_validated_request(tool, fault)
  /\ call' = [stage |-> "idle", tool |-> tool, fault |-> fault]
  /\ Answer("invalid_arguments", FALSE, NothingSeen)
  /\ UNCHANGED queue

\* No helper, or nobody listens on Blender's port.
Unreachable(tool, fault) ==
  /\ Call(tool, fault)
  /\ _validated_request(tool, fault)
  /\ ~up
  /\ call' = [stage |-> "idle", tool |-> tool, fault |-> fault]
  /\ Answer("blocked", TRUE, NothingSeen)
  /\ UNCHANGED queue

Send(tool, fault) ==
  /\ Call(tool, fault)
  /\ _validated_request(tool, fault)
  /\ up
  /\ call' = [stage |-> "waiting", tool |-> tool, fault |-> fault]
  /\ queue' = Append(queue, [call |-> asked + 1, tool |-> tool, fault |-> fault])
  /\ UNCHANGED response

Timeout_Unset == FALSE /\ UNCHANGED wfVars

\* The socket's timeout: whatever has come so far is no receipt.
Timeout ==
  /\ call.stage = "waiting"
  /\ UNCHANGED <<queue, out, saved, up, asked>>
  /\ call' = [call EXCEPT !.stage = "idle"]
  /\ Answer("blocked", TRUE, NothingSeen)

-----------------------------------------------------------------------------
(* The helper, run by Blender on its main thread *)

\* The artifact a request writes, the file it looks at first, and those its
\* receipt tells about.
Writes(r) == CASE r.tool = "usd_export" \/ r.fault = "same" -> {"usd"}
               [] r.tool \in {"scene_inventory", "usd_inspect"} -> {"json"}
               [] OTHER -> {}
Inputs(r) == IF r.tool = "usd_inspect" THEN {"usd"} ELSE {}
Reads(r) == IF r.tool = "artifact_receipts" THEN Kinds ELSE Writes(r) \cup Inputs(r)

\* Exceptions of the handlers that main turns into "blocked".
UsdExportRaises(r) == r.fault = "suffix" \/ ~saved
UsdInspectRaises(r) == out["usd"] = 0
Raises(r) == \/ r.tool = "usd_export" /\ UsdExportRaises(r)
             \/ r.tool = "usd_inspect" /\ UsdInspectRaises(r)

After(r) == [k \in Kinds |-> IF k \in Writes(r) THEN r.call ELSE out[k]]

\* The input is looked at before the artifact is written.
Seen(r) == [k \in Reads(r) |-> IF k \in Inputs(r) THEN out[k] ELSE After(r)[k]]

HeardBy_Shared(r) == call.stage = "waiting"
\* A connection of its own per call: a late answer finds nobody.
HeardBy(r) == call.stage = "waiting" /\ r.call = asked

Reply(r, status, seen) ==
  IF HeardBy(r)
  THEN /\ call' = [call EXCEPT !.stage = "idle"]
       /\ Answer(status, status # "pass", seen)
  ELSE UNCHANGED <<call, response>>

Execute ==
  /\ queue # <<>>
  /\ LET r == Head(queue) IN
       /\ queue' = Tail(queue)
       /\ UNCHANGED <<saved, up, asked>>
       /\ \/ /\ Reply(r, "blocked", NothingSeen)
             /\ \/ Raises(r) /\ UNCHANGED out
                \* Anything may fail, the operator, the library or the disk, in the
                \* middle of writing too.
                \/ ~Raises(r) /\ out' \in {out, After(r)}
          \/ /\ ~Raises(r)
             /\ out' = After(r)
             /\ Reply(r, "pass", Seen(r))

-----------------------------------------------------------------------------
(* Blender *)

\* It closes: what was sent is lost, and a waiting server sees the end of the
\* stream.
Close ==
  /\ up
  /\ up' = FALSE
  /\ queue' = <<>>
  /\ UNCHANGED <<out, saved, asked>>
  /\ IF call.stage = "waiting"
     THEN call' = [call EXCEPT !.stage = "idle"] /\ Answer("blocked", TRUE, NothingSeen)
     ELSE UNCHANGED <<call, response>>

Open == ~up /\ up' = TRUE /\ saved' \in BOOLEAN /\ UNCHANGED <<call, queue, out, response, asked>>

Save == up /\ ~saved /\ saved' = TRUE /\ UNCHANGED <<call, queue, out, response, up, asked>>

WfInit ==
  /\ call = [stage |-> "idle", tool |-> "none", fault |-> "none"]
  /\ queue = <<>>
  /\ out = [k \in Kinds |-> 0]
  /\ response = [call |-> 0, status |-> "none", isError |-> FALSE, seen |-> NothingSeen]
  /\ saved = FALSE /\ up = TRUE
  /\ asked = 0

Server == \E tool \in Tools \cup {"other"} : \E fault \in Faults(tool) :
            Invalid(tool, fault) \/ Unreachable(tool, fault) \/ Send(tool, fault)

WfNext == Server \/ Timeout \/ Execute \/ Close \/ Open \/ Save

-----------------------------------------------------------------------------
(* Properties *)

\* A receipt that passes is the one of its own call and tells what is there:
\* no late answer of a call that timed out is taken for it, and no work of such
\* a call changes an artifact after it.  An inspection that is told to write over
\* its own input is excepted: it tells of the file as it was.
ReceiptHolds ==
  (response.status = "pass" /\ call.stage = "idle") =>
     /\ response.call = asked
     /\ DOMAIN response.seen = Reads(call)
     /\ call.fault # "same" => \A k \in DOMAIN response.seen : out[k] = response.seen[k]

\* Every call is answered, though Blender may never get to it.
CallsAnswered == (call.stage = "waiting") ~> (call.stage = "idle")
=============================================================================
