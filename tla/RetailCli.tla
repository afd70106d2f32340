----------------------------- MODULE RetailCli -----------------------------
(***************************************************************************)
(* scripts/retail-api.js in the sandbox: one command logs in, may look a   *)
(* product up, sends its request and prints [RETAIL-API-OK] or an error.   *)
(* It waits 30 s for each answer; the API works on whatever it was sent.   *)
(* Other clients of the API keep a token for several requests.             *)
(***************************************************************************)
EXTENDS RetailApi

CONSTANTS Commands   \* what is asked of a command: its name and its options

\* The route of each command.
Route == [me |-> "/auth/me", products |-> "/products", inventory |-> "/inventory",
          customers |-> "/customers", promotions |-> "/promotions",
          sales |-> "/sales-performance", query |-> "/query",
          transfer |-> "/inventory/transfer", reorder |-> "/reorder"]

\* `given' are the options on the command line and `arg' what they come to in
\* the request; `named' is a product given by name; `valid' that the values
\* convert to what the API's body wants.  The text of a query is its own.
ASSUME CommandAssumption ==
  \A k \in Commands : /\ k.name \in STRING /\ k.given \subseteq STRING
                      /\ k.named \in BOOLEAN /\ k.valid \in BOOLEAN

VARIABLES cli   \* each call's stage, command, token and outcome
vars == <<apiVars, cli>>

Writes == {"transfer", "reorder"}
NoCommand == [name |-> "none", given |-> {}, named |-> FALSE, valid |-> FALSE]
Waiting(c) == cli[c].stage \in {"login", "resolve", "request"}

\* Of the command it is kept whether it was to write a row.
Done(c, outcome) ==
  cli' = [cli EXCEPT ![c].stage = "done", ![c].outcome = outcome,
                     ![c].cmd = [NoCommand EXCEPT !.name = IF cli[c].cmd.name \in Writes
                                                           THEN cli[c].cmd.name ELSE "none"]]
\* The error line of an answer carries its code.
Printed(code) == CASE code < 400 -> "ok" [] code \in 400..499 -> "refused" [] OTHER -> "failed"

apiRequest(c, stage, request, k) ==
  /\ Received(c, request)
  /\ cli' = [cli EXCEPT ![c] = [@ EXCEPT !.stage = stage, !.cmd = k, !.token = request.token]]

\* The request a command comes to.
Send(c, k, token) == apiRequest(c, "request", Request(Route[k.name], k.valid, k.arg, token), k)

cmdTransfer(k) == {"product", "to-store", "quantity"} \subseteq k.given
cmdReorder(k) == {"product", "quantity"} \subseteq k.given
cmdQuery(k) == "sql" \in k.given
\* The command is known and has the options it cannot do without.
Complete(k) ==
  /\ k.name \in DOMAIN Route
  /\ k.name = "transfer" => cmdTransfer(k)
  /\ k.name = "reorder" => cmdReorder(k)
  /\ k.name = "query" => cmdQuery(k)

-----------------------------------------------------------------------------
\* Without credentials there is no login.
Usage(c) == cli[c].stage = "idle" /\ Done(c, "usage") /\ UNCHANGED apiVars

loginByTelegram(e, good) ==
  Request("/auth/login-telegram", TRUE, [emp |-> e, good |-> good], NoToken)
loginByPassword(e, good) ==
  Request("/auth/login", TRUE, [emp |-> e, good |-> good], NoToken)

Start(c, request) ==
  /\ cli[c].stage = "idle"
  /\ apiRequest(c, "login", request, NoCommand)
  /\ UNCHANGED <<staff, rows, now, edits>>

\* Another client of the API: no login of its own, a token it already had.
Present(c, d, k) ==
  /\ cli[c].stage = "idle" /\ cli[d].token # NoToken
  /\ Complete(k)
  /\ Send(c, k, cli[d].token)
  /\ UNCHANGED <<staff, rows, now, edits>>

resolveProductId(c, k, token) ==
  apiRequest(c, "resolve", Request("/query", TRUE, [sql |-> <<Select({})>>], token), k)

\* The command, which counts from here on: an unknown one and missing options
\* only show after the login.
LoggedIn(c) ==
  /\ cli[c].stage = "login" /\ Holds(c, "answered")
  /\ \/ srv[c].code # 200 /\ Done(c, Printed(srv[c].code)) /\ Read(c)
     \/ /\ srv[c].code = 200
        /\ \E k \in Commands :
             \/ ~Complete(k) /\ Done(c, "usage") /\ Read(c)
             \/ Complete(k) /\ k.named /\ resolveProductId(c, k, srv[c].got.token)
             \/ Complete(k) /\ ~k.named /\ Send(c, k, srv[c].got.token)
  /\ UNCHANGED <<staff, rows, now, edits>>

\* The lookup found a product, or none of this name, or was refused.
Resolved(c) ==
  /\ cli[c].stage = "resolve" /\ Holds(c, "answered")
  /\ \/ srv[c].code # 200 /\ Done(c, Printed(srv[c].code)) /\ Read(c)
     \/ srv[c].code = 200 /\ Done(c, "usage") /\ Read(c)
     \/ srv[c].code = 200 /\ Send(c, cli[c].cmd, cli[c].token)
  /\ UNCHANGED <<staff, rows, now, edits>>

Prints(c) ==
  /\ cli[c].stage = "request" /\ Holds(c, "answered")
  /\ Done(c, Printed(srv[c].code))
  /\ Read(c)
  /\ UNCHANGED <<staff, rows, now, edits>>

\* 30 s without an answer, or the connection broke.
TimesOut(c) == Waiting(c) /\ Done(c, "unknown") /\ UNCHANGED apiVars

-----------------------------------------------------------------------------
Init ==
  /\ ApiInit
  /\ cli = [c \in Calls |-> [stage |-> "idle", cmd |-> NoCommand,
                             token |-> NoToken, outcome |-> "none"]]

main(c) ==
  \/ Usage(c)
  \/ \E e \in Employees, good \in BOOLEAN :
       Start(c, loginByTelegram(e, good)) \/ Start(c, loginByPassword(e, good))
  \/ \E d \in Calls, k \in Commands : Present(c, d, k)

Client(c) == main(c) \/ LoggedIn(c) \/ Resolved(c) \/ Prints(c) \/ TimesOut(c)
Server(c) == Serve(c) /\ UNCHANGED cli
Outside == Environment /\ UNCHANGED cli

Next == Outside \/ \E c \in Calls : Client(c) \/ Server(c)
Spec == Init /\ [][Next]_vars
-----------------------------------------------------------------------------
(* Properties *)

\* The row a write command asks for: a manager's of a store is that store's.
Placed(k, who, row) ==
  /\ row.table = k.name
  /\ row.store = Source(who, IF k.name = "reorder" THEN k.arg.store ELSE k.arg.from)

\* What a write command prints is what became of it: [RETAIL-API-OK] when its row
\* is there or was until somebody deleted it, for the store it is for; after a
\* refusal or a usage error there is none, then or later.  A timeout and a 500
\* say nothing: the commit may have been carried out.
OutcomeTold ==
  /\ [][\A c \in Calls :
          cli[c].stage = "request" /\ cli'[c].outcome = "ok" /\ cli[c].cmd.name \in Writes
          => <<c, 1>> \in DOMAIN rows /\ Placed(cli[c].cmd, cli[c].token, rows[<<c, 1>>])]_vars
  /\ [](\A c \in Calls : /\ cli[c].outcome \in {"refused", "usage"}
                         /\ cli[c].cmd.name \in Writes
                         => DOMAIN rows \cap ({c} \X Nat) = {})
=============================================================================
