---------------------------- MODULE RetailProofs ----------------------------
(***************************************************************************)
(* Writes stay in scope, outdated tokens expire and a command prints what  *)
(* became of it, for any employees, stores, clients and commands.  The     *)
(* inductive invariant follows a token from the login that issues it to    *)
(* the transaction that runs under it, and a row from the statement that   *)
(* plans it to the commit and to the answer its command reads.             *)
(***************************************************************************)
EXTENDS RetailCli, TLAPS

Token == [emp : Employees, role : Roles, store : MaybeStore, exp : Int]
Logins == {"/auth/login", "/auth/login-telegram"}

Staffed ==
  /\ now \in Int
  /\ staff \in [Employees -> [role : Roles, store : MaybeStore, active : BOOLEAN, since : Int]]

\* A token says what its employee is, or was until its expiry came in sight.
Backed(t) ==
  /\ t \in Token /\ t.exp <= now + Lifetime
  /\ \/ /\ staff[t.emp].active
        /\ staff[t.emp].role = t.role /\ staff[t.emp].store = t.store
     \/ t.exp <= staff[t.emp].since + Lifetime

\* The variables of a client; a token it holds is backed, and it looks a product
\* up for a command that is complete.
Clients ==
  /\ cli = [c \in Calls |-> cli[c]]
  /\ \A c \in Calls :
       /\ DOMAIN cli[c] = {"stage", "cmd", "token", "outcome"}
       /\ cli[c].stage \in {"idle", "login", "resolve", "request", "done"}
       /\ cli[c].token = NoToken \/ Backed(cli[c].token)
       /\ cli[c].stage = "resolve" => Complete(cli[c].cmd) /\ Backed(cli[c].token)

\* The routes a client asks for, and the text of a lookup.
Routes == Logins \cup {Route[n] : n \in DOMAIN Route}
Lookup == <<Select({})>>

\* A request that is no login carries a backed token; a login is answered with
\* one; the request of a lookup selects.
RequestOf(c) ==
  srv[c].stage \in {"received", "authenticated"} =>
    /\ srv[c] = [stage |-> srv[c].stage, req |-> srv[c].req]
    /\ srv[c].req.at \in Routes
    /\ srv[c].req.at \in Logins => srv[c].stage = "received" /\ srv[c].req.arg.emp \in Employees
    /\ srv[c].req.at \notin Logins => Backed(srv[c].req.token)
    /\ cli[c].stage # "idle"
    /\ cli[c].stage = "login" => srv[c].req.at \in Logins
    /\ cli[c].stage = "resolve" => srv[c].req.at = "/query" /\ srv[c].req.arg.sql = Lookup
AnswerOf(c) ==
  cli[c].stage = "login" /\ srv[c].stage = "answered" /\ srv[c].code = 200
    => Backed(srv[c].got.token)
Served ==
  /\ srv = [c \in Calls |-> srv[c]]
  /\ \A c \in Calls : RequestOf(c) /\ AnswerOf(c)

\* A transaction t: the session is the token's until the text leaves it, which
\* only a text of the caller's can.
Transaction(t) ==
  /\ DOMAIN t = {"stage", "free", "token", "text", "next", "session", "own", "effect"}
  /\ t = [field \in DOMAIN t |-> t[field]] /\ t.stage = "running"
  /\ t.token.role \in Roles /\ t.free \in BOOLEAN /\ t.own \in BOOLEAN
  /\ t.next \in Nat /\ t.next # 0
  /\ t.own => t.session = Session(t.token)
  /\ ~t.free => t.own /\ \E sql : t.text = <<sql>> /\ sql.do \in {"select", "insert"}

\* What a transaction has written and not committed: rows that are there, or
\* rows of the call's own statements so far; as long as the session is the
\* token's, each in the token's scope.
Writing(c, t, asked) ==
  \A i \in DOMAIN t.effect :
    /\ \/ i \in DOMAIN rows
       \/ asked /\ \E m \in Nat : m < t.next /\ i = <<c, m>>
    /\ t.own => InScope(t.token, t.effect[i], i \notin DOMAIN rows)
Asked(c) == cli[c].stage \in {"request", "done"}
Planned(c) ==
  srv[c].stage = "running" =>
    /\ Transaction(srv[c])
    /\ cli[c].stage = "resolve" => srv[c].text = Lookup
    /\ cli[c].stage \in {"resolve", "request", "done"}
    /\ Writing(c, srv[c], Asked(c))

\* A call's rows come from statements of its last request.
Once(c) ==
  \A m \in Nat :
    <<c, m>> \in DOMAIN rows =>
      /\ Asked(c)
      /\ \/ srv[c].stage \in {"none", "answered"}
         \/ srv[c].stage = "running" /\ m < srv[c].next

RetailInv == Staffed /\ Clients /\ Served /\ \A c \in Calls : Planned(c) /\ Once(c)

-----------------------------------------------------------------------------
\* Nothing is issued, asked or written at the start.
LEMMA RetailInit == Init => RetailInv
  <1> SUFFICES ASSUME Init PROVE RetailInv
    OBVIOUS
  <1> USE DEF Init, ApiInit
  <1>1. Staffed
    BY RetailAssumption DEF Staffed
  <1>2. Clients
    BY DEF Clients
  <1>3. Served
    BY DEF Served, RequestOf, AnswerOf, Idle
  <1>4. ASSUME NEW c \in Calls PROVE Planned(c) /\ Once(c)
    BY RetailAssumption DEF Planned, Once, Idle
  <1>5. QED
    BY <1>1, <1>2, <1>3, <1>4 DEF RetailInv

\* A token is backed as long as no employee changes and no time passes.
LEMMA StillBacked ==
  ASSUME NEW t, Backed(t), staff' = staff, now' = now
  PROVE  Backed(t)'
  BY DEF Backed

\* A token is backed when it is issued to an active employee.
LEMMA Issued ==
  ASSUME Staffed, NEW e \in Employees, staff[e].active
  PROVE  Backed(create_token(e))
  BY RetailAssumption DEF Staffed, Backed, create_token, Token

-----------------------------------------------------------------------------
(* The server's steps *)

\* What is the same for every step of the server: clients, tables, clock.
LEMMA ServerKeeps ==
  ASSUME RetailInv, UNCHANGED <<cli, staff, now>>
  PROVE  Staffed' /\ Clients'
  <1>1. Staffed'
    BY DEF RetailInv, Staffed
  <1>2. Clients'
    BY StillBacked DEF RetailInv, Clients
  <1>3. QED
    BY <1>1, <1>2

\* A step of the server for one call leaves the requests of the others alone.
LEMMA OthersServed ==
  ASSUME RetailInv, NEW c \in Calls, NEW r, srv' = [srv EXCEPT ![c] = r],
         UNCHANGED <<cli, staff, now>>, RequestOf(c)', AnswerOf(c)'
  PROVE  Served'
  <1>1. \A d \in Calls \ {c} : srv'[d] = srv[d]
    BY DEF RetailInv, Served
  <1>2. ASSUME NEW d \in Calls \ {c} PROVE RequestOf(d)' /\ AnswerOf(d)'
    BY <1>1, <1>2, StillBacked DEF RetailInv, Served, RequestOf, AnswerOf
  <1>3. QED
    BY <1>2 DEF RetailInv, Served

\* The rows are the same, or a transaction of call c has committed.
Landed(c) == rows' = rows \/ (srv[c].stage = "running" /\ rows' = Seen(c))

\* What a commit changes: the rows written, of which the new ones are the call's.
LEMMA LandedRows ==
  ASSUME RetailInv, NEW c \in Calls, Landed(c)
  PROVE  /\ DOMAIN rows \subseteq DOMAIN rows'
         /\ \A i \in DOMAIN rows' :
              \/ i \in DOMAIN rows /\ rows'[i] = rows[i]
              \/ srv[c].stage = "running" /\ i \in DOMAIN srv[c].effect /\ rows'[i] = srv[c].effect[i]
         /\ \A i \in DOMAIN rows' \ DOMAIN rows :
              /\ srv[c].stage = "running" /\ Asked(c)
              /\ \E m \in Nat : m < srv[c].next /\ i = <<c, m>>
  <1>1. CASE rows' = rows
    BY <1>1
  <1>2. CASE srv[c].stage = "running" /\ rows' = Seen(c)
    <2>1. PICK e : e = srv[c].effect
      OBVIOUS
    <2>2. rows' = Over(e, rows)
      BY <1>2, <2>1 DEF Seen
    <2>3. /\ DOMAIN rows' = DOMAIN e \cup DOMAIN rows
          /\ \A i \in DOMAIN rows' : rows'[i] = IF i \in DOMAIN e THEN e[i] ELSE rows[i]
      BY <2>2 DEF Over
    <2>4. Writing(c, srv[c], Asked(c))
      BY <1>2 DEF RetailInv, Planned
    <2>5. ASSUME NEW i \in DOMAIN e, i \notin DOMAIN rows
          PROVE  Asked(c) /\ \E m \in Nat : m < srv[c].next /\ i = <<c, m>>
      BY <2>1, <2>4, <2>5 DEF Writing
    <2>6. QED
      BY <1>2, <2>1, <2>3, <2>5
  <1>3. QED
    BY <1>1, <1>2 DEF Landed

\* A commit of one call leaves the rows and the transactions of the others.
LEMMA OthersPlanned ==
  ASSUME RetailInv, NEW c \in Calls, Landed(c), cli' = cli, NEW d \in Calls \ {c}, srv'[d] = srv[d]
  PROVE  Planned(d)' /\ Once(d)'
  <1>1. \A m \in Nat : <<d, m>> \in DOMAIN rows' <=> <<d, m>> \in DOMAIN rows
    BY LandedRows
  <1>2. Once(d)'
    BY <1>1 DEF RetailInv, Once, Asked
  <1>3. ASSUME srv[d].stage = "running" PROVE Writing(d, srv[d], Asked(d))'
    <2>1. PICK t, a : t = srv[d] /\ a = Asked(d)
      OBVIOUS
    <2>2. Writing(d, t, a)
      BY <1>3, <2>1 DEF RetailInv, Planned
    <2>3. ASSUME NEW i \in DOMAIN t.effect
          PROVE  i \in DOMAIN rows' <=> i \in DOMAIN rows
      BY <1>1, <2>2, LandedRows DEF Writing
    <2>4. Writing(d, t, a)'
      BY <2>2, <2>3 DEF Writing, InScope
    <2>5. QED
      BY <2>1, <2>4 DEF Writing, Asked, InScope
  <1>4. Planned(d)'
    BY <1>3 DEF RetailInv, Planned, Asked
  <1>5. QED
    BY <1>2, <1>4

\* A step that ends a request, or lets one in, and leaves the rows alone.
LEMMA RowsAside ==
  ASSUME RetailInv, NEW c \in Calls, UNCHANGED <<cli, rows>>,
         \A d \in Calls \ {c} : srv'[d] = srv[d],
         \/ srv'[c].stage \in {"none", "answered"}
         \/ srv[c].stage = "received" /\ srv'[c].stage = "authenticated"
  PROVE  \A d \in Calls : Planned(d)' /\ Once(d)'
  <1>1. Landed(c)
    BY DEF Landed
  <1>2. Planned(c)' /\ Once(c)'
    BY DEF RetailInv, Planned, Once, Asked
  <1>3. QED
    BY <1>1, <1>2, OthersPlanned

\* A login is answered with a backed token, or refused.
LEMMA LoginStep ==
  ASSUME RetailInv, NEW c \in Calls, login(c) \/ login_telegram(c), cli' = cli
  PROVE  RetailInv'
  <1> DEFINE r == srv[c].req
  <1>1. /\ Holds(c, "received") /\ r.at \in Logins
        /\ UNCHANGED <<staff, rows, now>>
    BY DEF login, login_telegram, Logins
  <1>2. r.arg.emp \in Employees
    BY <1>1 DEF RetailInv, Served, RequestOf, Holds
  <1>3. PICK code, got : /\ Answer(c, code, got)
                         /\ code = 200 => Backed(got.token)
    <2>1. PICK found : Issue(c, found) /\ (found => staff[r.arg.emp].active)
      BY DEF login, login_telegram
    <2>2. staff[r.arg.emp].active => Backed([token |-> create_token(r.arg.emp)].token)
      BY <1>2, Issued DEF RetailInv
    <2>3. QED
      BY <2>1, <2>2 DEF Issue
  <1>4. srv' = [srv EXCEPT ![c] = [stage |-> "answered", code |-> code, got |-> got]]
    BY <1>3 DEF Answer
  <1>5. Served'
    BY <1>1, <1>3, <1>4, StillBacked DEF RetailInv, Served, RequestOf, AnswerOf
  <1>6. \A d \in Calls : Planned(d)' /\ Once(d)'
    BY <1>1, <1>4, RowsAside DEF RetailInv, Served
  <1>7. QED
    BY <1>1, <1>5, <1>6, ServerKeeps DEF RetailInv

\* A request is let in with the token it carries, or refused.
LEMMA AuthenticationStep ==
  ASSUME RetailInv, NEW c \in Calls, get_current_employee(c), cli' = cli
  PROVE  RetailInv'
  <1>1. /\ Holds(c, "received") /\ srv[c].req.at \notin Logins
        /\ UNCHANGED <<staff, rows, now>>
    BY DEF get_current_employee, Logins
  <1>2. cli[c].stage # "login"
    BY <1>1 DEF RetailInv, Served, RequestOf, Holds
  <1>3. CASE srv' = [srv EXCEPT ![c].stage = "authenticated"]
    <2>1. srv'[c] = [stage |-> "authenticated", req |-> srv[c].req]
      BY <1>1, <1>3 DEF RetailInv, Served, RequestOf, Holds
    <2>2. \A d \in Calls \ {c} : srv'[d] = srv[d]
      BY <1>3 DEF RetailInv, Served
    <2>3. RequestOf(c)' /\ AnswerOf(c)'
      <3>1. PICK t : t = srv[c].req.token
        OBVIOUS
      <3>2. Backed(t)
        BY <1>1, <3>1 DEF RetailInv, Served, RequestOf, Holds
      <3>3. Backed(t)'
        BY <1>1, <3>2, StillBacked
      <3>4. /\ srv'[c] = [stage |-> srv'[c].stage, req |-> srv'[c].req]
            /\ srv'[c].req = srv[c].req /\ srv'[c].stage = "authenticated"
        BY <2>1
      <3>5. QED
        BY <1>1, <1>2, <3>1, <3>3, <3>4 DEF RetailInv, Served, RequestOf, AnswerOf, Holds
    <2>4. Served'
      <3>1. srv' = [srv EXCEPT ![c] = srv'[c]]
        BY <1>3 DEF RetailInv, Served
      <3>2. PICK r : r = srv'[c]
        OBVIOUS
      <3>3. srv' = [srv EXCEPT ![c] = r]
        BY <3>1, <3>2
      <3>4. QED
        BY <1>1, <2>3, <3>3, OthersServed
    <2>5. \A d \in Calls : Planned(d)' /\ Once(d)'
      BY <1>1, <2>1, <2>2, RowsAside DEF Holds
    <2>6. QED
      BY <1>1, <2>4, <2>5, ServerKeeps DEF RetailInv
  <1>4. CASE \E code : srv' = [srv EXCEPT ![c] = [stage |-> "answered", code |-> code, got |-> NoBody]]
    <2>1. Served'
      BY <1>1, <1>2, <1>4, StillBacked DEF RetailInv, Served, RequestOf, AnswerOf
    <2>2. \A d \in Calls : Planned(d)' /\ Once(d)'
      BY <1>1, <1>4, RowsAside DEF RetailInv, Served
    <2>3. QED
      BY <1>1, <2>1, <2>2, ServerKeeps DEF RetailInv
  <1>5. QED
    BY <1>3, <1>4 DEF get_current_employee, Answer

\* An answer to a request that is no login, its transaction committed or not.
LEMMA PlainAnswer ==
  ASSUME RetailInv, NEW c \in Calls, srv[c].stage \in {"authenticated", "running"}, NEW code, NEW got,
         Answer(c, code, got), Landed(c), UNCHANGED <<cli, staff, now>>
  PROVE  RetailInv'
  <1>1. cli[c].stage # "login"
    BY DEF RetailInv, Served, RequestOf, Planned
  <1>2. srv' = [srv EXCEPT ![c] = [stage |-> "answered", code |-> code, got |-> got]]
    BY DEF Answer
  <1>3. srv'[c].stage = "answered" /\ \A d \in Calls \ {c} : srv'[d] = srv[d]
    BY <1>2 DEF RetailInv, Served
  <1>4. Served'
    BY <1>1, <1>2, <1>3, OthersServed DEF RequestOf, AnswerOf
  <1>5. Planned(c)' /\ Once(c)'
    <2>1. \A m \in Nat : <<c, m>> \in DOMAIN rows' => Asked(c)
      BY LandedRows DEF RetailInv, Once
    <2>2. QED
      BY <1>3, <2>1 DEF Planned, Once, Asked
  <1>6. QED
    BY <1>3, <1>4, <1>5, OthersPlanned, ServerKeeps DEF RetailInv

-----------------------------------------------------------------------------
(* Transactions *)

\* An endpoint refuses with 400 or 403; the text it runs is the caller's or one
\* statement, and the two for writing insert the row that is asked for.
Plans(who, at, arg, plan) ==
  /\ plan.refused \in BOOLEAN
  /\ plan.refused => plan.code \in {400, 403}
  /\ ~plan.refused /\ at # "/query" =>
       \E sql : plan.text = <<sql>> /\ sql.do \in {"select", "insert"}
  /\ ~plan.refused /\ at = "/query" => plan.text = arg.sql
  /\ ~plan.refused /\ at = "/inventory/transfer" =>
       \E sql : /\ plan.text = <<sql>> /\ sql.do = "insert"
                /\ sql.table = "transfer" /\ sql.store = Source(who, arg.from)
  /\ ~plan.refused /\ at = "/reorder" =>
       \E sql : /\ plan.text = <<sql>> /\ sql.do = "insert"
                /\ sql.table = "reorder" /\ sql.store = Source(who, arg.store)

\* A refused request has a plan that touches no row.
LEMMA Refused ==
  ASSUME NEW who, NEW at, NEW arg, NEW code \in {400, 403}
  PROVE  Plans(who, at, arg, Refuse(code))
  BY DEF Plans, Refuse

\* Whatever an endpoint decides is a plan for what was asked of it.
LEMMA EndpointPlan ==
  ASSUME NEW who, NEW at \in Routes \ (Logins \cup {"/auth/me"}), NEW arg
  PROVE  Plans(who, at, arg, Endpoint(who, at, arg))
  <1>1. CASE at = "/inventory/transfer"
    <2> DEFINE sql == Insert("transfer", Source(who, arg.from), arg.to, arg.quantity)
    <2>1. Endpoint(who, at, arg) = create_transfer(who, arg)
      BY <1>1 DEF Endpoint
    <2>2. create_transfer(who, arg) \in {Refuse(403), Refuse(400), Run(<<sql>>)}
      BY DEF create_transfer
    <2>3. sql.do = "insert" /\ sql.table = "transfer" /\ sql.store = Source(who, arg.from)
      BY DEF Insert
    <2> HIDE DEF sql
    <2>4. Plans(who, at, arg, Run(<<sql>>))
      BY <1>1, <2>3 DEF Plans, Run
    <2>5. QED
      BY <2>1, <2>2, <2>4, Refused
  <1>2. CASE at = "/reorder"
    <2> DEFINE sql == Insert("reorder", Source(who, arg.store), NoStore, arg.quantity)
    <2>1. Endpoint(who, at, arg) = create_reorder(who, arg)
      BY <1>2 DEF Endpoint
    <2>2. create_reorder(who, arg) \in {Refuse(403), Refuse(400), Run(<<sql>>)}
      BY DEF create_reorder
    <2>3. sql.do = "insert" /\ sql.table = "reorder" /\ sql.store = Source(who, arg.store)
      BY DEF Insert
    <2> HIDE DEF sql
    <2>4. Plans(who, at, arg, Run(<<sql>>))
      BY <1>2, <2>3 DEF Plans, Run
    <2>5. QED
      BY <2>1, <2>2, <2>4, Refused
  <1>3. CASE at = "/query"
    BY <1>3 DEF Endpoint, query, Run, Plans
  <1>4. CASE at \in {"/inventory", "/products", "/customers", "/promotions", "/sales-performance"}
    <2>1. \E stores : Endpoint(who, at, arg) = Run(<<Select(stores)>>)
      BY <1>4 DEF Endpoint, get_inventory, get_products, get_customers, get_promotions,
                  sales_performance
    <2>2. QED
      BY <1>4, <2>1 DEF Run, Plans, Select
  <1>5. QED
    BY <1>1, <1>2, <1>3, <1>4 DEF Routes, Route, Logins

\* A transaction begins under its token's session, with nothing written.
LEMMA ExecuteStep ==
  ASSUME RetailInv, NEW c \in Calls, execute_as_role(c), cli' = cli
  PROVE  RetailInv'
  <1>1. /\ Holds(c, "authenticated") /\ srv[c].stage = "authenticated"
        /\ srv[c].req.at # "/auth/me" /\ UNCHANGED <<staff, rows, now>>
    BY DEF execute_as_role, Holds
  <1>2. PICK who, at, arg, plan :
          /\ who = srv[c].req.token /\ at = srv[c].req.at /\ arg = srv[c].req.arg
          /\ plan = Endpoint(who, at, arg)
    OBVIOUS
  <1>3. /\ at \in Routes \ (Logins \cup {"/auth/me"}) /\ Backed(who)
        /\ cli[c].stage \in {"resolve", "request", "done"}
        /\ cli[c].stage = "resolve" => at = "/query" /\ arg.sql = Lookup
    BY <1>1, <1>2 DEF RetailInv, Clients, Served, RequestOf
  <1>4. Plans(who, at, arg, plan)
    BY <1>2, <1>3, EndpointPlan
  <1>5. CASE \E code : Answer(c, code, NoBody)
    BY <1>1, <1>5, PlainAnswer DEF Landed
  <1> DEFINE t == [stage |-> "running", free |-> at = "/query", token |-> who, text |-> plan.text,
                   next |-> 1, session |-> Session(who), own |-> TRUE, effect |-> Nothing]
  <1>6. ASSUME ~plan.refused, srv' = [srv EXCEPT ![c] = t]
        PROVE  RetailInv'
    <2>1. srv'[c] = t /\ \A d \in Calls \ {c} : srv'[d] = srv[d]
      BY <1>6 DEF RetailInv, Served
    <2>2. Served'
      <3>1. t.stage = "running"
        OBVIOUS
      <3> HIDE DEF t
      <3>2. QED
        BY <1>1, <1>6, <2>1, <3>1, OthersServed DEF RequestOf, AnswerOf
    <2>3. Transaction(t)
      <3>1. at # "/query" => \E sql : plan.text = <<sql>> /\ sql.do \in {"select", "insert"}
        BY <1>4, <1>6 DEF Plans
      <3>2. who.role \in Roles
        BY <1>3 DEF Backed, Token
      <3>3. /\ t.free = (at = "/query") /\ t.token = who /\ t.text = plan.text /\ t.next = 1
            /\ t.session = Session(who) /\ t.own = TRUE /\ t.effect = Nothing /\ t.stage = "running"
        OBVIOUS
      <3>4. /\ DOMAIN t = {"stage", "free", "token", "text", "next", "session", "own", "effect"}
            /\ t = [field \in DOMAIN t |-> t[field]]
        OBVIOUS
      <3> HIDE DEF t
      <3>5. ASSUME ~t.free PROVE t.own /\ \E sql : t.text = <<sql>> /\ sql.do \in {"select", "insert"}
        BY <3>1, <3>3, <3>5
      <3>6. t.token.role \in Roles /\ t.free \in BOOLEAN /\ t.own \in BOOLEAN
        BY <3>2, <3>3
      <3>7. QED
        BY <3>3, <3>4, <3>5, <3>6 DEF Transaction
    <2>4. Writing(c, t, Asked(c))'
      BY DEF Writing, Nothing
    <2>5. cli[c].stage = "resolve" => t.text = Lookup
      BY <1>3, <1>4, <1>6 DEF Plans
    <2>6. Planned(c)'
      <3> HIDE DEF t
      <3>1. QED
        BY <1>3, <2>1, <2>3, <2>4, <2>5 DEF Planned, Transaction, Asked
    <2>7. Once(c)'
      BY <1>1 DEF RetailInv, Once
    <2>8. Landed(c)
      BY <1>1 DEF Landed
    <2>9. QED
      BY <1>1, <2>1, <2>2, <2>6, <2>7, <2>8, OthersPlanned, ServerKeeps DEF RetailInv
  <1>7. QED
    BY <1>2, <1>5, <1>6 DEF execute_as_role

\* A statement of a transaction: what it is, and that it is the only one of a
\* text that is not the caller's and of a lookup.
LEMMA StatementOf ==
  ASSUME RetailInv, NEW c \in Calls, AtStatement(c)
  PROVE  /\ srv[c].stage = "running" /\ Transaction(srv[c]) /\ Planned(c)
         /\ ~srv[c].free => /\ srv[c].next = 1 /\ srv[c].own
                            /\ srv[c].text = <<Statement(c)>>
                            /\ Statement(c).do \in {"select", "insert"}
         /\ cli[c].stage = "resolve" => Statement(c).do = "select"
  <1>1. srv[c].stage = "running" /\ Transaction(srv[c]) /\ Planned(c)
    BY DEF AtStatement, Holds, RetailInv, Planned
  <1>2. ASSUME NEW sql, srv[c].text = <<sql>>
        PROVE  srv[c].next = 1 /\ Statement(c) = sql
    BY <1>1, <1>2 DEF AtStatement, Statement, Transaction
  <1>3. cli[c].stage = "resolve" => Statement(c).do = "select"
    BY <1>1, <1>2 DEF Planned, Lookup, Select
  <1>4. QED
    BY <1>1, <1>2, <1>3 DEF Transaction

\* A transaction with its next statement behind it, in the same session, and one
\* that leaves the session it was given.
Goes(s, t, effect) == t = [s EXCEPT !.next = s.next + 1, !.effect = effect]
Leaves(s, t, session, effect) ==
  t = [s EXCEPT !.next = s.next + 1, !.own = FALSE, !.session = session, !.effect = effect]

\* What goes on in its session stays a transaction.
LEMMA NextTransaction ==
  ASSUME NEW s, Transaction(s), NEW effect, NEW t, Goes(s, t, effect)
  PROVE  /\ Transaction(t) /\ t.next = s.next + 1 /\ t.text = s.text /\ t.own = s.own
         /\ t.effect = effect /\ t.token = s.token
  <1>1. /\ DOMAIN t = DOMAIN s /\ t = [field \in DOMAIN t |-> t[field]]
        /\ \A field \in DOMAIN s \ {"next", "effect"} : t[field] = s[field]
        /\ t.next = s.next + 1 /\ t.effect = effect
    BY DEF Transaction, Goes
  <1>2. /\ t.text = s.text /\ t.token = s.token /\ t.free = s.free /\ t.stage = s.stage
        /\ t.own = s.own /\ t.session = s.session
    BY <1>1 DEF Transaction
  <1>3. t.next \in Nat /\ t.next # 0
    BY <1>1 DEF Transaction
  <1>4. QED
    BY <1>1, <1>2, <1>3 DEF Transaction

\* A transaction of the caller's text that leaves the token's session.
LEMMA LeftTransaction ==
  ASSUME NEW s, Transaction(s), s.free, NEW session, NEW effect,
         NEW t, Leaves(s, t, session, effect)
  PROVE  /\ Transaction(t) /\ t.next = s.next + 1 /\ t.text = s.text /\ ~t.own
         /\ t.effect = effect /\ t.token = s.token
  <1>1. /\ DOMAIN t = DOMAIN s /\ t = [field \in DOMAIN t |-> t[field]]
        /\ \A field \in DOMAIN s \ {"next", "own", "session", "effect"} : t[field] = s[field]
        /\ t.next = s.next + 1 /\ t.own = FALSE /\ t.session = session /\ t.effect = effect
    BY DEF Transaction, Leaves
  <1>2. t.text = s.text /\ t.token = s.token /\ t.free = s.free /\ t.stage = s.stage
    BY <1>1 DEF Transaction
  <1>3. t.next \in Nat /\ t.next # 0
    BY <1>1 DEF Transaction
  <1>4. QED
    BY <1>1, <1>2, <1>3 DEF Transaction

\* A transaction goes on with its next statement: what it then is.
LEMMA TransactionOn ==
  ASSUME RetailInv, NEW c \in Calls, AtStatement(c), Landed(c), UNCHANGED <<cli, staff, now>>,
         NEW t, srv' = [srv EXCEPT ![c] = t], Transaction(t),
         t.next = srv[c].next + 1, t.text = srv[c].text,
         Writing(c, t, Asked(c))'
  PROVE  RetailInv'
  <1>1. srv'[c] = t /\ \A d \in Calls \ {c} : srv'[d] = srv[d]
    BY DEF RetailInv, Served
  <1>2. /\ srv[c].stage = "running" /\ Planned(c) /\ Once(c) /\ srv[c].next \in Nat
        /\ t.stage = "running"
    <2>1. srv[c].stage = "running" /\ Transaction(srv[c]) /\ Planned(c)
      BY StatementOf
    <2>2. srv[c].next \in Nat
      BY <2>1 DEF Transaction
    <2>3. t.stage = "running"
      BY DEF Transaction
    <2>4. QED
      BY <2>1, <2>2, <2>3 DEF RetailInv
  <1>3. Served'
    BY <1>1, <1>2, OthersServed DEF RequestOf, AnswerOf
  <1>4. Planned(c)'
    BY <1>1, <1>2 DEF Planned, Transaction, Asked
  <1>5. Once(c)'
    <2>1. ASSUME NEW m \in Nat, <<c, m>> \in DOMAIN rows'
          PROVE  Asked(c) /\ m < srv[c].next + 1
      <3>1. CASE <<c, m>> \in DOMAIN rows
        BY <1>2, <3>1 DEF Once
      <3>2. CASE <<c, m>> \notin DOMAIN rows
        BY <1>2, <2>1, <3>2, LandedRows
      <3>3. QED
        BY <3>1, <3>2
    <2>2. QED
      BY <1>1, <1>2, <2>1 DEF Once, Asked
  <1>6. QED
    BY <1>1, <1>3, <1>4, <1>5, OthersPlanned, ServerKeeps DEF RetailInv

\* What a statement does to the rows a transaction sees: an INSERT adds the row
\* it names, an UPDATE or DELETE keeps table and store of one that is there; and
\* under the session of a token, grants and policies keep it in the token's scope.
LEMMA EffectInScope ==
  ASSUME RetailInv, NEW c \in Calls, AtStatement(c), NEW sql, sql = Statement(c),
         Outcome(srv[c].session, sql) = 200, NEW e, e = Effect(c, sql), NEW i \in DOMAIN e
  PROVE  /\ \/ sql.do = "insert" /\ i = <<c, srv[c].next>> /\ i \notin DOMAIN rows
               /\ e[i].table = sql.table /\ e[i].store = sql.store
            \/ /\ sql.do \in {"update", "delete"} /\ i \in DOMAIN Seen(c)
               /\ e[i].table = Seen(c)[i].table /\ e[i].store = Seen(c)[i].store
         /\ srv[c].own => InScope(srv[c].token, e[i], i \notin DOMAIN rows)
  <1>1. PICK t : t = srv[c]
    OBVIOUS
  <1>2. Transaction(t)
    BY <1>1, StatementOf
  <1>3. t.own => t.session = Session(t.token)
    BY <1>2 DEF Transaction
  <1>4. t.own => /\ t.session.setting = t.token.store
                 /\ t.session.role = CASE t.token.role = "country_manager" -> "nemoclaw_country_manager"
                                       [] t.token.role = "store_manager" -> "nemoclaw_manager"
                                       [] t.token.role = "data_analyst" -> "nemoclaw_data_analyst"
    BY <1>2, <1>3 DEF Session, StoreSetting, PG_ROLE_MAP, Transaction, Roles
  <1>5. t.token.role \in Roles
    BY <1>2 DEF Transaction
  <1>6. CASE sql.do = "insert"
    <2>1. e = Inserted(c, sql)
      BY <1>6 DEF Effect
    <2>2. i = <<c, t.next>> /\ Inserted(c, sql)[i].store = sql.store /\ Inserted(c, sql)[i].table = sql.table
      BY <1>1, <2>1 DEF Inserted
    <2>3. i \notin DOMAIN rows
      BY <1>1, <1>2, <2>2 DEF RetailInv, Once, Transaction
    <2>4. Policy(t.session, "insert", sql) /\ Granted(t.session.role, "insert")
      BY <1>1, <1>6 DEF Outcome
    <2>5. t.own => InScope(t.token, e[i], i \notin DOMAIN rows)
      BY <1>4, <1>5, <2>1, <2>2, <2>3, <2>4 DEF Policy, Granted, InScope, Roles
    <2>6. QED
      BY <1>1, <1>6, <2>1, <2>2, <2>3, <2>5
  <1>7. CASE sql.do \in {"update", "delete"}
    <2>1. e = Changed(c, sql)
      BY <1>7 DEF Effect
    <2>2. PICK row : row = Seen(c)[i]
      OBVIOUS
    <2>3. /\ i \in DOMAIN Seen(c) /\ Policy(t.session, sql.do, row)
          /\ e[i] = [row EXCEPT !.status = IF sql.do = "delete" THEN "deleted" ELSE "approved"]
      BY <1>1, <2>1, <2>2 DEF Changed, Matched
    <2>4. e[i].table = row.table /\ e[i].store = row.store
      BY <2>3
    <2>5. Granted(t.session.role, sql.do)
      BY <1>1, <1>7 DEF Outcome
    <2>6. sql.do = "update" => e[i].status # "deleted"
      BY <2>3
    <2>7. t.own => InScope(t.token, e[i], i \notin DOMAIN rows)
      BY <1>4, <1>5, <1>7, <2>3, <2>4, <2>5, <2>6 DEF Policy, Granted, InScope, Roles
    <2>8. QED
      BY <1>1, <1>7, <2>2, <2>3, <2>4, <2>7
  <1>8. CASE sql.do \notin {"insert", "update", "delete"}
    BY <1>8 DEF Effect, Nothing
  <1>9. QED
    BY <1>6, <1>7, <1>8

\* A statement that succeeds adds to what its transaction has written.
LEMMA ExecutesStep ==
  ASSUME RetailInv, NEW c \in Calls, Executes(c), cli' = cli
  PROVE  RetailInv'
  <1>1. AtStatement(c) /\ Landed(c) /\ UNCHANGED <<staff, rows, now>>
    BY DEF Executes, Landed
  <1>2. PICK s, sql, e : s = srv[c] /\ sql = Statement(c) /\ e = Effect(c, sql)
    OBVIOUS
  <1>3. CASE \E code : Answer(c, code, NoBody)
    BY <1>1, <1>3, PlainAnswer, StatementOf
  <1>4. ASSUME Outcome(s.session, sql) = 200,
               srv' = [srv EXCEPT ![c].next = @ + 1, ![c].effect = Over(e, @)]
        PROVE  RetailInv'
    <2>1. Transaction(s) /\ Planned(c) /\ srv[c].stage = "running"
      BY <1>1, <1>2, StatementOf
    <2>2. PICK f : f = Over(e, s.effect)
      OBVIOUS
    <2>3. PICK t : Goes(s, t, f)
      BY DEF Goes
    <2>4. /\ t.next = s.next + 1 /\ t.effect = f /\ t.text = s.text /\ t.own = s.own
          /\ t.token = s.token
      BY <2>1, <2>3, NextTransaction
    <2>5. Transaction(t)
      BY <2>1, <2>3, NextTransaction
    <2>6. srv' = [srv EXCEPT ![c] = t]
      BY <1>2, <1>4, <2>1, <2>2, <2>3 DEF RetailInv, Served, Transaction, Goes
    <2>7. Writing(c, t, Asked(c))
      <3>1. Writing(c, s, Asked(c))
        BY <1>2, <2>1 DEF Planned
      <3>2. /\ DOMAIN f = DOMAIN e \cup DOMAIN s.effect
            /\ \A i \in DOMAIN f : f[i] = IF i \in DOMAIN e THEN e[i] ELSE s.effect[i]
        BY <2>2 DEF Over
      <3>3. DOMAIN Seen(c) = DOMAIN s.effect \cup DOMAIN rows
        BY <1>2 DEF Seen, Over
      <3>4. sql.do = "insert" => Asked(c)
        BY <1>1, <1>2, <2>1, StatementOf DEF Planned, Asked
      <3>5. s.next \in Nat
        BY <2>1 DEF Transaction
      <3>6. ASSUME NEW i \in DOMAIN s.effect
            PROVE  \/ i \in DOMAIN rows
                   \/ Asked(c) /\ \E m \in Nat : m < s.next + 1 /\ i = <<c, m>>
        BY <3>1, <3>5 DEF Writing
      <3>7. ASSUME NEW i \in DOMAIN e
            PROVE  /\ \/ i \in DOMAIN rows
                      \/ Asked(c) /\ \E m \in Nat : m < s.next + 1 /\ i = <<c, m>>
                   /\ s.own => InScope(s.token, e[i], i \notin DOMAIN rows)
        <4>1. /\ \/ sql.do = "insert" /\ i = <<c, s.next>>
                 \/ i \in DOMAIN Seen(c)
              /\ s.own => InScope(s.token, e[i], i \notin DOMAIN rows)
          BY <1>1, <1>2, <1>4, EffectInScope
        <4>2. QED
          BY <3>3, <3>4, <3>5, <3>6, <4>1
      <3>8. ASSUME NEW i \in DOMAIN f
            PROVE  s.own => InScope(s.token, f[i], i \notin DOMAIN rows)
        BY <3>1, <3>2, <3>7 DEF Writing
      <3>9. QED
        BY <2>4, <3>2, <3>6, <3>7, <3>8 DEF Writing
    <2>8. Writing(c, t, Asked(c))'
      BY <1>1, <2>7 DEF Writing, Asked, InScope
    <2>9. QED
      BY <1>1, <1>2, <2>4, <2>5, <2>6, <2>8, TransactionOn
  <1>5. QED
    BY <1>2, <1>3, <1>4 DEF Executes

\* A text that sets role or store is the caller's, and leaves the token's session.
LEMMA SetsStep ==
  ASSUME RetailInv, NEW c \in Calls, SetsSession(c), cli' = cli
  PROVE  RetailInv'
  <1>1. AtStatement(c) /\ Statement(c).do = "set" /\ Landed(c) /\ UNCHANGED <<staff, rows, now>>
    BY DEF SetsSession, Landed
  <1>2. PICK s, n : s = srv[c] /\ n = Statement(c).session
    OBVIOUS
  <1>3. Transaction(s) /\ s.free /\ Planned(c) /\ srv[c].stage = "running"
    BY <1>1, <1>2, StatementOf
  <1>4. PICK t : t = [s EXCEPT !.next = s.next + 1, !.own = FALSE, !.session = n]
    OBVIOUS
  <1>5. Transaction(t) /\ t.next = s.next + 1 /\ t.text = s.text /\ t.effect = s.effect /\ ~t.own
    <2>1. Leaves(s, t, n, s.effect)
      BY <1>3, <1>4 DEF Leaves, Transaction
    <2>2. QED
      BY <1>3, <2>1, LeftTransaction
  <1>6. srv' = [srv EXCEPT ![c] = t]
    BY <1>2, <1>3, <1>4 DEF SetsSession, RetailInv, Served, Transaction
  <1>7. Writing(c, t, Asked(c))
    BY <1>2, <1>3, <1>5 DEF Planned, Writing, Transaction
  <1>8. Writing(c, t, Asked(c))'
    BY <1>1, <1>7 DEF Writing, Asked, InScope
  <1>9. QED
    BY <1>1, <1>2, <1>5, <1>6, <1>8, TransactionOn

\* A text that ends its transaction is the caller's, and its rows are there.
LEMMA EndsStep ==
  ASSUME RetailInv, NEW c \in Calls, EndsTransaction(c), cli' = cli
  PROVE  RetailInv'
  <1>1. AtStatement(c) /\ Statement(c).do = "commit" /\ UNCHANGED <<staff, now>>
    BY DEF EndsTransaction
  <1>2. PICK s : s = srv[c]
    OBVIOUS
  <1>3. Transaction(s) /\ s.free /\ srv[c].stage = "running"
    BY <1>1, <1>2, StatementOf
  <1>4. Landed(c)
    BY <1>3 DEF EndsTransaction, Landed
  <1>5. PICK t : Leaves(s, t, LoginSession, Nothing)
    BY DEF Leaves
  <1>6. Transaction(t) /\ t.next = s.next + 1 /\ t.text = s.text /\ t.effect = Nothing
    BY <1>3, <1>5, LeftTransaction
  <1>7. srv' = [srv EXCEPT ![c] = t]
    BY <1>2, <1>3, <1>5 DEF EndsTransaction, RetailInv, Served, Transaction, Leaves
  <1>8. Writing(c, t, Asked(c))'
    BY <1>6 DEF Writing, Nothing
  <1>9. QED
    BY <1>1, <1>2, <1>4, <1>6, <1>7, <1>8, TransactionOn

\* The server's own steps, for one call.
LEMMA ServeStep ==
  ASSUME RetailInv, NEW c \in Calls, Serve(c), cli' = cli
  PROVE  RetailInv'
  <1>1. CASE login(c) \/ login_telegram(c)
    BY <1>1, LoginStep
  <1>2. CASE get_current_employee(c)
    BY <1>2, AuthenticationStep
  <1>3. CASE me(c)
    BY <1>3, PlainAnswer DEF me, Holds, Landed
  <1>4. CASE execute_as_role(c)
    BY <1>4, ExecuteStep
  <1>5. CASE Executes(c)
    BY <1>5, ExecutesStep
  <1>6. CASE SetsSession(c)
    BY <1>6, SetsStep
  <1>7. CASE EndsTransaction(c)
    BY <1>7, EndsStep
  <1>8. CASE Breaks(c) \/ Commit(c) \/ CommitFails(c)
    BY <1>8, PlainAnswer DEF Breaks, Commit, CommitFails, Unsure, AtStatement, AtEnd, Holds, Landed
  <1>9. QED
    BY <1>1, <1>2, <1>3, <1>4, <1>5, <1>6, <1>7, <1>8 DEF Serve

-----------------------------------------------------------------------------
(* The environment's steps *)

\* A token stays backed when time passes, and when its employee changes: the
\* change happens within the token's lifetime.
LEMMA BackedOn ==
  ASSUME Staffed, StaffChanges \/ Tick \/ ApiRestarts, NEW t, Backed(t)
  PROVE  Backed(t)'
  <1> USE RetailAssumption DEF Staffed, Backed, Token
  <1>1. CASE StaffChanges
    <2>1. PICK e \in Employees, r \in Records :
            staff' = [staff EXCEPT ![e] = [role |-> r.role, store |-> r.store,
                                           active |-> r.active, since |-> now]]
      BY <1>1 DEF StaffChanges
    <2>2. now' = now
      BY <1>1 DEF StaffChanges
    <2>3. CASE t.emp = e
      BY <2>1, <2>2, <2>3
    <2>4. CASE t.emp # e
      BY <2>1, <2>2, <2>4
    <2>5. QED
      BY <2>3, <2>4
  <1>2. CASE Tick
    BY <1>2 DEF Tick
  <1>3. CASE ApiRestarts
    BY <1>3 DEF ApiRestarts
  <1>4. QED
    BY <1>1, <1>2, <1>3

\* Edits, time and restarts: requests under way are the same, or gone.
LEMMA EnvironmentStep ==
  ASSUME RetailInv, Environment, cli' = cli
  PROVE  RetailInv'
  <1>1. \A t : Backed(t) => Backed(t)'
    BY BackedOn DEF Environment, RetailInv
  <1>2. rows' = rows
    BY DEF Environment, StaffChanges, ApiRestarts, Tick
  <1>3. /\ srv' = [c \in Calls |-> srv'[c]]
        /\ \A c \in Calls : srv'[c] = srv[c] \/ srv'[c] = Idle
    BY DEF Environment, StaffChanges, ApiRestarts, Tick, RetailInv, Served
  <1>4. Staffed'
    <2> USE RetailAssumption DEF RetailInv, Staffed
    <2>1. CASE StaffChanges
      <3>1. PICK e \in Employees, r \in Records :
              staff' = [staff EXCEPT ![e] = [role |-> r.role, store |-> r.store,
                                             active |-> r.active, since |-> now]]
        BY <2>1 DEF StaffChanges
      <3>2. now' = now
        BY <2>1 DEF StaffChanges
      <3>3. QED
        BY <3>1, <3>2
    <2>2. CASE Tick \/ ApiRestarts
      BY <2>2 DEF Tick, ApiRestarts
    <2>3. QED
      BY <2>1, <2>2 DEF Environment
  <1>5. Clients'
    BY <1>1 DEF RetailInv, Clients
  <1>6. Served'
    <2>1. ASSUME NEW c \in Calls PROVE RequestOf(c)' /\ AnswerOf(c)'
      <3>1. CASE srv'[c] = Idle
        BY <3>1 DEF RequestOf, AnswerOf, Idle
      <3>2. CASE srv'[c] = srv[c]
        BY <1>1, <3>2 DEF RetailInv, Served, RequestOf, AnswerOf
      <3>3. QED
        BY <1>3, <3>1, <3>2
    <2>2. QED
      BY <1>3, <2>1 DEF Served
  <1>7. ASSUME NEW c \in Calls PROVE Planned(c)' /\ Once(c)'
    <2>1. CASE srv'[c] = Idle
      BY <1>2, <2>1 DEF RetailInv, Planned, Once, Asked, Idle
    <2>2. CASE srv'[c] = srv[c]
      BY <1>2, <2>2 DEF RetailInv, Planned, Once, Asked, Writing, InScope
    <2>3. QED
      BY <1>3, <2>1, <2>2
  <1>8. QED
    BY <1>4, <1>5, <1>6, <1>7 DEF RetailInv

-----------------------------------------------------------------------------
(* The clients' steps *)

\* A client that is done, its request left to the server or its answer read.
LEMMA DoneStep ==
  ASSUME RetailInv, NEW c \in Calls, NEW outcome, Done(c, outcome),
         srv' = srv \/ Read(c), UNCHANGED <<staff, rows, now>>
  PROVE  RetailInv'
  <1>0. \A t : Backed(t) => Backed(t)'
    BY StillBacked
  <1>1. /\ cli' = [d \in Calls |-> cli'[d]]
        /\ DOMAIN cli'[c] = {"stage", "cmd", "token", "outcome"}
        /\ cli'[c].stage = "done" /\ cli'[c].token = cli[c].token
        /\ \A d \in Calls \ {c} : cli'[d] = cli[d]
    BY DEF RetailInv, Clients, Done
  <1>2. /\ srv' = [d \in Calls |-> srv'[d]]
        /\ srv'[c] = srv[c] \/ srv'[c] = Idle
        /\ \A d \in Calls \ {c} : srv'[d] = srv[d]
    BY DEF RetailInv, Served, Read
  <1>3. Staffed'
    BY DEF RetailInv, Staffed
  <1>4. Clients'
    <2>1. ASSUME NEW d \in Calls PROVE (cli[d].token = NoToken \/ Backed(cli[d].token))'
      BY <1>0, <1>1 DEF RetailInv, Clients
    <2>2. ASSUME NEW d \in Calls
          PROVE  (cli[d].stage = "resolve" => Complete(cli[d].cmd) /\ Backed(cli[d].token))'
      BY <1>0, <1>1 DEF RetailInv, Clients, Complete, cmdTransfer, cmdReorder, cmdQuery
    <2>3. QED
      BY <1>1, <2>1, <2>2 DEF RetailInv, Clients
  <1>5. Served'
    <2>1. ASSUME NEW d \in Calls \ {c} PROVE RequestOf(d)' /\ AnswerOf(d)'
      BY <1>0, <1>1, <1>2, <2>1 DEF RetailInv, Served, RequestOf, AnswerOf
    <2>2. RequestOf(c)' /\ AnswerOf(c)'
      <3>1. CASE srv'[c] = srv[c]
        BY <1>0, <1>1, <3>1 DEF RetailInv, Served, RequestOf, AnswerOf
      <3>2. CASE srv'[c] = Idle
        BY <1>1, <3>2 DEF RequestOf, AnswerOf, Idle
      <3>3. QED
        BY <1>2, <3>1, <3>2
    <2>3. QED
      BY <1>2, <2>1, <2>2 DEF Served
  <1>6. ASSUME NEW d \in Calls PROVE Planned(d)' /\ Once(d)'
    BY <1>1, <1>2 DEF RetailInv, Planned, Once, Asked, Writing, InScope, Idle
  <1>7. QED
    BY <1>3, <1>4, <1>5, <1>6 DEF RetailInv

\* A client that sends its next request: it has not inserted a row.
LEMMA AskStep ==
  ASSUME RetailInv, NEW c \in Calls, NEW stage, NEW q, NEW k, apiRequest(c, stage, q, k),
         cli[c].stage \in {"idle", "login", "resolve"},
         stage \in {"login", "resolve", "request"},
         q.token = NoToken \/ Backed(q.token), q.at \in Routes,
         q.at \in Logins => q.arg.emp \in Employees,
         q.at \notin Logins => Backed(q.token),
         stage = "login" => q.at \in Logins,
         stage = "resolve" => Complete(k) /\ q.at = "/query" /\ q.arg.sql = Lookup,
         UNCHANGED <<staff, rows, now>>
  PROVE  RetailInv'
  <1>0. \A t : Backed(t) => Backed(t)'
    BY StillBacked
  <1>1. /\ cli' = [d \in Calls |-> cli'[d]]
        /\ DOMAIN cli'[c] = {"stage", "cmd", "token", "outcome"}
        /\ cli'[c].stage = stage /\ cli'[c].token = q.token /\ cli'[c].cmd = k
        /\ \A d \in Calls \ {c} : cli'[d] = cli[d]
    BY DEF RetailInv, Clients, apiRequest
  <1>2. /\ srv' = [d \in Calls |-> srv'[d]]
        /\ srv'[c] = [stage |-> "received", req |-> q]
        /\ \A d \in Calls \ {c} : srv'[d] = srv[d]
    BY DEF RetailInv, Served, apiRequest, Received
  <1>3. Staffed'
    BY DEF RetailInv, Staffed
  <1>4. q.token = NoToken \/ Backed(q.token)'
    BY <1>0
  <1>5. Clients'
    <2>1. ASSUME NEW d \in Calls \ {c} PROVE (cli[d].token = NoToken \/ Backed(cli[d].token))'
      BY <1>0, <1>1 DEF RetailInv, Clients
    <2>2. ASSUME NEW d \in Calls \ {c}
          PROVE  (cli[d].stage = "resolve" => Complete(cli[d].cmd) /\ Backed(cli[d].token))'
      BY <1>0, <1>1 DEF RetailInv, Clients, Complete, cmdTransfer, cmdReorder, cmdQuery
    <2>3. (cli[c].token = NoToken \/ Backed(cli[c].token))'
      <3>1. cli'[c].token = q.token
        BY <1>1
      <3>2. QED
        BY <1>4, <3>1
    <2>4. (cli[c].stage = "resolve" => Complete(cli[c].cmd) /\ Backed(cli[c].token))'
      <3>1. stage = "resolve" => Complete(k) /\ Backed(q.token)'
        BY <1>0 DEF Logins
      <3>2. cli'[c].cmd = k /\ cli'[c].token = q.token /\ cli'[c].stage = stage
        BY <1>1
      <3>3. QED
        BY <3>1, <3>2 DEF Complete, cmdTransfer, cmdReorder, cmdQuery
    <2>5. QED
      BY <1>1, <2>1, <2>2, <2>3, <2>4 DEF RetailInv, Clients
  <1>6. Served'
    <2>1. ASSUME NEW d \in Calls \ {c} PROVE RequestOf(d)' /\ AnswerOf(d)'
      BY <1>0, <1>1, <1>2, <2>1 DEF RetailInv, Served, RequestOf, AnswerOf
    <2>2. srv'[c].req = q /\ srv'[c].stage = "received" /\ cli'[c].stage = stage
      BY <1>1, <1>2
    <2>3. q.at \notin Logins => Backed(q.token)'
      BY <1>0
    <2>4. RequestOf(c)' /\ AnswerOf(c)'
      BY <1>2, <2>2, <2>3 DEF RequestOf, AnswerOf
    <2>5. QED
      BY <1>2, <2>1, <2>4 DEF Served
  <1>7. \A m \in Nat : <<c, m>> \notin DOMAIN rows
    BY DEF RetailInv, Once, Asked
  <1>8. ASSUME NEW d \in Calls PROVE Planned(d)' /\ Once(d)'
    BY <1>1, <1>2, <1>7 DEF RetailInv, Planned, Once, Asked, Writing, InScope
  <1>9. QED
    BY <1>3, <1>5, <1>6, <1>8 DEF RetailInv

\* A client starts with a login.
LEMMA StartStep ==
  ASSUME RetailInv, NEW c \in Calls, NEW e \in Employees, NEW good,
         Start(c, loginByTelegram(e, good)) \/ Start(c, loginByPassword(e, good))
  PROVE  RetailInv'
  <1>1. PICK q : /\ Start(c, q)
                 /\ q \in {loginByTelegram(e, good), loginByPassword(e, good)}
    OBVIOUS
  <1>2. /\ q.at \in Logins /\ q.arg.emp = e /\ q.token = NoToken /\ q.at \in Routes
    BY <1>1 DEF loginByTelegram, loginByPassword, Request, Logins, Routes
  <1>3. /\ apiRequest(c, "login", q, NoCommand) /\ cli[c].stage = "idle"
        /\ UNCHANGED <<staff, rows, now>>
    BY <1>1 DEF Start
  <1>4. QED
    BY <1>2, <1>3, AskStep

\* A command sends its request with a backed token.
LEMMA SendStep ==
  ASSUME RetailInv, NEW c \in Calls, cli[c].stage \in {"idle", "login", "resolve"},
         NEW k, k.name \in DOMAIN Route, NEW t, Backed(t), Send(c, k, t),
         UNCHANGED <<staff, rows, now>>
  PROVE  RetailInv'
  <1>1. PICK q : q = Request(Route[k.name], k.valid, k.arg, t)
    OBVIOUS
  <1>2. q.at \notin Logins /\ q.token = t /\ q.at \in Routes
    BY <1>1 DEF Request, Route, Logins, Routes
  <1>3. apiRequest(c, "request", q, k)
    BY <1>1 DEF Send
  <1>4. QED
    BY <1>2, <1>3, AskStep

\* A command that looks its product up first.
LEMMA ResolveStep ==
  ASSUME RetailInv, NEW c \in Calls, cli[c].stage = "login", NEW k, Complete(k),
         NEW t, Backed(t),
         resolveProductId(c, k, t), UNCHANGED <<staff, rows, now>>
  PROVE  RetailInv'
  <1>1. PICK q : q = Request("/query", TRUE, [sql |-> Lookup], t)
    OBVIOUS
  <1>2. q.at = "/query" /\ q.token = t /\ q.arg.sql = Lookup
    BY <1>1 DEF Request
  <1>3. q.at \notin Logins /\ q.at \in Routes
    BY <1>2 DEF Logins, Routes, Route
  <1>4. apiRequest(c, "resolve", q, k)
    BY <1>1 DEF resolveProductId, Lookup
  <1>5. QED
    BY <1>2, <1>3, <1>4, AskStep

\* The steps of a client.
LEMMA ClientStep ==
  ASSUME RetailInv, NEW c \in Calls, Client(c)
  PROVE  RetailInv'
  <1>1. CASE Usage(c)
    BY <1>1, DoneStep DEF Usage, apiVars
  <1>2. CASE \E e \in Employees, good \in BOOLEAN :
               Start(c, loginByTelegram(e, good)) \/ Start(c, loginByPassword(e, good))
    BY <1>2, StartStep
  <1>3. ASSUME NEW d \in Calls, NEW k \in Commands, Present(c, d, k)
        PROVE  RetailInv'
    <2>1. PICK t : t = cli[d].token
      OBVIOUS
    <2>2. Backed(t)
      BY <1>3, <2>1 DEF Present, RetailInv, Clients
    <2>3. /\ cli[c].stage = "idle" /\ k.name \in DOMAIN Route /\ Send(c, k, t)
          /\ UNCHANGED <<staff, rows, now>>
      BY <1>3, <2>1 DEF Present, Complete
    <2>4. QED
      BY <2>2, <2>3, SendStep
  <1>4. CASE LoggedIn(c)
    <2>1. /\ cli[c].stage = "login" /\ srv[c].stage = "answered"
          /\ UNCHANGED <<staff, rows, now>>
      BY <1>4 DEF LoggedIn, Holds
    <2>2. CASE \E o : Done(c, o) /\ Read(c)
      BY <2>1, <2>2, DoneStep
    <2>3. ASSUME srv[c].code = 200, NEW k, Complete(k),
                 \/ resolveProductId(c, k, srv[c].got.token)
                 \/ Send(c, k, srv[c].got.token)
          PROVE  RetailInv'
      <3>1. PICK t : t = srv[c].got.token
        OBVIOUS
      <3>2. Backed(t)
        BY <2>1, <2>3, <3>1 DEF RetailInv, Served, AnswerOf
      <3>3. k.name \in DOMAIN Route
        BY <2>3 DEF Complete
      <3>4. CASE resolveProductId(c, k, t)
        BY <2>1, <2>3, <3>2, <3>4, ResolveStep
      <3>5. CASE Send(c, k, t)
        BY <2>1, <3>2, <3>3, <3>5, SendStep
      <3>6. QED
        BY <2>3, <3>1, <3>4, <3>5
    <2>4. QED
      BY <1>4, <2>2, <2>3 DEF LoggedIn
  <1>5. CASE Resolved(c)
    <2>1. /\ cli[c].stage = "resolve" /\ UNCHANGED <<staff, rows, now>>
      BY <1>5 DEF Resolved
    <2>2. CASE \E o : Done(c, o) /\ Read(c)
      BY <2>1, <2>2, DoneStep
    <2>3. CASE Send(c, cli[c].cmd, cli[c].token)
      <3>1. PICK k, t : k = cli[c].cmd /\ t = cli[c].token
        OBVIOUS
      <3>2. Backed(t) /\ k.name \in DOMAIN Route
        BY <2>1, <3>1 DEF RetailInv, Clients, Complete
      <3>3. QED
        BY <2>1, <2>3, <3>1, <3>2, SendStep
    <2>4. QED
      BY <1>5, <2>2, <2>3 DEF Resolved
  <1>6. CASE Prints(c)
    <2>1. PICK o : Done(c, o)
      BY <1>6 DEF Prints
    <2>2. QED
      BY <1>6, <2>1, DoneStep DEF Prints
  <1>7. CASE TimesOut(c)
    BY <1>7, DoneStep DEF TimesOut, apiVars
  <1>8. QED
    BY <1>1, <1>2, <1>3, <1>4, <1>5, <1>6, <1>7 DEF Client, main

-----------------------------------------------------------------------------
\* Every step keeps the invariant.
LEMMA RetailNext == RetailInv /\ [Next]_vars => RetailInv'
  <1> SUFFICES ASSUME RetailInv, [Next]_vars PROVE RetailInv'
    OBVIOUS
  <1>1. CASE Outside
    BY <1>1, EnvironmentStep DEF Outside
  <1>2. ASSUME NEW c \in Calls, Client(c) PROVE RetailInv'
    BY <1>2, ClientStep
  <1>3. ASSUME NEW c \in Calls, Server(c) PROVE RetailInv'
    BY <1>3, ServeStep DEF Server
  <1>4. CASE UNCHANGED vars
    <2>1. /\ cli' = cli /\ srv' = srv /\ rows' = rows /\ staff' = staff /\ now' = now
      BY <1>4 DEF vars, apiVars
    <2>2. Staffed' /\ Clients'
      BY <2>1, ServerKeeps
    <2>3. Served'
      BY <2>1, StillBacked DEF RetailInv, Served, RequestOf, AnswerOf
    <2>4. \A c \in Calls : Planned(c)' /\ Once(c)'
      BY <2>1 DEF RetailInv, Planned, Once, Asked, Writing, InScope
    <2>5. QED
      BY <2>2, <2>3, <2>4 DEF RetailInv
  <1>5. QED
    BY <1>1, <1>2, <1>3, <1>4 DEF Next

\* Tokens are backed and transactions planned in scope, always.
THEOREM RetailInductive == Spec => []RetailInv
  BY RetailInit, RetailNext, PTL DEF Spec

-----------------------------------------------------------------------------
\* Only the end of a transaction changes a row: its call's request moves on.
LEMMA RowsKept ==
  ASSUME RetailInv, [Next]_vars
  PROVE  \/ rows' = rows
         \/ \E c \in Calls : srv[c].stage = "running" /\ rows' = Seen(c) /\ srv'[c] # srv[c]
  <1>1. CASE Outside
    BY <1>1 DEF Outside, Environment, StaffChanges, ApiRestarts, Tick
  <1>2. ASSUME NEW c \in Calls, Client(c) PROVE rows' = rows
    BY <1>2 DEF Client, main, Usage, Start, Present, LoggedIn, Resolved, Prints, TimesOut, apiVars
  <1>3. ASSUME NEW c \in Calls, Server(c)
        PROVE  rows' = rows \/ (srv[c].stage = "running" /\ rows' = Seen(c) /\ srv'[c] # srv[c])
    <2>1. CASE login(c) \/ login_telegram(c) \/ get_current_employee(c) \/ me(c) \/ execute_as_role(c)
               \/ Executes(c) \/ SetsSession(c)
      BY <2>1 DEF login, login_telegram, get_current_employee, me, execute_as_role, Executes,
                  SetsSession
    <2>2. CASE EndsTransaction(c)
      <3>1. AtStatement(c) /\ rows' = Seen(c)
        BY <2>2 DEF EndsTransaction
      <3>2. srv[c].stage = "running" /\ srv[c].next \in Nat /\ Transaction(srv[c])
        BY <3>1, StatementOf DEF Transaction
      <3>3. srv'[c].next = srv[c].next + 1
        BY <2>2, <3>2 DEF EndsTransaction, RetailInv, Served, Transaction
      <3>4. QED
        BY <3>1, <3>2, <3>3
    <2>3. CASE Breaks(c) \/ Commit(c) \/ CommitFails(c)
      <3>1. \E code : Answer(c, code, NoBody)
        BY <2>3 DEF Breaks, Commit, CommitFails
      <3>2. srv'[c].stage = "answered"
        BY <3>1 DEF Answer, RetailInv, Served
      <3>3. srv[c].stage = "running" /\ (rows' = rows \/ rows' = Seen(c))
        BY <2>3 DEF Breaks, Commit, CommitFails, Unsure, AtStatement, AtEnd, Holds
      <3>4. QED
        BY <3>2, <3>3
    <2>4. QED
      BY <1>3, <2>1, <2>2, <2>3 DEF Server, Serve
  <1>4. QED
    BY <1>1, <1>2, <1>3 DEF Next, vars, apiVars

\* Every row that appears, changes or goes is in the scope of the token of the
\* request that commits it, for any endpoint, employee, command and text, unless
\* the text had left the session it was given.
THEOREM WritesStayInScope == Spec => WritesInScope
  <1> DEFINE Scoped ==
        \A i \in DOMAIN rows' :
          \/ i \in DOMAIN rows /\ rows'[i] = rows[i]
          \/ \E c \in Calls :
               /\ Holds(c, "running") /\ srv'[c] # srv[c]
               /\ \/ srv[c].own /\ InScope(srv[c].token, rows'[i], i \notin DOMAIN rows)
                  \/ srv[c].free /\ ~srv[c].own
  <1>1. ASSUME RetailInv, [Next]_vars PROVE Scoped
    <2>1. CASE rows' = rows
      BY <2>1
    <2>2. ASSUME NEW c \in Calls, srv[c].stage = "running", rows' = Seen(c), srv'[c] # srv[c],
                 NEW i \in DOMAIN rows', ~(i \in DOMAIN rows /\ rows'[i] = rows[i])
          PROVE  /\ Holds(c, "running") /\ srv'[c] # srv[c]
                 /\ \/ srv[c].own /\ InScope(srv[c].token, rows'[i], i \notin DOMAIN rows)
                    \/ srv[c].free /\ ~srv[c].own
      <3>1. i \in DOMAIN srv[c].effect /\ rows'[i] = srv[c].effect[i]
        BY <1>1, <2>2, LandedRows DEF Landed
      <3>2. Writing(c, srv[c], Asked(c)) /\ Transaction(srv[c])
        BY <1>1, <2>2 DEF RetailInv, Planned
      <3>3. srv[c].own => InScope(srv[c].token, rows'[i], i \notin DOMAIN rows)
        BY <3>1, <3>2 DEF Writing
      <3>4. ~srv[c].own => srv[c].free
        BY <3>2 DEF Transaction
      <3>5. QED
        BY <2>2, <3>3, <3>4 DEF Holds
    <2>3. QED
      BY <1>1, <2>1, <2>2, RowsKept
  <1>2. QED
    BY <1>1, RetailInductive, PTL DEF Spec, WritesInScope, vars, apiVars

\* Only the dependency of the endpoints lets a request in.
LEMMA LetIn ==
  ASSUME RetailInv, [Next]_vars, NEW c \in Calls,
         Holds(c, "received"), srv'[c].stage = "authenticated"
  PROVE  get_current_employee(c)
  <1> USE DEF Holds, RetailInv, Served
  <1>1. CASE Outside
    BY <1>1 DEF Outside, Environment, StaffChanges, ApiRestarts, Tick, Idle
  <1>2. ASSUME NEW d \in Calls, Client(d) PROVE FALSE
    <2>1. srv' = srv \/ Read(d) \/ \E q : Received(d, q)
      BY <1>2 DEF Client, main, Usage, Start, Present, LoggedIn, Resolved, Prints, TimesOut,
                  apiVars, Send, resolveProductId, apiRequest
    <2>2. CASE srv' = srv
      BY <2>2
    <2>3. CASE Read(d)
      BY <2>3 DEF Read, Idle
    <2>4. CASE \E q : Received(d, q)
      BY <2>4 DEF Received
    <2>5. QED
      BY <2>1, <2>2, <2>3, <2>4
  <1>3. ASSUME NEW d \in Calls, Server(d) PROVE d = c /\ get_current_employee(c)
    <2>1. CASE get_current_employee(d)
      BY <2>1 DEF get_current_employee, Answer
    <2>2. CASE \E code, got : Answer(d, code, got)
      BY <2>2 DEF Answer
    <2>3. CASE srv[d].stage # "received" /\ \A e \in Calls \ {d} : srv'[e] = srv[e]
      BY <2>3
    <2>4. QED
      BY <1>3, <2>1, <2>2, <2>3 DEF Server, Serve, login, login_telegram, Issue, me, execute_as_role,
           Executes, SetsSession, EndsTransaction, Breaks, Commit, CommitFails, AtStatement
  <1>4. QED
    BY <1>1, <1>2, <1>3 DEF Next, vars, apiVars

\* A request is let in with claims that its employee lost at most a token's
\* lifetime ago, however often the employees change.
THEOREM StaleTokensLockedOut == Spec => StaleTokensExpire
  <1>1. ASSUME RetailInv, [Next]_vars, NEW c \in Calls,
               Holds(c, "received"), srv'[c].stage = "authenticated",
               NEW t, t = srv[c].req.token
        PROVE  \/ staff[t.emp].active /\ staff[t.emp].role = t.role /\ staff[t.emp].store = t.store
               \/ now <= staff[t.emp].since + Lifetime
    <2>1. get_current_employee(c)
      BY <1>1, LetIn
    <2>2. Backed(t) /\ ~Expired(t)
      BY <1>1, <2>1 DEF get_current_employee, Answer, RetailInv, Served, RequestOf, Holds, Logins
    <2>3. QED
      BY <1>1, <2>2, RetailAssumption DEF Backed, Expired, Token, RetailInv, Staffed
  <1>2. ASSUME RetailInv, [Next]_vars
        PROVE  \A c \in Calls :
                 Holds(c, "received") /\ srv'[c].stage = "authenticated" =>
                   LET t == srv[c].req.token
                       s == staff[t.emp]
                   IN \/ s.active /\ s.role = t.role /\ s.store = t.store
                      \/ now <= s.since + Lifetime
    BY <1>1, <1>2
  <1>3. QED
    BY <1>2, RetailInductive, PTL DEF Spec, StaleTokensExpire, vars, apiVars

-----------------------------------------------------------------------------
(* What a command prints *)

Codes == {200, 400, 401, 403, 422, 500}
NoRow(c) == \A m \in Nat : <<c, m>> \notin DOMAIN rows

\* What a transaction writes over a row is the same row but for its status.
Unmoved(c) ==
  srv[c].stage = "running" =>
    \A i \in DOMAIN srv[c].effect \cap DOMAIN rows :
      srv[c].effect[i].table = rows[i].table /\ srv[c].effect[i].store = rows[i].store

\* From its request to its answer, a write command has the row it asked for on
\* the way; an error other than a 500 leaves none, and nobody works on for a
\* command that told.
Ordered(c) == cli[c].stage = "request" /\ cli[c].cmd.name \in Writes
Way(c) ==
  Ordered(c) =>
    /\ srv[c].stage \in {"received", "authenticated"} =>
         /\ srv[c].req.at = Route[cli[c].cmd.name] /\ srv[c].req.arg = cli[c].cmd.arg
         /\ srv[c].req.token = cli[c].token
    /\ srv[c].stage = "running" =>
         /\ ~srv[c].free /\ NoRow(c)
         /\ \E sql : /\ srv[c].text = <<sql>> /\ sql.do = "insert"
                     /\ Placed(cli[c].cmd, cli[c].token, sql)
         /\ srv[c].next # 1 => /\ <<c, 1>> \in DOMAIN srv[c].effect
                               /\ Placed(cli[c].cmd, cli[c].token, srv[c].effect[<<c, 1>>])
    /\ srv[c].stage = "answered" /\ srv[c].code = 200 =>
         <<c, 1>> \in DOMAIN rows /\ Placed(cli[c].cmd, cli[c].token, rows[<<c, 1>>])
    /\ srv[c].stage = "answered" /\ srv[c].code \notin {200, 500} => NoRow(c)
Told(c) ==
  /\ cli[c].stage = "idle" => srv[c].stage = "none"
  /\ cli[c].stage # "done" => cli[c].outcome = "none"
  /\ srv[c].stage = "answered" => srv[c].code \in Codes
  /\ cli[c].outcome \in {"refused", "usage"} /\ cli[c].cmd.name \in Writes
       => srv[c].stage = "none" /\ NoRow(c)

ToldInv == \A c \in Calls : Unmoved(c) /\ Way(c) /\ Told(c)

\* Nothing was asked yet, so nothing is told at the start.
LEMMA ToldInit == Init => ToldInv
  BY RetailAssumption DEF Init, ApiInit, ToldInv, Unmoved, Way, Ordered, Told, Idle

\* A row is what a command asked for by its table and its store alone.
LEMMA PlacedAs ==
  ASSUME NEW k, NEW who, NEW row, NEW other, Placed(k, who, row),
         other.table = row.table, other.store = row.store
  PROVE  Placed(k, who, other)
  BY DEF Placed

\* A step that leaves the call's client, request and rows alone.
LEMMA ToldAside ==
  ASSUME ToldInv, NEW d \in Calls, cli'[d] = cli[d], srv'[d] = srv[d] \/ srv'[d] = Idle,
         rows' = rows
  PROVE  Unmoved(d)' /\ Way(d)' /\ Told(d)'
  BY DEF ToldInv, Unmoved, Way, Ordered, Told, NoRow, Placed, Source, Idle

\* A commit keeps table and store of the rows there are.
LEMMA LandedUnmoved ==
  ASSUME RetailInv, ToldInv, NEW c \in Calls, Landed(c), NEW i \in DOMAIN rows
  PROVE  i \in DOMAIN rows' /\ rows'[i].table = rows[i].table /\ rows'[i].store = rows[i].store
  BY LandedRows DEF ToldInv, Unmoved

\* A commit of one call leaves what the others were told.
LEMMA ToldOthers ==
  ASSUME RetailInv, ToldInv, NEW c \in Calls, Landed(c), cli' = cli,
         NEW d \in Calls \ {c}, srv'[d] = srv[d]
  PROVE  Unmoved(d)' /\ Way(d)' /\ Told(d)'
  <1>1. \A m \in Nat : <<d, m>> \in DOMAIN rows' <=> <<d, m>> \in DOMAIN rows
    BY LandedRows
  <1>2. Unmoved(d) /\ Way(d) /\ Told(d) /\ Planned(d)
    BY DEF ToldInv, RetailInv
  <1>3. Told(d)'
    BY <1>1, <1>2 DEF Told, NoRow
  <1>4. Unmoved(d)'
    <2>1. ASSUME srv[d].stage = "running", NEW i \in DOMAIN srv[d].effect \cap DOMAIN rows'
          PROVE  i \in DOMAIN rows
      BY <1>1, <1>2, <2>1 DEF Planned, Writing
    <2>2. QED
      BY <1>2, <2>1, LandedUnmoved DEF Unmoved
  <1>5. Way(d)'
    <2>1. PICK row : row = rows[<<d, 1>>]
      OBVIOUS
    <2>2. PICK new : new = rows'[<<d, 1>>]
      OBVIOUS
    <2>3. <<d, 1>> \in DOMAIN rows =>
            /\ <<d, 1>> \in DOMAIN rows'
            /\ Placed(cli[d].cmd, cli[d].token, row) => Placed(cli[d].cmd, cli[d].token, new)
      BY <2>1, <2>2, LandedUnmoved, PlacedAs
    <2>4. NoRow(d) => NoRow(d)'
      BY <1>1 DEF NoRow
    <2>5. PICK s, k, who : s = srv[d] /\ k = cli[d].cmd /\ who = cli[d].token
      OBVIOUS
    <2>6. s = srv'[d] /\ k = cli'[d].cmd /\ who = cli'[d].token /\ cli'[d].stage = cli[d].stage
      BY <2>5
    <2>7. QED
      BY <1>2, <2>1, <2>2, <2>3, <2>4, <2>5, <2>6 DEF Way, Ordered
  <1>6. QED
    BY <1>3, <1>4, <1>5

\* What an answer of this code means to a write command, where it arrives.
Means(c, code) ==
  Ordered(c) =>
    /\ code = 200 => <<c, 1>> \in DOMAIN rows' /\ Placed(cli[c].cmd, cli[c].token, rows'[<<c, 1>>])
    /\ code \notin {200, 500} => rows' = rows

\* An answer: for a write command either its transaction landed the row it asked
\* for, or nothing is known of it, or there is none.
LEMMA ToldAnswered ==
  ASSUME RetailInv, ToldInv, NEW c \in Calls, NEW code \in Codes, NEW got,
         srv[c].stage \in {"received", "authenticated", "running"}, Answer(c, code, got),
         Landed(c), cli' = cli, Means(c, code)
  PROVE  ToldInv'
  <1>1. /\ srv'[c].stage = "answered" /\ srv'[c].code = code
        /\ \A d \in Calls \ {c} : srv'[d] = srv[d]
    BY DEF Answer, RetailInv, Served
  <1>2. Unmoved(c)
    BY DEF ToldInv
  <1>3. Ordered(c) /\ code \notin {200, 500} => NoRow(c)'
    <2>1. Ordered(c) => NoRow(c)
      BY DEF ToldInv, Way, NoRow, RetailInv, Once
    <2>2. QED
      BY <2>1 DEF NoRow, Means
  <1>4. Unmoved(c)' /\ Told(c)'
    <2>1. cli[c].outcome \notin {"refused", "usage"} \/ cli[c].cmd.name \notin Writes
      BY DEF ToldInv, Told
    <2>2. QED
      BY <1>1, <2>1 DEF ToldInv, Unmoved, Told
  <1>5. Way(c)'
    <2>1. Ordered(c)' = Ordered(c)
      BY DEF Ordered
    <2>2. PICK k, who, row : k = cli[c].cmd /\ who = cli[c].token /\ row = rows'[<<c, 1>>]
      OBVIOUS
    <2>3. Ordered(c) /\ code = 200 => Placed(k, who, row) /\ <<c, 1>> \in DOMAIN rows'
      BY <2>2 DEF Means
    <2>4. k = cli'[c].cmd /\ who = cli'[c].token
      BY <2>2
    <2>5. QED
      BY <1>1, <1>3, <2>1, <2>2, <2>3, <2>4 DEF Way
  <1>6. QED
    BY <1>1, <1>4, <1>5, ToldOthers DEF ToldInv

\* An answer that is no end of a transaction.
LEMMA ToldPlain ==
  ASSUME RetailInv, ToldInv, NEW c \in Calls, NEW code \in Codes, NEW got,
         srv[c].stage \in {"received", "authenticated", "running"}, Answer(c, code, got),
         UNCHANGED <<cli, rows>>, Ordered(c) => code # 200
  PROVE  ToldInv'
  <1>1. Means(c, code)
    BY DEF Means
  <1>2. Landed(c)
    BY DEF Landed
  <1>3. QED
    BY <1>1, <1>2, ToldAnswered

\* Logins, the check of the token, and the one endpoint without a statement.
LEMMA ToldBefore ==
  ASSUME RetailInv, ToldInv, NEW c \in Calls, cli' = cli,
         login(c) \/ login_telegram(c) \/ get_current_employee(c) \/ me(c)
  PROVE  ToldInv'
  <1>0. /\ Way(c) /\ Told(c) /\ rows' = rows /\ Landed(c)
        /\ srv[c].stage \in {"received", "authenticated"}
    BY DEF ToldInv, Holds, Landed, login, login_telegram, get_current_employee, me
  <1>1. CASE login(c) \/ login_telegram(c)
    <2>1. \E code \in Codes : \E got : Answer(c, code, got)
      BY <1>1 DEF login, login_telegram, Issue, Codes
    <2>2. srv[c].req.at \in Logins
      BY <1>1 DEF login, login_telegram, Logins
    <2>3. ~Ordered(c)
      BY <1>0, <2>2 DEF Way, Ordered, Writes, Route, Logins
    <2>4. QED
      BY <1>0, <2>1, <2>3, ToldPlain
  <1>2. CASE me(c)
    <2>1. \E code \in Codes : \E got : Answer(c, code, got)
      BY <1>2 DEF me, Codes
    <2>2. ~Ordered(c)
      BY <1>0, <1>2 DEF me, Way, Ordered, Writes, Route
    <2>3. QED
      BY <1>0, <2>1, <2>2, ToldPlain
  <1>3. CASE get_current_employee(c) /\ Answer(c, 401, NoBody)
    BY <1>0, <1>3, ToldPlain DEF Codes
  <1>4. CASE get_current_employee(c) /\ Answer(c, 422, NoBody)
    BY <1>0, <1>4, ToldPlain DEF Codes
  <1>5. CASE get_current_employee(c) /\ srv' = [srv EXCEPT ![c].stage = "authenticated"]
    <2>1. /\ srv'[c] = [stage |-> "authenticated", req |-> srv[c].req]
          /\ \A d \in Calls \ {c} : srv'[d] = srv[d]
      BY <1>0, <1>5 DEF RetailInv, Served, RequestOf
    <2>2. Unmoved(c)' /\ Way(c)' /\ Told(c)'
      BY <1>0, <2>1 DEF ToldInv, Unmoved, Way, Ordered, Told, NoRow
    <2>3. ASSUME NEW d \in Calls \ {c} PROVE Unmoved(d)' /\ Way(d)' /\ Told(d)'
      BY <1>0, <2>1, ToldAside
    <2>4. QED
      BY <2>2, <2>3 DEF ToldInv
  <1>6. QED
    BY <1>1, <1>2, <1>3, <1>4, <1>5 DEF get_current_employee

\* A transaction begins with the insertion its write command asked for.
LEMMA ToldExecute ==
  ASSUME RetailInv, ToldInv, NEW c \in Calls, execute_as_role(c), cli' = cli
  PROVE  ToldInv'
  <1>1. /\ srv[c].stage = "authenticated" /\ srv[c].req.at # "/auth/me"
        /\ Way(c) /\ Told(c) /\ rows' = rows /\ NoRow(c) /\ Landed(c)
    BY DEF execute_as_role, Holds, ToldInv, RetailInv, Once, NoRow, Landed
  <1>2. srv[c].req.at \in Routes \ (Logins \cup {"/auth/me"})
    BY <1>1 DEF RetailInv, Served, RequestOf
  <1>3. PICK who, at, arg, plan :
          /\ who = srv[c].req.token /\ at = srv[c].req.at /\ arg = srv[c].req.arg
          /\ plan = Endpoint(who, at, arg)
    OBVIOUS
  <1>4. Plans(who, at, arg, plan)
    BY <1>2, <1>3, EndpointPlan
  <1>5. CASE (plan.refused /\ Answer(c, plan.code, NoBody)) \/ Answer(c, 500, NoBody)
    <2>1. \E code \in Codes \ {200} : Answer(c, code, NoBody)
      BY <1>4, <1>5 DEF Plans, Codes
    <2>2. QED
      BY <1>1, <2>1, ToldPlain
  <1> DEFINE t == [stage |-> "running", free |-> at = "/query", token |-> who, text |-> plan.text,
                   next |-> 1, session |-> Session(who), own |-> TRUE, effect |-> Nothing]
  <1>6. ASSUME ~plan.refused, srv' = [srv EXCEPT ![c] = t]
        PROVE  ToldInv'
    <2>1. srv'[c] = t /\ \A d \in Calls \ {c} : srv'[d] = srv[d]
      BY <1>6 DEF RetailInv, Served
    <2>2. /\ t.stage = "running" /\ t.text = plan.text /\ t.next = 1 /\ DOMAIN t.effect = {}
          /\ t.free <=> at = "/query"
      BY DEF Nothing
    <2> HIDE DEF t
    <2>3. Unmoved(c)' /\ Told(c)'
      <3>1. cli[c].outcome \notin {"refused", "usage"} \/ cli[c].cmd.name \notin Writes
        BY <1>1 DEF Told
      <3>2. QED
        BY <1>1, <2>1, <2>2, <3>1 DEF Unmoved, Told
    <2>4. PICK k : k = cli[c].cmd
      OBVIOUS
    <2>5. ASSUME Ordered(c)
          PROVE  \E sql : /\ t.text = <<sql>> /\ sql.do = "insert"
                          /\ Placed(k, who, sql)
      <3>1. at = Route[k.name] /\ arg = k.arg /\ k.name \in Writes
        BY <1>1, <1>3, <2>4, <2>5 DEF Way, Ordered
      <3>2. CASE k.name = "transfer"
        <4>1. PICK sql : /\ plan.text = <<sql>> /\ sql.do = "insert"
                         /\ sql.table = "transfer" /\ sql.store = Source(who, arg.from)
          BY <1>4, <1>6, <3>1, <3>2 DEF Plans, Route
        <4>2. Placed(k, who, sql)
          BY <3>1, <3>2, <4>1 DEF Placed
        <4>3. QED
          BY <2>2, <4>1, <4>2
      <3>3. CASE k.name = "reorder"
        <4>1. PICK sql : /\ plan.text = <<sql>> /\ sql.do = "insert"
                         /\ sql.table = "reorder" /\ sql.store = Source(who, arg.store)
          BY <1>4, <1>6, <3>1, <3>3 DEF Plans, Route
        <4>2. Placed(k, who, sql)
          BY <3>1, <3>3, <4>1 DEF Placed
        <4>3. QED
          BY <2>2, <4>1, <4>2
      <3>4. QED
        BY <3>1, <3>2, <3>3 DEF Writes
    <2>6. Ordered(c) => ~t.free /\ who = cli[c].token
      BY <1>1, <1>3, <2>2 DEF Way, Ordered, Writes, Route
    <2>7. Way(c)'
      <3>1. Ordered(c)' = Ordered(c) /\ NoRow(c)' /\ k = cli'[c].cmd /\ cli'[c].token = cli[c].token
        BY <1>1, <2>4 DEF Ordered, NoRow
      <3>2. QED
        BY <2>1, <2>2, <2>5, <2>6, <3>1 DEF Way
    <2>8. ASSUME NEW d \in Calls \ {c} PROVE Unmoved(d)' /\ Way(d)' /\ Told(d)'
      BY <1>1, <2>1, ToldAside
    <2>9. QED
      BY <2>3, <2>7, <2>8 DEF ToldInv
  <1>7. QED
    BY <1>3, <1>5, <1>6 DEF execute_as_role

\* A statement keeps table and store of the rows there are, and the one of a
\* write command is the insertion of its row.
LEMMA ToldExecutes ==
  ASSUME RetailInv, ToldInv, NEW c \in Calls, Executes(c), cli' = cli
  PROVE  ToldInv'
  <1>1. AtStatement(c) /\ Landed(c) /\ rows' = rows
    BY DEF Executes, Landed
  <1>2. PICK s, sql, e, f : /\ s = srv[c] /\ sql = Statement(c) /\ e = Effect(c, sql)
                            /\ f = Over(e, s.effect)
    OBVIOUS
  <1>3. /\ Transaction(s) /\ srv[c].stage = "running" /\ Way(c) /\ Told(c) /\ Unmoved(c)
        /\ ~s.free => s.next = 1 /\ s.text = <<sql>>
    BY <1>1, <1>2, StatementOf DEF ToldInv
  <1>4. CASE Outcome(s.session, sql) # 200 /\ Answer(c, Outcome(s.session, sql), NoBody)
    <2>1. Outcome(s.session, sql) \in Codes
      BY DEF Outcome, Codes
    <2>2. QED
      BY <1>1, <1>3, <1>4, <2>1, ToldPlain
  <1>5. ASSUME Outcome(s.session, sql) = 200,
               srv' = [srv EXCEPT ![c].next = @ + 1, ![c].effect = Over(e, @)]
        PROVE  ToldInv'
    <2>1. PICK t : t = srv'[c]
      OBVIOUS
    <2>2. /\ \A d \in Calls \ {c} : srv'[d] = srv[d]
          /\ t.stage = "running" /\ t.free = s.free /\ t.text = s.text /\ t.effect = f
      BY <1>2, <1>3, <1>5, <2>1 DEF RetailInv, Served, Transaction
    <2>3. /\ DOMAIN f = DOMAIN e \cup DOMAIN s.effect
          /\ \A i \in DOMAIN f : f[i] = IF i \in DOMAIN e THEN e[i] ELSE s.effect[i]
      BY <1>2 DEF Over
    <2>4. ASSUME NEW i \in DOMAIN s.effect \cap DOMAIN rows
          PROVE  s.effect[i].table = rows[i].table /\ s.effect[i].store = rows[i].store
      BY <1>2, <1>3 DEF Unmoved
    <2>5. ASSUME NEW i \in DOMAIN rows
          PROVE  Seen(c)[i].table = rows[i].table /\ Seen(c)[i].store = rows[i].store
      BY <1>2, <2>4 DEF Seen, Over
    <2>6. ASSUME NEW i \in DOMAIN e
          PROVE  \/ sql.do = "insert" /\ i = <<c, s.next>> /\ i \notin DOMAIN rows
                    /\ e[i].table = sql.table /\ e[i].store = sql.store
                 \/ /\ sql.do # "insert"
                    /\ e[i].table = Seen(c)[i].table /\ e[i].store = Seen(c)[i].store
      BY <1>1, <1>2, <1>5, EffectInScope
    <2>7. Unmoved(c)'
      <3>1. ASSUME NEW i \in DOMAIN f \cap DOMAIN rows
            PROVE  f[i].table = rows[i].table /\ f[i].store = rows[i].store
        BY <2>3, <2>4, <2>5, <2>6
      <3>2. QED
        BY <1>1, <2>1, <2>2, <3>1 DEF Unmoved
    <2>8. Told(c)'
      BY <1>1, <1>3, <2>1, <2>2 DEF Told, NoRow
    <2>9. PICK k, who : k = cli[c].cmd /\ who = cli[c].token
      OBVIOUS
    <2>10. ASSUME Ordered(c)
           PROVE  /\ ~s.free /\ NoRow(c)
                  /\ s.text = <<sql>> /\ sql.do = "insert" /\ Placed(k, who, sql)
                  /\ <<c, 1>> \in DOMAIN f /\ Placed(k, who, f[<<c, 1>>])
      <3>1. PICK q : s.text = <<q>> /\ q.do = "insert" /\ Placed(k, who, q)
        BY <1>2, <1>3, <2>9, <2>10 DEF Way
      <3>2. ~s.free /\ NoRow(c)
        BY <1>2, <1>3, <2>10 DEF Way
      <3>3. s.next = 1 /\ s.text = <<sql>> /\ q = sql
        BY <1>3, <3>1, <3>2
      <3>4. DOMAIN e = {<<c, 1>>}
        BY <1>2, <3>1, <3>3 DEF Effect, Inserted
      <3>5. e[<<c, 1>>].table = sql.table /\ e[<<c, 1>>].store = sql.store
        BY <2>6, <3>1, <3>3, <3>4
      <3>6. Placed(k, who, e[<<c, 1>>])
        BY <3>1, <3>3, <3>5, PlacedAs
      <3>7. QED
        BY <2>3, <3>1, <3>2, <3>3, <3>4, <3>6
    <2>11. Way(c)'
      <3>1. /\ Ordered(c)' = Ordered(c) /\ NoRow(c)' = NoRow(c)
            /\ k = cli'[c].cmd /\ who = cli'[c].token
        BY <1>1, <2>9 DEF Ordered, NoRow
      <3>2. QED
        BY <2>1, <2>2, <2>10, <3>1 DEF Way
    <2>12. ASSUME NEW d \in Calls \ {c} PROVE Unmoved(d)' /\ Way(d)' /\ Told(d)'
      BY <1>1, <2>2, ToldAside
    <2>13. QED
      BY <2>7, <2>8, <2>11, <2>12 DEF ToldInv
  <1>6. QED
    BY <1>2, <1>4, <1>5 DEF Executes

\* A text that sets the session or ends its transaction is no write command's.
LEMMA ToldFree ==
  ASSUME RetailInv, ToldInv, NEW c \in Calls, SetsSession(c) \/ EndsTransaction(c), cli' = cli
  PROVE  ToldInv'
  <1>1. AtStatement(c) /\ Statement(c).do \in {"set", "commit"}
    BY DEF SetsSession, EndsTransaction
  <1>2. /\ srv[c].stage = "running" /\ Transaction(srv[c]) /\ srv[c].free
        /\ Way(c) /\ Told(c) /\ Unmoved(c)
    BY <1>1, StatementOf DEF ToldInv
  <1>3. Landed(c)
    BY <1>2 DEF SetsSession, EndsTransaction, Landed
  <1>4. PICK t : t = srv'[c]
    OBVIOUS
  <1>5. /\ \A d \in Calls \ {c} : srv'[d] = srv[d]
        /\ t.stage = "running"
        /\ (t.effect = srv[c].effect /\ rows' = rows) \/ t.effect = Nothing
    <2>1. CASE SetsSession(c)
      BY <1>2, <1>4, <2>1 DEF SetsSession, RetailInv, Served, Transaction
    <2>2. CASE EndsTransaction(c)
      BY <1>2, <1>4, <2>2 DEF EndsTransaction, RetailInv, Served, Transaction
    <2>3. QED
      BY <2>1, <2>2
  <1>6. ~Ordered(c)
    BY <1>2 DEF Way
  <1>7. Unmoved(c)'
    BY <1>2, <1>4, <1>5 DEF Unmoved, Nothing
  <1>8. Way(c)'
    BY <1>6 DEF Way, Ordered
  <1>9. Told(c)'
    BY <1>2, <1>4, <1>5 DEF Told
  <1>10. QED
    BY <1>3, <1>5, <1>7, <1>8, <1>9, ToldOthers DEF ToldInv

\* The end of a transaction: a write command's 200 finds its row there, a 500
\* says nothing, and after any other error its row is not there.
LEMMA ToldEnds ==
  ASSUME RetailInv, ToldInv, NEW c \in Calls, Breaks(c) \/ Commit(c) \/ CommitFails(c), cli' = cli
  PROVE  ToldInv'
  <1>1. /\ srv[c].stage = "running" /\ Transaction(srv[c]) /\ Way(c)
        /\ rows' = rows \/ rows' = Seen(c)
    BY DEF Breaks, Commit, CommitFails, Unsure, AtStatement, AtEnd, Holds, RetailInv, Planned, ToldInv
  <1>2. Landed(c)
    BY <1>1 DEF Landed
  <1>3. CASE Breaks(c)
    <2>1. AtStatement(c) /\ Answer(c, 400, NoBody)
      BY <1>3 DEF Breaks
    <2>2. Ordered(c) => ~srv[c].free
      BY <1>1 DEF Way
    <2>3. Ordered(c) => rows' = rows
      BY <1>3, <2>1, <2>2, StatementOf DEF Breaks
    <2>4. QED
      <3>1. Means(c, 400) /\ 400 \in Codes
        BY <2>3 DEF Means, Codes
      <3>2. QED
        BY <1>1, <1>2, <2>1, <3>1, ToldAnswered
  <1>4. CASE Commit(c)
    <2>1. Answer(c, 200, NoBody) /\ AtEnd(c) /\ rows' = Seen(c)
      BY <1>4 DEF Commit
    <2>2. PICK e, k, who : e = srv[c].effect /\ k = cli[c].cmd /\ who = cli[c].token
      OBVIOUS
    <2>3. ASSUME Ordered(c) PROVE <<c, 1>> \in DOMAIN e /\ Placed(k, who, e[<<c, 1>>])
      <3>1. PICK sql : srv[c].text = <<sql>>
        BY <1>1, <2>3 DEF Way
      <3>2. srv[c].next # 1
        BY <2>1, <3>1 DEF AtEnd
      <3>3. QED
        BY <1>1, <2>2, <2>3, <3>2 DEF Way
    <2>4. <<c, 1>> \in DOMAIN e => <<c, 1>> \in DOMAIN rows' /\ rows'[<<c, 1>>] = e[<<c, 1>>]
      BY <2>1, <2>2 DEF Seen, Over
    <2>5. Ordered(c) => <<c, 1>> \in DOMAIN rows' /\ Placed(k, who, rows'[<<c, 1>>])
      BY <2>3, <2>4
    <2>6. QED
      <3>1. Means(c, 200) /\ 200 \in Codes
        BY <2>2, <2>5 DEF Means, Codes
      <3>2. QED
        BY <1>1, <1>2, <2>1, <3>1, ToldAnswered
  <1>5. CASE CommitFails(c)
    <2>1. Ordered(c) => srv[c].own
      BY <1>1 DEF Way, Transaction
    <2>2. PICK code \in Codes : Answer(c, code, NoBody) /\ (Ordered(c) => code = 500)
      BY <1>5, <2>1 DEF CommitFails, Codes
    <2>3. Means(c, code)
      BY <2>2 DEF Means
    <2>4. QED
      BY <1>1, <1>2, <2>2, <2>3, ToldAnswered
  <1>6. QED
    BY <1>3, <1>4, <1>5

\* Every step of the server keeps what each call was told.
LEMMA ToldServe ==
  ASSUME RetailInv, ToldInv, NEW c \in Calls, Serve(c), cli' = cli
  PROVE  ToldInv'
  BY ToldBefore, ToldExecute, ToldExecutes, ToldFree, ToldEnds DEF Serve

\* Staff changes, restarts and time keep what each call was told.
LEMMA ToldEnvironment ==
  ASSUME RetailInv, ToldInv, Environment, cli' = cli
  PROVE  ToldInv'
  <1>1. /\ rows' = rows
        /\ \A c \in Calls : srv'[c] = srv[c] \/ srv'[c] = Idle
    BY DEF Environment, StaffChanges, ApiRestarts, Tick, RetailInv, Served
  <1>2. QED
    BY <1>1, ToldAside DEF ToldInv

\* A client that ends with a refusal or a usage error has nobody at work for it.
LEMMA ToldDone ==
  ASSUME RetailInv, ToldInv, NEW c \in Calls, NEW outcome, Done(c, outcome),
         srv' = srv \/ Read(c), rows' = rows,
         outcome \in {"refused", "usage"} /\ cli[c].cmd.name \in Writes =>
           NoRow(c) /\ (srv[c].stage = "none" \/ Read(c))
  PROVE  ToldInv'
  <1>1. /\ cli'[c].stage = "done" /\ cli'[c].outcome = outcome
        /\ cli'[c].cmd.name \in Writes => cli[c].cmd.name \in Writes
        /\ \A d \in Calls \ {c} : cli'[d] = cli[d]
    BY DEF RetailInv, Clients, Done, NoCommand, Writes
  <1>2. /\ srv'[c] = srv[c] \/ srv'[c] = Idle
        /\ Read(c) => srv'[c] = Idle
        /\ \A d \in Calls \ {c} : srv'[d] = srv[d]
    BY DEF RetailInv, Served, Read
  <1>3. Unmoved(c)' /\ Way(c)'
    <2>1. Way(c)'
      BY <1>1 DEF Way, Ordered
    <2>2. CASE srv'[c] = srv[c]
      BY <2>1, <2>2 DEF ToldInv, Unmoved
    <2>3. CASE srv'[c] = Idle
      BY <2>1, <2>3 DEF Unmoved, Idle
    <2>4. QED
      BY <1>2, <2>2, <2>3
  <1>4. Told(c)'
    BY <1>1, <1>2 DEF ToldInv, Told, NoRow, Idle
  <1>5. ASSUME NEW d \in Calls \ {c} PROVE Unmoved(d)' /\ Way(d)' /\ Told(d)'
    BY <1>1, <1>2, ToldAside
  <1>6. QED
    BY <1>3, <1>4, <1>5 DEF ToldInv

\* A client's next request asks for what its command says.
LEMMA ToldAsk ==
  ASSUME RetailInv, ToldInv, NEW c \in Calls, NEW stage, NEW q, NEW k,
         apiRequest(c, stage, q, k), rows' = rows,
         cli[c].stage \in {"idle", "login", "resolve"}, stage \in {"login", "resolve", "request"},
         stage = "request" => q.at = Route[k.name] /\ q.arg = k.arg
  PROVE  ToldInv'
  <1>1. /\ cli'[c].stage = stage /\ cli'[c].cmd = k /\ cli'[c].outcome = cli[c].outcome
        /\ cli'[c].token = q.token
        /\ \A d \in Calls \ {c} : cli'[d] = cli[d]
    BY DEF RetailInv, Clients, apiRequest
  <1>2. /\ srv'[c].stage = "received" /\ srv'[c].req = q
        /\ \A d \in Calls \ {c} : srv'[d] = srv[d]
    BY DEF RetailInv, Served, apiRequest, Received
  <1>3. cli[c].outcome = "none"
    BY DEF ToldInv, Told
  <1>4. Unmoved(c)' /\ Way(c)' /\ Told(c)'
    BY <1>1, <1>2, <1>3 DEF Unmoved, Way, Ordered, Told
  <1>5. ASSUME NEW d \in Calls \ {c} PROVE Unmoved(d)' /\ Way(d)' /\ Told(d)'
    BY <1>1, <1>2, ToldAside
  <1>6. QED
    BY <1>4, <1>5 DEF ToldInv

\* Sending a request keeps what each call was told.
LEMMA ToldSend ==
  ASSUME RetailInv, ToldInv, NEW c \in Calls, cli[c].stage \in {"idle", "login", "resolve"},
         NEW k, k.name \in DOMAIN Route, NEW t, Send(c, k, t), rows' = rows
  PROVE  ToldInv'
  <1>1. PICK q : q = Request(Route[k.name], k.valid, k.arg, t)
    OBVIOUS
  <1>2. q.at = Route[k.name] /\ q.arg = k.arg
    BY <1>1 DEF Request
  <1>3. apiRequest(c, "request", q, k)
    BY <1>1 DEF Send
  <1>4. QED
    BY <1>2, <1>3, ToldAsk

\* Every step of a client keeps what each call was told.
LEMMA ToldClient ==
  ASSUME RetailInv, ToldInv, NEW c \in Calls, Client(c)
  PROVE  ToldInv'
  <1>0. Way(c) /\ Told(c) /\ Once(c)
    BY DEF ToldInv, RetailInv
  <1>1. CASE Usage(c)
    <2>1. srv[c].stage = "none" /\ NoRow(c)
      BY <1>0, <1>1 DEF Usage, Told, Once, Asked, NoRow
    <2>2. QED
      BY <1>1, <2>1, ToldDone DEF Usage, apiVars
  <1>2. ASSUME NEW e \in Employees, NEW good,
               Start(c, loginByTelegram(e, good)) \/ Start(c, loginByPassword(e, good))
        PROVE  ToldInv'
    <2>1. PICK q : Start(c, q) /\ q \in {loginByTelegram(e, good), loginByPassword(e, good)}
      BY <1>2
    <2>2. apiRequest(c, "login", q, NoCommand) /\ cli[c].stage = "idle" /\ rows' = rows
      BY <2>1 DEF Start
    <2>3. QED
      BY <2>2, ToldAsk
  <1>3. ASSUME NEW d \in Calls, NEW k \in Commands, Present(c, d, k)
        PROVE  ToldInv'
    <2>1. PICK t : t = cli[d].token
      OBVIOUS
    <2>2. cli[c].stage = "idle" /\ k.name \in DOMAIN Route /\ Send(c, k, t) /\ rows' = rows
      BY <1>3, <2>1 DEF Present, Complete
    <2>3. QED
      BY <2>2, ToldSend
  <1>4. CASE LoggedIn(c)
    <2>1. cli[c].stage = "login" /\ NoRow(c) /\ rows' = rows
      BY <1>0, <1>4 DEF LoggedIn, Once, Asked, NoRow
    <2>2. CASE \E o : Done(c, o) /\ Read(c)
      BY <2>1, <2>2, ToldDone
    <2>3. ASSUME NEW k, Complete(k), NEW t, resolveProductId(c, k, t)
          PROVE  ToldInv'
      <3>1. PICK q : q = Request("/query", TRUE, [sql |-> Lookup], t)
        OBVIOUS
      <3>2. apiRequest(c, "resolve", q, k)
        BY <2>3, <3>1 DEF resolveProductId, Lookup
      <3>3. QED
        BY <2>1, <3>2, ToldAsk
    <2>4. ASSUME NEW k, Complete(k), NEW t, Send(c, k, t)
          PROVE  ToldInv'
      BY <2>1, <2>4, ToldSend DEF Complete
    <2>5. QED
      BY <1>4, <2>2, <2>3, <2>4 DEF LoggedIn
  <1>5. CASE Resolved(c)
    <2>1. cli[c].stage = "resolve" /\ NoRow(c) /\ rows' = rows
      BY <1>0, <1>5 DEF Resolved, Once, Asked, NoRow
    <2>2. CASE \E o : Done(c, o) /\ Read(c)
      BY <2>1, <2>2, ToldDone
    <2>3. CASE Send(c, cli[c].cmd, cli[c].token)
      <3>1. PICK k, t : k = cli[c].cmd /\ t = cli[c].token
        OBVIOUS
      <3>2. k.name \in DOMAIN Route
        BY <2>1, <3>1 DEF RetailInv, Clients, Complete
      <3>3. QED
        BY <2>1, <2>3, <3>1, <3>2, ToldSend
    <2>4. QED
      BY <1>5, <2>2, <2>3 DEF Resolved
  <1>6. CASE Prints(c)
    <2>1. Done(c, Printed(srv[c].code)) /\ Read(c) /\ rows' = rows
      BY <1>6 DEF Prints
    <2>2. cli[c].stage = "request" /\ srv[c].stage = "answered" /\ srv[c].code \in Codes
      BY <1>0, <1>6 DEF Prints, Holds, Told
    <2>3. Printed(srv[c].code) # "usage" /\ (Printed(srv[c].code) = "refused" => srv[c].code \notin {200, 500})
      BY <2>2 DEF Printed, Codes
    <2>4. Printed(srv[c].code) = "refused" /\ cli[c].cmd.name \in Writes => NoRow(c)
      BY <1>0, <2>2, <2>3 DEF Way, Ordered
    <2>5. QED
      BY <2>1, <2>3, <2>4, ToldDone
  <1>7. CASE TimesOut(c)
    BY <1>7, ToldDone DEF TimesOut, apiVars
  <1>8. QED
    BY <1>1, <1>2, <1>3, <1>4, <1>5, <1>6, <1>7 DEF Client, main

\* Every step keeps what each call was told.
LEMMA ToldNext == RetailInv /\ ToldInv /\ [Next]_vars => ToldInv'
  <1> SUFFICES ASSUME RetailInv, ToldInv, [Next]_vars PROVE ToldInv'
    OBVIOUS
  <1>1. CASE Outside
    BY <1>1, ToldEnvironment DEF Outside
  <1>2. ASSUME NEW c \in Calls, Client(c) PROVE ToldInv'
    BY <1>2, ToldClient
  <1>3. ASSUME NEW c \in Calls, Server(c) PROVE ToldInv'
    BY <1>3, ToldServe DEF Server
  <1>4. CASE UNCHANGED vars
    BY <1>4, ToldAside DEF vars, apiVars, ToldInv
  <1>5. QED
    BY <1>1, <1>2, <1>3, <1>4 DEF Next

\* A command turns out well only where it prints an answer below 400.
LEMMA PrintsOk ==
  ASSUME RetailInv, ToldInv, [Next]_vars, NEW c \in Calls,
         cli[c].stage = "request", cli'[c].outcome = "ok"
  PROVE  srv[c].stage = "answered" /\ srv[c].code = 200
  <1>1. cli[c].outcome # "ok"
    BY DEF ToldInv, Told
  <1>2. cli'[c] # cli[c]
    BY <1>1
  <1>3. ASSUME NEW d \in Calls, Client(d)
        PROVE  d = c
    <2>1. (\E o : Done(d, o)) \/ \E stage, q, k : apiRequest(d, stage, q, k)
      BY <1>3 DEF Client, main, Usage, Start, Present, LoggedIn, Resolved, Prints, TimesOut,
                  Send, resolveProductId
    <2>2. d # c => cli'[c] = cli[c]
      BY <2>1 DEF Done, apiRequest, RetailInv, Clients
    <2>3. QED
      BY <1>2, <2>2
  <1>4. Client(c)
    BY <1>2, <1>3 DEF Next, Outside, Server, vars
  <1>5. ASSUME NEW o, Done(c, o) PROVE o = "ok"
    BY <1>5 DEF Done, RetailInv, Clients
  <1>6. CASE Prints(c)
    <2>1. srv[c].stage = "answered" /\ srv[c].code \in Codes
      BY <1>6 DEF Prints, Holds, ToldInv, Told
    <2>2. Printed(srv[c].code) = "ok"
      BY <1>5, <1>6 DEF Prints
    <2>3. QED
      BY <2>1, <2>2 DEF Printed, Codes
  <1>7. CASE TimesOut(c)
    BY <1>5, <1>7 DEF TimesOut
  <1>8. QED
    BY <1>4, <1>6, <1>7 DEF Client, main, Usage, Start, Present, LoggedIn, Resolved

\* What a write command prints is what became of it, for any commands, clients,
\* restarts, timeouts and commits that fail.
THEOREM CommandsTellOutcome == Spec => OutcomeTold
  <1> DEFINE Inv == RetailInv /\ ToldInv
             Ok(c) == cli[c].stage = "request" /\ cli'[c].outcome = "ok" /\ cli[c].cmd.name \in Writes
                      => <<c, 1>> \in DOMAIN rows /\ Placed(cli[c].cmd, cli[c].token, rows[<<c, 1>>])
             None == \A c \in Calls : /\ cli[c].outcome \in {"refused", "usage"}
                                      /\ cli[c].cmd.name \in Writes
                                      => DOMAIN rows \cap ({c} \X Nat) = {}
  <1>1. Init => Inv
    BY RetailInit, ToldInit
  <1>2. Inv /\ [Next]_vars => Inv'
    BY RetailNext, ToldNext
  <1>3. Inv => None
    <2> SUFFICES ASSUME Inv, NEW c \in Calls, cli[c].outcome \in {"refused", "usage"},
                        cli[c].cmd.name \in Writes,
                        NEW i \in DOMAIN rows, i \in {c} \X Nat
                 PROVE  FALSE
      OBVIOUS
    <2>1. NoRow(c)
      BY DEF ToldInv, Told
    <2>2. \E m \in Nat : i = <<c, m>>
      OBVIOUS
    <2>3. QED
      BY <2>1, <2>2 DEF NoRow
  <1>4. ASSUME Inv, [Next]_vars, NEW c \in Calls PROVE Ok(c)
    <2> SUFFICES ASSUME cli[c].stage = "request", cli'[c].outcome = "ok",
                        cli[c].cmd.name \in Writes
                 PROVE  <<c, 1>> \in DOMAIN rows /\ Placed(cli[c].cmd, cli[c].token, rows[<<c, 1>>])
      OBVIOUS
    <2>1. srv[c].stage = "answered" /\ srv[c].code = 200
      BY <1>4, PrintsOk
    <2>2. QED
      BY <1>4, <2>1 DEF ToldInv, Way, Ordered
  <1>5. Inv /\ [Next]_vars => \A c \in Calls : Ok(c)
    BY <1>4
  <1>6. QED
    BY <1>1, <1>2, <1>3, <1>5, PTL DEF Spec, OutcomeTold
=============================================================================
