----------------------------- MODULE RetailApi -----------------------------
(***************************************************************************)
(* api/main.py and the roles and policies of retail_database/init.sql: a   *)
(* request carries a token with the role and the store its employee had at *)
(* login and runs SQL in a transaction opened under them, on a connection  *)
(* of its own.  The endpoints run one statement each; the text of /query   *)
(* is the caller's, may hold several and may end the transaction or set    *)
(* role and store anew.  PostgreSQL decides what each statement may do.    *)
(***************************************************************************)
EXTENDS Integers, Sequences

CONSTANTS Employees, Stores,
          Calls,      \* invocations of a client, each with one request at a time
          NoStore,    \* store_id NULL, or a parameter that is not given
          NoToken,
          Seed,       \* rows at the start, by id
          FirstStaff, \* the Employees table at the start
          Records,    \* what an edit may make of an employee
          Lifetime,   \* JWT_EXPIRE_MINUTES, in ticks
          MaxNow,     \* ticks
          MaxEdits    \* changes of the Employees table

Roles == {"country_manager", "store_manager", "data_analyst"}
MaybeStore == Stores \cup {NoStore}

ASSUME RetailAssumption ==
  /\ NoStore \notin Stores
  /\ Records \subseteq [role : Roles, store : MaybeStore, active : BOOLEAN]
  /\ FirstStaff \in [Employees -> [role : Roles, store : MaybeStore, active : BOOLEAN,
                                   since : Int]]
  /\ \A i \in DOMAIN Seed : i \notin Calls \X Nat
  /\ Lifetime \in Nat /\ MaxNow \in Nat /\ MaxEdits \in Nat

VARIABLES
  staff,   \* the Employees table: role, store, active, time of the last change
  rows,    \* committed rows, by id: transfers, reorders and those of the other
           \* tables; a deleted row stays, as "deleted", and nothing matches it
  srv,     \* the request of each call, and how far the API is with it
  now,     \* the clock
  edits    \* changes of the Employees table so far

apiVars == <<staff, rows, srv, now, edits>>

-----------------------------------------------------------------------------
(* Requests and statements *)

\* `at' is the route, `valid' whether the body passes its pydantic model.
Request(at, valid, arg, token) ==
  [at |-> at, valid |-> valid, arg |-> arg, token |-> token]

\* A SELECT returns rows of `stores'; an UPDATE sets a status; COMMIT ends the
\* transaction, and with it SET LOCAL; SET and RESET change the session.
Select(stores) == [do |-> "select", stores |-> stores]
Insert(table, store, to, quantity) ==
  [do |-> "insert", table |-> table, store |-> store, to |-> to, quantity |-> quantity]
Where(do, table, id, store) == [do |-> do, table |-> table, id |-> id, where |-> store]
CommitNow == [do |-> "commit"]
Set(session) == [do |-> "set", session |-> session]
Run(text) == [refused |-> FALSE, text |-> text]
Refuse(code) == [refused |-> TRUE, code |-> code]

Received(c, request) == srv' = [srv EXCEPT ![c] = [stage |-> "received", req |-> request]]
Idle == [stage |-> "none"]
Read(c) == srv' = [srv EXCEPT ![c] = Idle]
NoBody == [nothing |-> TRUE]
Answer(c, code, got) ==
  srv' = [srv EXCEPT ![c] = [stage |-> "answered", code |-> code, got |-> got]]
Holds(c, stage) == srv[c].stage = stage

-----------------------------------------------------------------------------
(* Authentication *)

create_token(e) == [emp |-> e, role |-> staff[e].role, store |-> staff[e].store,
                    exp |-> now + Lifetime]
\* The lookup, or no connection to the database, which nothing catches.
Issue(c, found) ==
  \/ found /\ Answer(c, 200, [token |-> create_token(srv[c].req.arg.emp)])
  \/ ~found /\ Answer(c, 401, NoBody)
  \/ Answer(c, 500, NoBody)

\* `good': a hash is stored and the password matches it.
login(c) ==
  /\ Holds(c, "received") /\ srv[c].req.at = "/auth/login"
  /\ Issue(c, staff[srv[c].req.arg.emp].active /\ srv[c].req.arg.good)
  /\ UNCHANGED <<staff, rows, now, edits>>

\* `good': TelegramAuth has a row of this id.
login_telegram(c) ==
  /\ Holds(c, "received") /\ srv[c].req.at = "/auth/login-telegram"
  /\ Issue(c, srv[c].req.arg.good /\ staff[srv[c].req.arg.emp].active)
  /\ UNCHANGED <<staff, rows, now, edits>>

\* Mutant: tokens are issued without exp.
Expired_Never(token) == FALSE
Expired(token) == token.exp < now

\* The dependency of every other endpoint; FastAPI then validates the body.
\* Nothing is read from the database: the claims of the token stand.
get_current_employee(c) ==
  /\ Holds(c, "received") /\ srv[c].req.at \notin {"/auth/login", "/auth/login-telegram"}
  /\ IF Expired(srv[c].req.token) THEN Answer(c, 401, NoBody)
     ELSE IF ~srv[c].req.valid THEN Answer(c, 422, NoBody)
     ELSE srv' = [srv EXCEPT ![c].stage = "authenticated"]
  /\ UNCHANGED <<staff, rows, now, edits>>

me(c) ==
  /\ Holds(c, "authenticated") /\ srv[c].req.at = "/auth/me"
  /\ Answer(c, 200, [claims |-> srv[c].req.token])
  /\ UNCHANGED <<staff, rows, now, edits>>

-----------------------------------------------------------------------------
(* Endpoints: the text one runs, or its refusal *)

query(arg) == Run(arg.sql)
\* A store filter only counts when one is given.
OfStore(s) == IF s = NoStore THEN Stores ELSE {s}
get_inventory(arg) == Run(<<Select(OfStore(arg.store))>>)
get_products == Run(<<Select({})>>)
get_customers == Run(<<Select({})>>)
get_promotions == Run(<<Select({})>>)
sales_performance(arg) == Run(<<Select(OfStore(arg.store))>>)

\* The store a request is for: a store manager's own, else the one in the body.
Source(who, given) == IF who.role = "store_manager" THEN who.store ELSE given

create_transfer(who, arg) ==
  LET from == Source(who, arg.from) IN
  CASE who.role = "data_analyst" -> Refuse(403)
    [] who.role # "data_analyst" /\ from \in {NoStore, arg.to} -> Refuse(400)
    [] OTHER -> Run(<<Insert("transfer", from, arg.to, arg.quantity)>>)

create_reorder(who, arg) ==
  LET store == Source(who, arg.store)
      foreign == who.role = "store_manager" /\ arg.store \notin {NoStore, store} IN
  CASE who.role = "data_analyst" -> Refuse(403)
    [] who.role # "data_analyst" /\ store = NoStore -> Refuse(400)
    [] who.role # "data_analyst" /\ store # NoStore /\ foreign -> Refuse(403)
    [] OTHER -> Run(<<Insert("reorder", store, NoStore, arg.quantity)>>)

Endpoint(who, at, arg) ==
  CASE at = "/query" -> query(arg)
    [] at = "/inventory" -> get_inventory(arg)
    [] at = "/products" -> get_products
    [] at = "/customers" -> get_customers
    [] at = "/promotions" -> get_promotions
    [] at = "/sales-performance" -> sales_performance(arg)
    [] at = "/inventory/transfer" -> create_transfer(who, arg)
    [] at = "/reorder" -> create_reorder(who, arg)

-----------------------------------------------------------------------------
(* PostgreSQL *)

PG_ROLE_MAP == [country_manager |-> "nemoclaw_country_manager",
                store_manager   |-> "nemoclaw_manager",
                data_analyst    |-> "nemoclaw_data_analyst"]

\* app.current_store_id: 0, for no store, matches no row.
StoreSetting(who) == who.store
\* SET LOCAL ROLE and SET LOCAL app.current_store_id; and the connection's own
\* login, which owns the tables, without them.
Session(who) == [role |-> PG_ROLE_MAP[who.role], setting |-> StoreSetting(who)]
LoginSession == [role |-> "admin", setting |-> NoStore]

\* SELECT on every table to the three roles; INSERT, UPDATE and DELETE on every
\* table to the two managers.
Granted(role, do) == do = "select" \/ role # "nemoclaw_data_analyst"

\* Mutant: the policies of the manager role do not look at the store.
Policy_AnyStore(session, do, row) ==
  \/ session.role \in {"admin", "nemoclaw_country_manager"}
  \/ row.table \notin {"transfer", "reorder"} \/ do = "insert"
  \/ do = "update" /\ row.table = "reorder"
\* Row level security, on two tables: the manager role inserts for the store of
\* the session, updates that store's reorders, and has no policy for the rest.
Policy(session, do, row) ==
  \/ session.role \in {"admin", "nemoclaw_country_manager"}
  \/ row.table \notin {"transfer", "reorder"}
  \/ /\ session.role = "nemoclaw_manager" /\ row.store = session.setting
     /\ do = "insert" \/ (do = "update" /\ row.table = "reorder")

\* CHECK constraints of the two tables.
Accepted(sql) == sql.quantity > 0 /\ sql.store # sql.to

Nothing == [i \in {} |-> {}]
Over(new, old) == [i \in DOMAIN new \cup DOMAIN old |-> IF i \in DOMAIN new THEN new[i] ELSE old[i]]
\* The rows as a transaction sees them, and as its commit leaves them.
Seen(c) == Over(srv[c].effect, rows)

Inserted(c, sql) ==
  [i \in {<<c, srv[c].next>>} |->
     [table |-> sql.table, store |-> sql.store, to |-> sql.to, status |-> "pending"]]

\* The rows an UPDATE or DELETE matches and a policy lets it see.
Matched(c, sql) ==
  {i \in DOMAIN Seen(c) :
     LET row == Seen(c)[i] IN
     /\ i = sql.id /\ row.table = sql.table /\ row.status # "deleted"
     /\ sql.where \in {NoStore, row.store}
     /\ Policy(srv[c].session, sql.do, row)}
Changed(c, sql) ==
  [i \in Matched(c, sql) |->
     [Seen(c)[i] EXCEPT !.status = IF sql.do = "delete" THEN "deleted" ELSE "approved"]]

\* An UPDATE or DELETE waits for the transaction that holds the row.
Locked(c, sql) ==
  /\ sql.do \in {"update", "delete"}
  /\ \E d \in Calls \ {c} : Holds(d, "running") /\ sql.id \in DOMAIN srv[d].effect

Effect(c, sql) ==
  CASE sql.do = "insert" -> Inserted(c, sql)
    [] sql.do \in {"update", "delete"} -> Changed(c, sql)
    [] OTHER -> Nothing

\* What the database says to a statement.
Outcome(session, sql) ==
  CASE sql.do = "invalid" -> 400
    [] sql.do \in {"insert", "update", "delete"} /\ ~Granted(session.role, sql.do) -> 403
    [] sql.do = "insert" /\ Granted(session.role, "insert") /\ ~Policy(session, "insert", sql) -> 403
    [] sql.do = "insert" /\ Granted(session.role, "insert") /\ Policy(session, "insert", sql)
       /\ ~Accepted(sql) -> 400
    [] OTHER -> 200

\* The endpoint's own checks, then the connection and the two SET LOCAL, whose
\* failure nothing catches.  `free': the text is the caller's; `own': the session
\* is still the one set here.
execute_as_role(c) ==
  LET who == srv[c].req.token
      plan == Endpoint(who, srv[c].req.at, srv[c].req.arg) IN
  /\ Holds(c, "authenticated") /\ srv[c].req.at # "/auth/me"
  /\ \/ plan.refused /\ Answer(c, plan.code, NoBody)
     \/ ~plan.refused /\ Answer(c, 500, NoBody)
     \/ /\ ~plan.refused
        /\ srv' = [srv EXCEPT ![c] =
             [stage |-> "running", free |-> srv[c].req.at = "/query", token |-> who, text |-> plan.text,
              next |-> 1, session |-> Session(who), own |-> TRUE, effect |-> Nothing]]
  /\ UNCHANGED <<staff, rows, now, edits>>

Statement(c) == srv[c].text[srv[c].next]
AtStatement(c) == Holds(c, "running") /\ srv[c].next <= Len(srv[c].text)
AtEnd(c) == Holds(c, "running") /\ srv[c].next > Len(srv[c].text)

\* A statement runs, or is refused: leaving the `with' by an exception rolls
\* back what is not committed.
Executes(c) ==
  LET sql == Statement(c)
      code == Outcome(srv[c].session, sql) IN
  /\ AtStatement(c) /\ sql.do \notin {"commit", "set"} /\ ~Locked(c, sql)
  /\ \/ code # 200 /\ Answer(c, code, NoBody)
     \/ /\ code = 200
        /\ srv' = [srv EXCEPT ![c].next = @ + 1, ![c].effect = Over(Effect(c, sql), @)]
  /\ UNCHANGED <<staff, rows, now, edits>>

\* SET or RESET of role or store.
SetsSession(c) ==
  /\ AtStatement(c) /\ Statement(c).do = "set"
  /\ srv' = [srv EXCEPT ![c].next = @ + 1, ![c].own = FALSE, ![c].session = Statement(c).session]
  /\ UNCHANGED <<staff, rows, now, edits>>

\* COMMIT in the text: what follows runs as the connection's login.
EndsTransaction(c) ==
  /\ AtStatement(c) /\ Statement(c).do = "commit"
  /\ rows' = Seen(c)
  /\ srv' = [srv EXCEPT ![c].next = @ + 1, ![c].own = FALSE,
                        ![c].session = LoginSession, ![c].effect = Nothing]
  /\ UNCHANGED <<staff, now, edits>>

\* A deadlock, or a connection that is lost: a 400 as for any error of the text,
\* after which a COMMIT in it may have been carried out.
Breaks(c) ==
  /\ AtStatement(c) /\ Answer(c, 400, NoBody)
  /\ rows' = rows \/ (Statement(c).do = "commit" /\ rows' = Seen(c))
  /\ UNCHANGED <<staff, now, edits>>

\* conn.commit(), or leaving the `with' with the rows fetched; then the answer.
Commit(c) ==
  /\ AtEnd(c)
  /\ rows' = Seen(c) /\ Answer(c, 200, NoBody)
  /\ UNCHANGED <<staff, now, edits>>

\* The commit fails, its work done or not.  It is outside the inner try, and the
\* 500 is FastAPI's own; a text that ended its transaction is committed within.
Unsure(c) == AtEnd(c) /\ (rows' = rows \/ rows' = Seen(c)) /\ UNCHANGED <<staff, now, edits>>
\* Mutant: the error is swallowed and the rows fetched are returned.
CommitFails_Swallowed(c) == Unsure(c) /\ Answer(c, 200, NoBody)
CommitFails(c) ==
  Unsure(c) /\ (Answer(c, 500, NoBody) \/ (~srv[c].own /\ Answer(c, 400, NoBody)))

-----------------------------------------------------------------------------
(* Environment *)

\* The Employees table is edited; a token keeps what it says.
StaffChanges ==
  /\ edits < MaxEdits /\ edits' = edits + 1
  /\ \E e \in Employees, r \in Records :
       LET to == [role |-> r.role, store |-> r.store, active |-> r.active, since |-> now] IN
       /\ to # [staff[e] EXCEPT !.since = now]
       /\ staff' = [staff EXCEPT ![e] = to]
  /\ UNCHANGED <<rows, srv, now>>

\* The API's process ends and is started again: open transactions roll back.
ApiRestarts ==
  /\ \E c \in Calls : srv[c].stage \in {"received", "authenticated", "running"}
  /\ srv' = [c \in Calls |-> IF srv[c].stage \in {"received", "authenticated", "running"}
                             THEN Idle ELSE srv[c]]
  /\ UNCHANGED <<staff, rows, now, edits>>

Tick == now < MaxNow /\ now' = now + 1 /\ UNCHANGED <<staff, rows, srv, edits>>

ApiInit ==
  /\ staff = FirstStaff /\ rows = Seed /\ now = 0 /\ edits = 0
  /\ srv = [c \in Calls |-> Idle]

Serve(c) ==
  \/ login(c) \/ login_telegram(c) \/ get_current_employee(c) \/ me(c) \/ execute_as_role(c)
  \/ Executes(c) \/ SetsSession(c) \/ EndsTransaction(c) \/ Breaks(c) \/ Commit(c) \/ CommitFails(c)
Environment == StaffChanges \/ ApiRestarts \/ Tick

-----------------------------------------------------------------------------
(* Properties *)

\* What the README and init.sql promise of the roles: a store manager writes
\* transfers and reorders for the own store only, approves no transfer and
\* deletes neither, an analyst writes nothing, a country manager everything.
InScope(who, row, new) ==
  \/ who.role = "country_manager"
  \/ who.role = "store_manager" /\ row.table \notin {"transfer", "reorder"}
  \/ /\ who.role = "store_manager" /\ row.store = who.store
     /\ new \/ (row.table = "reorder" /\ row.status # "deleted")

\* Every row that appears, changes or goes does so in a commit of a request
\* whose token may write it, whichever endpoint it came through: endpoint, role,
\* store setting, grants and policies hold together, over all statements of the
\* transaction.  It says nothing of a text of /query that left the session it was
\* given, by a COMMIT or a SET of its own: from there on nothing bounds it.
WritesInScope ==
  [][\A i \in DOMAIN rows' :
       \/ i \in DOMAIN rows /\ rows'[i] = rows[i]
       \/ \E c \in Calls :
            /\ Holds(c, "running") /\ srv'[c] # srv[c]
            /\ \/ srv[c].own /\ InScope(srv[c].token, rows'[i], i \notin DOMAIN rows)
               \/ srv[c].free /\ ~srv[c].own]_apiVars

\* A request is let in with a role, a store or an account that its employee no
\* longer has for at most the lifetime of a token after the change: nothing is
\* looked up again, so the token's age is the only bound there is.
StaleTokensExpire ==
  [][\A c \in Calls :
       Holds(c, "received") /\ srv'[c].stage = "authenticated" =>
         LET t == srv[c].req.token
             s == staff[t.emp]
         IN \/ s.active /\ s.role = t.role /\ s.store = t.store
            \/ now <= s.since + Lifetime]_apiVars
=============================================================================
