------------------------------ MODULE MCRetail ------------------------------
EXTENDS RetailCli, TLC

MCFirstStaff == [e \in Employees |-> [role |-> "store_manager", store |-> "s1",
                                      active |-> TRUE, since |-> 0]]
MCRecords == {[role |-> "country_manager", store |-> NoStore, active |-> TRUE],
              [role |-> "data_analyst", store |-> NoStore, active |-> TRUE],
              [role |-> "store_manager", store |-> NoStore, active |-> FALSE]}
CallSymmetry == Permutations(Calls)

\* A transfer, a reorder and a row of another table.
MCSeed == [i \in {<<"t", 0>>, <<"r", 0>>, <<"o", 0>>} |->
             [table |-> CASE i[1] = "t" -> "transfer" [] i[1] = "r" -> "reorder" [] OTHER -> "other",
              store |-> "s1", to |-> IF i[1] = "t" THEN "s2" ELSE NoStore, status |-> "pending"]]

Command(name, given, arg) ==
  [name |-> name, given |-> given, arg |-> arg, named |-> FALSE, valid |-> TRUE]
Show(name, arg) == Command(name, {}, arg)
Sql(text) == Command("query", {"sql"}, [sql |-> text])
Approve(table, store) == Where("update", table, <<IF table = "transfer" THEN "t" ELSE "r", 0>>, store)
Away(table, id) == Where("delete", table, <<id, 0>>, NoStore)
Transfer(from, quantity) ==
  Command("transfer", {"product", "to-store", "quantity"},
          [from |-> from, to |-> "s2", quantity |-> quantity])
Reorder(store) == Command("reorder", {"product", "quantity"}, [store |-> store, quantity |-> 1])

\* Reads, statements of one's own, and writes with what can be wrong with them.
MCCommands ==
  {NoCommand, Show("me", NoBody), Show("inventory", [store |-> "s1"]), Show("products", NoBody),
   Show("customers", NoBody), Show("promotions", NoBody), Show("sales", [store |-> "s1"]),
   Sql(<<[do |-> "invalid"]>>), Sql(<<Insert("transfer", "s2", "s1", 1)>>),
   Sql(<<Approve("transfer", NoStore)>>),
   Sql(<<Away("reorder", "r"), Approve("reorder", "s1"), Away("other", "o")>>),
   Sql(<<Insert("reorder", "s1", NoStore, 1), CommitNow,
         Set([role |-> "nemoclaw_manager", setting |-> "s2"]), Insert("reorder", "s2", NoStore, 1)>>),
   Transfer(NoStore, 1), [Transfer("s1", 0) EXCEPT !.named = TRUE],
   Reorder(NoStore), Reorder("s2"), [Reorder("s1") EXCEPT !.valid = FALSE]}
=============================================================================
