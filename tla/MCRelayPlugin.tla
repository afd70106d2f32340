--------------------------- MODULE MCRelayPlugin ---------------------------
(* Tool calls of one turn: three of one tool, the first two with the same    *)
(* arguments, and one of another tool; beside them a model request.          *)
EXTENDS RelayHooks

CONSTANTS c1, c2, c3, c4, a1, search, fetch, gw

FourCalls == {c1, c2, c3, c4}
Tools     == {search, fetch}
Tool      == [c \in FourCalls |-> IF c = c4 THEN fetch ELSE search]
Digest    == [c \in FourCalls |-> CASE c \in {c1, c2} -> <<search, 1>>
                                    [] c = c3 -> <<search, 2>>
                                    [] c = c4 -> <<fetch, 1>>]
Provided  == [c \in FourCalls |-> IF c = c1 THEN None ELSE <<"call", c>>]

OneRequest == {a1}
Messages  == [a \in OneRequest |-> [request_messages |-> "empty", user_message |-> TRUE,
                                    conversation_history |-> "list"]]
Answers   == [a \in OneRequest |-> [response |-> "other", assistant_message |-> "object"]]
MaybeUrl  == {None, gw}
=============================================================================
