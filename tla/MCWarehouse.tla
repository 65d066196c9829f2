---------------------------- MODULE MCWarehouse -----------------------------
(* A small star: a fact, an item dimension, a calendar, an ordinary table and a partition. *)
EXTENDS WarehouseAudit, TLC

MCName == {"fact_sales", "dim_item", "dim_date", "orders", "fact_sales_2024"}
MCWords ==
  ("fact_sales" :> <<"fact", "sales">>) @@ ("dim_item" :> <<"dim", "item">>) @@
  ("dim_date" :> <<"dim", "date">>) @@ ("orders" :> <<"orders">>) @@
  ("fact_sales_2024" :> <<"fact", "sales", "2024">>)
MCPascal == [n \in MCName |-> <<>>]

Measures == {"m1", "m2", "m3", "m4", "m5", "m6"}
Keys == {"item_sk", "date_sk"}
Texts == {"label", "city", "tags", "code"}
Validity == {"valid_to"}
MCColumn == Measures \cup Keys \cup Texts \cup Validity \cup {"id", "day"}
MCTypeOf ==
  [c \in MCColumn |-> CASE c \in Measures \cup Keys \cup {"id"} -> "int"
                        [] c \in Texts -> "string"
                        [] OTHER -> "datetime"]
MCEnding == [c \in MCColumn |-> IF c \in Keys THEN "sk" ELSE ""]
MCBaseOf == [c \in MCColumn |-> ""]

Of(cols, key) ==
  [ cols |-> cols, key |-> key, refs |-> {}, indexes |-> {}, partitioned |-> FALSE, of |-> None, proven |-> TRUE ]
MCBody ==
  [n \in MCName |->
    CASE n = "fact_sales" -> {Of(Measures \cup Keys, <<>>),
                              [Of(Keys, <<"item_sk">>) EXCEPT !.partitioned = TRUE]}
      [] n = "dim_item" -> {Of(Texts \cup Validity, <<"code">>), Of({"item_sk", "tags"}, <<"item_sk">>)}
      [] n = "dim_date" -> {Of({"day"}, <<"day">>)}
      [] n = "orders" -> {Of({"id"} \cup Texts, <<"id">>)}
      [] OTHER -> {}]
MCLink == {"fact_sales"} \X {"dim_item", "dim_date", "orders"}
MCIndex == {[cols |-> <<"valid_to">>, method |-> ""], [cols |-> <<"date_sk">>, method |-> "brin"]}
=============================================================================
