-------------------------- MODULE MCQueryDispatch --------------------------
(* Small instance of QueryDispatch: one query per way through the handler. *)
EXTENDS QueryDispatch, TLC

Asked(n, t, id, e) == [name |-> n, qtype |-> t, form |-> "IN", txn |-> id,
                       wellformed |-> TRUE, edns |-> e, opcode |-> 0, payload |-> 2]

Plain == Asked(<<"a", "lower">>, "A", 1, "None")
Long == Asked(<<"long", "lower">>, "A", 1, "None")

MCQueries ==
    {Plain,
     Asked(<<"a", "mixed">>, "A", 2, "Ok"),
     Asked(<<"a", "lower">>, "AAAA", 2, "None"),
     Asked(<<"b", "lower">>, "A", 1, "Ok"),
     Asked(<<"b", "lower">>, "AAAA", 2, "Ok"),
     [Plain EXCEPT !.wellformed = FALSE],
     [Plain EXCEPT !.edns = "DuplicateOpt", !.opcode = 2],
     [Plain EXCEPT !.edns = "BadVersion"],
     [Plain EXCEPT !.opcode = 2],
     [Plain EXCEPT !.opcode = 2, !.edns = "Ok"],
     [Plain EXCEPT !.form = "CH", !.txn = 2],
     Long,
     [Long EXCEPT !.edns = "Malformed"],
     [Long EXCEPT !.edns = "BadVersion"],
     [Long EXCEPT !.edns = "Ok", !.opcode = 2],
     [Long EXCEPT !.edns = "Ok", !.qtype = "AAAA"]}

Timed(t) == [opt |-> FALSE, ttl |-> t]

MCRecordLists == {<<Timed(2), Timed(3), Opt>>, <<Timed(0)>>}

\* The answer to another query.
MCStrays == {[txn |-> 2, about |-> <<"b", "A", "IN">>]}

MCLocal == [a \in Labels \X Qtypes |->
              CASE a \in {<<"b", "A">>, <<"long", "AAAA">>} -> "answer"
                [] a = <<"b", "AAAA">> -> "silent"
                [] OTHER -> "none"]

=============================================================================
