----------------------------- MODULE MCDnsCache -----------------------------
(* Small instance of DnsCache: the responses that tell its branches apart. *)
EXTENDS DnsCache

Timed(t) == [opt |-> FALSE, ttl |-> t]
Opt == [opt |-> TRUE, ttl |-> 0]

Reply(t, s, rs, b) == [txn |-> t, shape |-> s, rrs |-> rs, body |-> b]

MCResponses ==
    {Reply(1, "ok", <<Timed(1), Timed(2)>>, "x"),
     Reply(1, "ok", <<Timed(2), Opt>>, "y"),
     Reply(1, "ok", <<Timed(UINT32_MAX), Timed(2)>>, "x"),
     Reply(2, "ok", <<Timed(UINT32_MAX)>>, "x"),
     Reply(1, "ok", <<Timed(0), Timed(2)>>, "x"),
     Reply(1, "ok", <<Opt>>, "x"),
     Reply(1, "ok", <<>>, "x"),
     Reply(1, "badquestion", <<Timed(2)>>, "x"),
     Reply(1, "short", <<>>, "x")}

=============================================================================
