------------------------------ MODULE TtlCache ------------------------------
(***************************************************************************)
(* What DnsCache promises its callers (include/dns_cache.h:16-22), stated  *)
(* without saying how: a store that may forget any entry at any time, but  *)
(* that answers only with a response stored for exactly that question, at  *)
(* a moment when every resource record of the response is still alive, and *)
(* with TTLs that let no client keep a record a full second longer than    *)
(* the upstream server allowed.                                            *)
(*                                                                         *)
(* Time here is a count of clock ticks; no rounding to seconds happens.    *)
(***************************************************************************)
EXTENDS Integers, Sequences

CONSTANTS Key,          \* the questions an entry can be stored under
          Response,     \* the wire responses, as records with txn, body, rrs
          Txn,          \* transaction ids
          TicksPerSec,  \* clock ticks in a second
          UINT32_MAX    \* the largest TTL

VARIABLES now, store, reply

vars == <<now, store, reply>>

NoReply == [kind |-> "none"]
Miss == [kind |-> "miss"]

\* Positions of the records that have a TTL (OPT pseudo-records do not).
Timed(r) == {i \in DOMAIN r.rrs : ~ r.rrs[i].opt}

\* An answer a client may be given for entry e at the current time.
Faithful(e, txn, a) ==
    /\ a.txn = txn
    /\ a.body = e.response.body
    /\ DOMAIN a.rrs = DOMAIN e.response.rrs
    /\ \A i \in DOMAIN a.rrs :
          /\ a.rrs[i].opt = e.response.rrs[i].opt
          /\ i \notin Timed(e.response) => a.rrs[i] = e.response.rrs[i]
    /\ \A i \in Timed(e.response) :
          /\ a.rrs[i].ttl >= 1
          /\ now + a.rrs[i].ttl * TicksPerSec
                < e.at + (e.response.rrs[i].ttl + 1) * TicksPerSec

Init == /\ now = 0
        /\ store = [k \in {} |-> 0]
        /\ reply = NoReply

Tick == /\ now' = now + 1
        /\ reply' = NoReply
        /\ UNCHANGED store

\* Keep any part of the store.
Forgetting(s) == {[k \in keep |-> s[k]] : keep \in SUBSET DOMAIN s}

Put(k, r, life) ==
    /\ reply' = NoReply
    /\ UNCHANGED now
    /\ \A i \in Timed(r) : life <= r.rrs[i].ttl
    /\ k \in DOMAIN store'
    /\ store'[k] = [response |-> r, at |-> now, life |-> life]
    /\ \E s \in Forgetting(store) :
          store' = [j \in DOMAIN s \cup {k} |-> IF j = k THEN store'[k] ELSE s[j]]

Hit(k, txn) ==
    /\ k \in DOMAIN store
    /\ now < store[k].at + store[k].life * TicksPerSec
    /\ reply'.kind = "hit" /\ reply'.key = k
    /\ Faithful(store[k], txn, reply'.answer)
    /\ UNCHANGED <<now, store>>

Forget(r) == /\ store' \in Forgetting(store)
             /\ reply' = r
             /\ UNCHANGED now

Next == \/ Tick
        \/ \E k \in Key, r \in Response, life \in 1 .. UINT32_MAX : Put(k, r, life)
        \/ \E k \in Key, txn \in Txn : Hit(k, txn)
        \/ \E r \in {NoReply, Miss} : Forget(r)

Spec == Init /\ [][Next]_vars

=============================================================================
