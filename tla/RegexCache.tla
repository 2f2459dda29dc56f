----------------------------- MODULE RegexCache -----------------------------
(***************************************************************************)
(* LocalDns::SafeRegexMatch and its cache of compiled expressions          *)
(* (src/local_dns.cc).  The cache outlives the call: what one query left   *)
(* in it is what the next one finds.                                       *)
(***************************************************************************)
EXTENDS Integers, FiniteSets

CONSTANTS Patterns,              \* keys of the zone table
          Inputs,                \* subdomains asked for
          MatchedBy,             \* MatchedBy[p]: the inputs p matches
          Invalid,               \* patterns std::regex refuses
          DNS_REGEX_CACHE_SIZE   \* 1024

VARIABLES cache,   \* m_RegexCache_: pattern -> "null" or "compiled"
          call     \* the last call and what it returned

vars == <<cache, call>>

Results == {"true", "false", "undefined"}

\* The cache has the types of m_RegexCache_ and never outgrows
\* DNS_REGEX_CACHE_SIZE (local_dns.cc:68-71).
TypeOK == /\ Cardinality(DOMAIN cache) <= DNS_REGEX_CACHE_SIZE
          /\ DOMAIN cache \subseteq Patterns
          /\ cache \in [DOMAIN cache -> {"null", "compiled"}]
          /\ call \in [input : Inputs, pattern : Patterns, result : Results]
                      \cup {[result |-> "none"]}

Empty == [p \in {} |-> "null"]

Init == cache = Empty /\ call = [result |-> "none"]

\* try_emplace(p, nullptr)
Emplace(c, p) == [q \in DOMAIN c \cup {p} |-> IF q \in DOMAIN c THEN c[q] ELSE "null"]

\* A full cache is dropped as a whole, the pattern asked for included.
Evict(c) == IF Cardinality(DOMAIN c) >= DNS_REGEX_CACHE_SIZE THEN Empty ELSE c

\* A pattern not in the cache is inserted as null, then compiled; when that
\* throws, the null stays.  One found there is dereferenced as it is.
SafeRegexMatch(s, p) ==
    LET kept == Evict(cache)
        hit == p \in DOMAIN kept
        matches == IF s \in MatchedBy[p] THEN "true" ELSE "false"
        done(r) == call' = [input |-> s, pattern |-> p, result |-> r]
    IN  \/ /\ ~ hit /\ p \notin Invalid
           /\ cache' = [Emplace(kept, p) EXCEPT ![p] = "compiled"]
           /\ done(matches)
        \/ /\ ~ hit /\ p \in Invalid
           /\ cache' = Emplace(kept, p)
           /\ done("false")
        \/ /\ hit
           /\ cache' = kept
           /\ done(IF kept[p] = "compiled" THEN matches ELSE "undefined")

Next == \E s \in Inputs, p \in Patterns : SafeRegexMatch(s, p)

Spec == Init /\ [][Next]_vars

-----------------------------------------------------------------------------
(* Properties *)

\* A valid pattern gives the answer of the expression itself whatever earlier
\* calls, evictions and failed compilations left in the cache.
CacheTransparent ==
    (call.result # "none" /\ call.pattern \notin Invalid) =>
       call.result = IF call.input \in MatchedBy[call.pattern] THEN "true" ELSE "false"

\* An invalid expression matches nothing, every time (tests/test_local_dns.cc:153,
\* "Invalid regex should return false, not throw").
InvalidReturnsFalse ==
    (call.result # "none" /\ call.pattern \in Invalid) => call.result = "false"

=============================================================================
