----------------------------- MODULE DohResolve -----------------------------
(***************************************************************************)
(* DnsOverHttps::Resolve (src/dns_over_https.cc): one query is offered to  *)
(* the configured resolvers in shuffled order until one gives a verdict,   *)
(* within a total time budget.  The call is synchronous; what varies is    *)
(* libcurl: how long a transfer takes, what it delivers, how it ends.      *)
(*                                                                         *)
(* Entries of m_Resolvers_ are identified by their position, so that a URL *)
(* configured twice is two entries; the shuffle is the choice of any entry *)
(* not offered the query yet.  Time is in milliseconds of which Sec make a *)
(* second, and passes only while a transfer runs.                          *)
(***************************************************************************)
EXTENDS Integers, Sequences

CONSTANTS Entries,     \* positions of m_Resolvers_
          Timeouts,    \* values DohTimeoutMs may be called with
          MinTimeout,  \* 100
          MaxTimeout,  \* 60000
          Sec,         \* 1000
          MaxBody,     \* MAX_DOH_RESPONSE_SIZE, 65535
          Chunks,      \* sizes libcurl may hand to WriteCallback
          HttpCodes    \* status codes a resolver may answer with

ASSUME BudgetAssumption ==
    /\ Sec \in Nat \ {0}
    /\ MinTimeout \in Nat \ {0} /\ MaxTimeout \in Nat
    /\ MinTimeout <= MaxTimeout
    /\ Timeouts \subseteq Int
ASSUME BodyAssumption == MaxBody \in Nat /\ Chunks \subseteq Nat
ASSUME CodesAssumption == HttpCodes \subseteq Nat

Verdicts == {"Success", "InvalidInput", "CurlError", "BadRequest",
             "PayloadTooLarge", "UnsupportedMediaType", "TooManyRequests",
             "InternalServerError", "NotImplemented", "BadGateway",
             "GatewayTimeout", "UnknownHttpError"}

VARIABLES budget,   \* m_DohTimeoutMs_
          multi,    \* m_MultiHandle_ is not null (it is after a move)
          phase,    \* "idle", "loop", "transfer", "returned"
          untried,  \* entries the shuffled list still holds
          current,  \* the entry of the last transfer
          elapsed,  \* time since s_StartTime
          limit,    \* when CURLOPT_TIMEOUT ends the transfer
          buffer,   \* s_Buffer: its size and whose bytes it holds
          last,     \* s_LastResult
          result,   \* what Resolve returned
          output,   \* p_Output
          log       \* history: the verdicts of this call's transfers

vars == <<budget, multi, phase, untried, current, elapsed, limit, buffer,
          last, result, output, log>>

NoBytes == [size |-> 0, from |-> {}]
Bytes == [size : 0 .. MaxBody, from : SUBSET Entries]

TypeOK == /\ budget \in MinTimeout .. MaxTimeout
          /\ multi \in BOOLEAN
          /\ phase \in {"idle", "loop", "transfer", "returned"}
          /\ untried \subseteq Entries
          /\ current \in Entries \cup {0}
          /\ elapsed \in Nat
          /\ limit \in Nat
          /\ buffer \in Bytes
          /\ last \in Verdicts
          /\ result \in Verdicts
          /\ output \in Bytes
          /\ log \in Seq(Verdicts)

-----------------------------------------------------------------------------
(* Helpers *)

\* The setter DohTimeoutMs clamps what it is given.
DohTimeoutMs(t) == IF t < MinTimeout THEN MinTimeout
                   ELSE IF t > MaxTimeout THEN MaxTimeout ELSE t

\* Variant: always rounded up.
TimeoutMs_Up(remaining) == (remaining \div Sec + 1) * Sec

\* CURLOPT_TIMEOUT of a transfer: whole seconds, at least one.
TimeoutMs(remaining) ==
    IF remaining \div Sec > 1 THEN (remaining \div Sec) * Sec ELSE Sec

HttpCodeToResult(code) ==
    CASE code = 200 -> "Success"
      [] code = 400 -> "BadRequest"
      [] code = 413 -> "PayloadTooLarge"
      [] code = 415 -> "UnsupportedMediaType"
      [] code = 429 -> "TooManyRequests"
      [] code = 500 -> "InternalServerError"
      [] code = 501 -> "NotImplemented"
      [] code = 502 -> "BadGateway"
      [] code = 504 -> "GatewayTimeout"
      [] OTHER -> "UnknownHttpError"

Retryable == {"CurlError", "InternalServerError", "BadGateway",
              "GatewayTimeout", "TooManyRequests"}

IsRetryable(v) == v \in Retryable

-----------------------------------------------------------------------------
(* Steps *)

\* The constructor; a moved-from object keeps everything but the handle.
Init == /\ \E t \in Timeouts : budget = DohTimeoutMs(t)
        /\ multi \in BOOLEAN
        /\ phase = "idle"
        /\ untried = {}
        /\ current = 0
        /\ elapsed = 0
        /\ limit = 0
        /\ buffer = NoBytes
        /\ last = "CurlError"
        /\ result = "CurlError"
        /\ output = NoBytes
        /\ log = <<>>

Return(v) == /\ phase' = "returned"
             /\ result' = v

\* Resolve up to its loop, with a query that is or is not well formed.
Resolve(valid) ==
    /\ phase \in {"idle", "returned"}
    /\ \/ ~ valid /\ Return("InvalidInput")
       \/ valid /\ ~ multi /\ Return("CurlError")
       \/ valid /\ multi /\ phase' = "loop" /\ UNCHANGED result
    /\ untried' = Entries
    /\ elapsed' = 0
    /\ last' = "CurlError"
    /\ output' = NoBytes
    /\ log' = <<>>
    /\ UNCHANGED <<budget, multi, current, limit, buffer>>

Remaining == budget - elapsed

\* The loop ends: no entry left, or no time left.
Exhausted ==
    /\ phase = "loop"
    /\ untried = {} \/ Remaining <= 0
    /\ Return(last)
    /\ UNCHANGED <<budget, multi, untried, current, elapsed, limit, buffer,
                   last, output, log>>

\* curl_easy_init fails for entry e: continue with the next one.
SkipResolver(e) ==
    /\ phase = "loop"
    /\ e \in untried /\ Remaining > 0
    /\ untried' = untried \ {e}
    /\ UNCHANGED <<budget, multi, phase, current, elapsed, limit, buffer,
                   last, result, output, log>>

\* Variant: the buffer of the previous transfer is kept.
StartTransfer_KeepBuffer(e) ==
    /\ phase = "loop"
    /\ e \in untried /\ Remaining > 0
    /\ phase' = "transfer"
    /\ untried' = untried \ {e}
    /\ current' = e
    /\ limit' = elapsed + TimeoutMs(Remaining)
    /\ UNCHANGED <<budget, multi, elapsed, buffer, last, result, output, log>>

StartTransfer(e) ==
    /\ phase = "loop"
    /\ e \in untried /\ Remaining > 0
    /\ phase' = "transfer"
    /\ untried' = untried \ {e}
    /\ current' = e
    /\ limit' = elapsed + TimeoutMs(Remaining)
    /\ buffer' = NoBytes
    /\ UNCHANGED <<budget, multi, elapsed, last, result, output, log>>

TimePasses ==
    /\ phase = "transfer"
    /\ elapsed < limit
    /\ elapsed' = elapsed + 1
    /\ UNCHANGED <<budget, multi, phase, untried, current, limit, buffer,
                   last, result, output, log>>

\* A chunk that fits; one that does not ends the transfer (TransferFails).
WriteCallback(n) ==
    /\ phase = "transfer"
    /\ buffer.size + n <= MaxBody
    /\ buffer' = [size |-> buffer.size + n, from |-> buffer.from \cup {current}]
    /\ UNCHANGED <<budget, multi, phase, untried, current, elapsed, limit,
                   last, result, output, log>>

\* Variant: every failure is final.
Judge_NoFailover(v) ==
    /\ last' = v
    /\ log' = Append(log, v)
    /\ output' = IF v = "Success" THEN buffer ELSE output
    /\ Return(v)
    /\ UNCHANGED <<budget, multi, untried, current, elapsed, limit, buffer>>

\* Variant: every failure is retryable.
Judge_RetryAll(v) ==
    /\ last' = v
    /\ log' = Append(log, v)
    /\ \/ v = "Success" /\ output' = buffer /\ Return(v)
       \/ v # "Success" /\ phase' = "loop" /\ UNCHANGED <<result, output>>
    /\ UNCHANGED <<budget, multi, untried, current, elapsed, limit, buffer>>

\* Variant: a retryable failure repeats the transfer it failed.
Judge_SameResolver(v) ==
    /\ last' = v
    /\ \/ /\ IsRetryable(v)
          /\ UNCHANGED <<phase, result, output, log>>
       \/ /\ ~ IsRetryable(v)
          /\ log' = Append(log, v)
          /\ output' = IF v = "Success" THEN buffer ELSE output
          /\ Return(v)
    /\ UNCHANGED <<budget, multi, untried, current, elapsed, limit, buffer>>

\* What Resolve does with the verdict of PerformSingleTransfer.
Judge(v) ==
    /\ last' = v
    /\ log' = Append(log, v)
    /\ \/ /\ v = "Success"
          /\ output' = IF buffer.size > 0 THEN buffer ELSE output
          /\ Return(v)
       \/ /\ v # "Success" /\ ~ IsRetryable(v)
          /\ Return(v)
          /\ UNCHANGED output
       \/ /\ IsRetryable(v)
          /\ phase' = "loop"
          /\ UNCHANGED <<result, output>>
    /\ UNCHANGED <<budget, multi, untried, current, elapsed, limit, buffer>>

\* The transfer completes with an HTTP status.
TransferEnds(code) ==
    /\ phase = "transfer"
    /\ Judge(HttpCodeToResult(code))

\* Refused, timed out, too large a body, or a libcurl error.
TransferFails ==
    /\ phase = "transfer"
    /\ Judge("CurlError")

Next == \/ \E valid \in BOOLEAN : Resolve(valid)
        \/ Exhausted
        \/ \E e \in Entries : SkipResolver(e) \/ StartTransfer(e)
        \/ TimePasses
        \/ \E n \in Chunks : WriteCallback(n)
        \/ \E code \in HttpCodes : TransferEnds(code)
        \/ TransferFails

Spec == Init /\ [][Next]_vars

\* libcurl ends every transfer by its timeout, and the loop is sequential code.
Fairness == /\ WF_vars(Exhausted)
            /\ WF_vars(\E e \in Entries : StartTransfer(e))
            /\ WF_vars(TransferFails \/ \E code \in HttpCodes : TransferEnds(code))

FairSpec == Spec /\ Fairness

-----------------------------------------------------------------------------
(* Properties *)

\* A call never lasts a full second longer than its budget: only the last
\* transfer can overrun, because its timeout is rounded up to one second.
OverrunBounded == elapsed < budget + Sec

\* A retryable failure is given up on only when every entry was offered the
\* query or skipped, or the budget is spent.
FailoverComplete ==
    (phase = "returned" /\ multi /\ IsRetryable(result)) =>
       untried = {} \/ elapsed >= budget

\* The result is the verdict of the last transfer, and no transfer was started
\* after a success or a failure that is not retryable.
FirstVerdictWins ==
    (phase = "returned" /\ log # <<>>) =>
       /\ result = log[Len(log)]
       /\ \A i \in 1 .. Len(log) - 1 : IsRetryable(log[i])

\* The output holds bytes of the resolver that succeeded and of no other one,
\* and nothing at all after a failure.
OutputFromWinner ==
    phase = "returned" =>
       /\ output.from \subseteq {current}
       /\ result # "Success" => output = NoBytes

\* Every call returns.
Terminates == (phase = "loop") ~> (phase = "returned")

=============================================================================
