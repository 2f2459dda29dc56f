-------------------------- MODULE DohResolveProofs --------------------------
(* Theorems about DohResolve, for every resolver list, budget and body size. *)
EXTENDS DohResolve, TLAPS

\* The timeout of a transfer never reaches a second past what remains.
LEMMA TimeoutBound ==
    ASSUME NEW r \in Nat \ {0}
    PROVE  TimeoutMs(r) \in Nat /\ TimeoutMs(r) < r + Sec
<1> DEFINE q == r \div Sec
<1>1. q \in Nat /\ q * Sec <= r /\ q * Sec \in Nat
  BY BudgetAssumption, SMT
<1> HIDE DEF q
<1>2. CASE q > 1
  BY <1>1, <1>2, BudgetAssumption DEF TimeoutMs, q
<1>3. CASE ~ (q > 1)
  BY <1>1, <1>3, BudgetAssumption DEF TimeoutMs, q
<1> QED
  BY <1>2, <1>3

\* While a call is in progress.
InProgress ==
    phase \in {"loop", "transfer"} =>
       /\ multi
       /\ output = NoBytes
       /\ \A i \in 1 .. Len(log) : IsRetryable(log[i])
       /\ IsRetryable(last)
       /\ log # <<>> => last = log[Len(log)]

\* While a transfer runs.
InTransfer ==
    phase = "transfer" =>
       /\ elapsed <= limit
       /\ limit < budget + Sec
       /\ current \in Entries
       /\ buffer.from \subseteq {current}

IInv == /\ TypeOK
        /\ OverrunBounded
        /\ InProgress
        /\ InTransfer
        /\ FailoverComplete
        /\ FirstVerdictWins
        /\ OutputFromWinner

LEMMA InitIInv == Init => IInv
<1> SUFFICES ASSUME Init PROVE IInv
  OBVIOUS
<1>1. budget \in MinTimeout .. MaxTimeout
  BY BudgetAssumption DEF Init, DohTimeoutMs
<1>2. NoBytes \in Bytes
  BY BodyAssumption DEF NoBytes, Bytes
<1>3. TypeOK
  BY <1>1, <1>2 DEF Init, TypeOK, Verdicts
<1> QED
  BY <1>1, <1>3, BudgetAssumption
  DEF Init, IInv, OverrunBounded, InProgress, InTransfer, FailoverComplete,
      FirstVerdictWins, OutputFromWinner

LEMMA JudgeIInv ==
    ASSUME IInv, phase = "transfer", NEW v \in Verdicts, v # "InvalidInput",
           Judge(v)
    PROVE  IInv'
<1>1. /\ log' = Append(log, v) /\ log \in Seq(Verdicts)
      /\ last' = v
      /\ UNCHANGED <<budget, multi, untried, current, elapsed, limit, buffer>>
  BY DEF Judge, IInv, TypeOK
<1>2. /\ log' \in Seq(Verdicts)
      /\ Len(log') = Len(log) + 1
      /\ log' # <<>>
      /\ log'[Len(log')] = v
      /\ \A i \in 1 .. Len(log) : log'[i] = log[i]
  BY <1>1
<1>3. multi /\ output = NoBytes /\ \A i \in 1 .. Len(log) : IsRetryable(log[i])
  BY DEF IInv, InProgress
<1>4. /\ buffer \in Bytes /\ buffer.from \subseteq {current}
      /\ NoBytes.from = {}
  BY DEF IInv, TypeOK, InTransfer, NoBytes
<1>5. \A i \in 1 .. Len(log') - 1 : IsRetryable(log'[i])
  <2>1. Len(log') - 1 = Len(log)
    BY <1>1, <1>2
  <2> QED
    BY <1>2, <1>3, <2>1
<1>6. CASE v = "Success"
  <2>1. /\ phase' = "returned" /\ result' = v
        /\ output' = IF buffer.size > 0 THEN buffer ELSE output
    BY <1>6 DEF Judge, Return, IsRetryable, Retryable
  <2>2. output' \in Bytes /\ output'.from \subseteq {current}
    BY <1>3, <1>4, <2>1 DEF IInv, TypeOK
  <2> QED
    BY <1>1, <1>2, <1>5, <1>6, <2>1, <2>2
    DEF IInv, TypeOK, OverrunBounded, InProgress, InTransfer, FailoverComplete,
        FirstVerdictWins, OutputFromWinner, IsRetryable, Retryable
<1>7. CASE v # "Success" /\ ~ IsRetryable(v)
  <2>1. phase' = "returned" /\ result' = v /\ output' = output
    BY <1>7 DEF Judge, Return
  <2> QED
    BY <1>1, <1>2, <1>3, <1>4, <1>5, <1>7, <2>1
    DEF IInv, TypeOK, OverrunBounded, InProgress, InTransfer, FailoverComplete,
        FirstVerdictWins, OutputFromWinner
<1>8. CASE IsRetryable(v)
  <2>1. phase' = "loop" /\ result' = result /\ output' = output
    BY <1>8 DEF Judge, IsRetryable, Retryable
  <2>2. \A i \in 1 .. Len(log') : IsRetryable(log'[i])
    BY <1>1, <1>2, <1>3, <1>8
  <2> QED
    BY <1>1, <1>2, <1>3, <1>8, <2>1, <2>2
    DEF IInv, TypeOK, OverrunBounded, InProgress, InTransfer, FailoverComplete,
        FirstVerdictWins, OutputFromWinner
<1> QED
  BY <1>6, <1>7, <1>8

LEMMA NextIInv == IInv /\ [Next]_vars => IInv'
<1> SUFFICES ASSUME IInv, [Next]_vars PROVE IInv'
  OBVIOUS
<1> USE DEF IInv
<1>0. /\ budget \in Nat /\ Sec \in Nat /\ Sec # 0
      /\ NoBytes \in Bytes /\ NoBytes.from = {}
  BY BudgetAssumption, BodyAssumption DEF TypeOK, Bytes, NoBytes
<1>1. ASSUME NEW valid \in BOOLEAN, Resolve(valid) PROVE IInv'
  <2>1. /\ untried' = Entries /\ elapsed' = 0 /\ last' = "CurlError"
        /\ output' = NoBytes /\ log' = <<>>
        /\ UNCHANGED <<budget, multi, current, limit, buffer>>
        /\ phase' \in {"returned", "loop"}
        /\ phase' = "loop" => multi /\ result' = result
        /\ phase' = "returned" => /\ result' \in {"InvalidInput", "CurlError"}
                                  /\ result' = "CurlError" => ~ multi
    BY <1>1 DEF Resolve, Return
  <2>2. TypeOK'
    BY <1>0, <2>1 DEF TypeOK, Verdicts
  <2> QED
    BY <1>0, <2>1, <2>2
    DEF OverrunBounded, InProgress, InTransfer, FailoverComplete,
        FirstVerdictWins, OutputFromWinner, IsRetryable, Retryable
<1>2. CASE Exhausted
  <2>1. /\ phase = "loop" /\ phase' = "returned" /\ result' = last
        /\ untried = {} \/ budget - elapsed <= 0
        /\ UNCHANGED <<budget, multi, untried, current, elapsed, limit, buffer,
                       last, output, log>>
    BY <1>2 DEF Exhausted, Return, Remaining
  <2> QED
    BY <1>0, <2>1
    DEF TypeOK, OverrunBounded, InProgress, InTransfer, FailoverComplete,
        FirstVerdictWins, OutputFromWinner
<1>3. ASSUME NEW e \in Entries, SkipResolver(e) PROVE IInv'
  BY <1>3 DEF SkipResolver, TypeOK, OverrunBounded, InProgress, InTransfer,
              FailoverComplete, FirstVerdictWins, OutputFromWinner
<1>4. ASSUME NEW e \in Entries, StartTransfer(e) PROVE IInv'
  <2>1. /\ phase = "loop" /\ budget - elapsed > 0 /\ phase' = "transfer"
        /\ untried' = untried \ {e} /\ current' = e
        /\ limit' = elapsed + TimeoutMs(budget - elapsed) /\ buffer' = NoBytes
        /\ UNCHANGED <<budget, multi, elapsed, last, result, output, log>>
    BY <1>4 DEF StartTransfer, Remaining
  <2>2. budget - elapsed \in Nat \ {0} /\ elapsed \in Nat
    BY <1>0, <2>1 DEF TypeOK
  <2>3. TimeoutMs(budget - elapsed) \in Nat
        /\ TimeoutMs(budget - elapsed) < (budget - elapsed) + Sec
    BY <2>2, TimeoutBound
  <2>4. limit' \in Nat /\ elapsed' <= limit' /\ limit' < budget' + Sec
    BY <1>0, <2>1, <2>2, <2>3
  <2> QED
    BY <1>0, <2>1, <2>4
    DEF TypeOK, OverrunBounded, InProgress, InTransfer, FailoverComplete,
        FirstVerdictWins, OutputFromWinner
<1>5. CASE TimePasses
  BY <1>0, <1>5 DEF TimePasses, TypeOK, OverrunBounded, InProgress, InTransfer,
                    FailoverComplete, FirstVerdictWins, OutputFromWinner
<1>6. ASSUME NEW n \in Chunks, WriteCallback(n) PROVE IInv'
  <2>1. buffer' \in Bytes /\ buffer'.from \subseteq {current}
    <3>1. buffer.size \in Nat /\ n \in Nat /\ current \in Entries
          /\ buffer.from \subseteq {current} /\ buffer.from \in SUBSET Entries
      BY <1>6, BodyAssumption DEF TypeOK, Bytes, WriteCallback, InTransfer
    <3> QED
      BY <3>1, <1>6, BodyAssumption DEF WriteCallback, Bytes
  <2> QED
    BY <1>6, <2>1 DEF WriteCallback, TypeOK, OverrunBounded, InProgress,
      InTransfer, FailoverComplete, FirstVerdictWins, OutputFromWinner
<1>7. ASSUME NEW code \in HttpCodes, TransferEnds(code) PROVE IInv'
  <2>1. HttpCodeToResult(code) \in Verdicts \ {"InvalidInput"}
    BY DEF HttpCodeToResult, Verdicts
  <2> QED
    BY <1>7, <2>1, JudgeIInv DEF TransferEnds
<1>8. CASE TransferFails
  BY <1>8, JudgeIInv DEF TransferFails, Verdicts
<1>9. CASE UNCHANGED vars
  BY <1>9 DEF vars, TypeOK, OverrunBounded, InProgress, InTransfer,
              FailoverComplete, FirstVerdictWins, OutputFromWinner
<1> QED
  BY <1>1, <1>2, <1>3, <1>4, <1>5, <1>6, <1>7, <1>8, <1>9 DEF Next

\* The state is well typed, the clamped budget included (dns_over_https.cc:209-221),
\* and a Resolve call overruns its budget by less than one second, for every
\* number of resolvers and every outcome of every transfer
\* (dns_over_https.cc:393-399 and the rounding at :271).
THEOREM OverrunHolds == Spec => [](TypeOK /\ OverrunBounded)
<1>1. IInv => TypeOK /\ OverrunBounded
  BY DEF IInv
<1> QED
  BY InitIInv, NextIInv, <1>1, PTL DEF Spec

\* A retryable failure is returned only when every resolver was tried or the budget
\* is spent (dns_over_https.cc:391-446).
THEOREM FailoverHolds == Spec => []FailoverComplete
<1>1. IInv => FailoverComplete
  BY DEF IInv
<1> QED
  BY InitIInv, NextIInv, <1>1, PTL DEF Spec

\* The first verdict that is not retryable ends the call and is returned; otherwise
\* the last one is (dns_over_https.cc:428-445).
THEOREM FirstVerdictHolds == Spec => []FirstVerdictWins
<1>1. IInv => FirstVerdictWins
  BY DEF IInv
<1> QED
  BY InitIInv, NextIInv, <1>1, PTL DEF Spec

\* The output holds bytes of the resolver that succeeded and of no other, and none
\* after a failure (dns_over_https.cc:400-442).
THEOREM OutputHolds == Spec => []OutputFromWinner
<1>1. IInv => OutputFromWinner
  BY DEF IInv
<1> QED
  BY InitIInv, NextIInv, <1>1, PTL DEF Spec

=============================================================================
