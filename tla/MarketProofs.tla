---------------------------- MODULE MarketProofs ----------------------------
(***************************************************************************)
(* Proofs about the parts of the MarketData run.  The client of the data   *)
(* vendor: in any stretch of time its callers are granted no more than the *)
(* bucket and its refill, and each asks a bounded number of times.  The    *)
(* market data pipeline: what the stored bars tell of the prices, of each  *)
(* other and of the jobs that stored them.  The requests for backtests:    *)
(* what was saved stays, and a sweep answers for every combination.        *)
(***************************************************************************)
EXTENDS MCMarketData, FiniteSetTheorems, WellFoundedInduction, TLAPS

-----------------------------------------------------------------------------
(* Numbers. *)
LEMMA LeastOfTwo ==
    ASSUME NEW a \in Int, NEW b \in Int, NEW m
    PROVE  /\ m = Min({a, b}) => m \in {a, b} /\ m <= a /\ m <= b
           /\ m = Max({a, b}) => m \in {a, b} /\ m >= a /\ m >= b
<1>1. \E x \in {a, b} : \A y \in {a, b} : x <= y
  BY a <= b \/ b <= a
<1>2. \E x \in {a, b} : \A y \in {a, b} : x >= y
  BY a <= b \/ b <= a
<1> QED
  BY <1>1, <1>2 DEF Min, Max

(* A power of two counts the subsets, and so grows. *)
LEMMA PowersGrow ==
    ASSUME NEW n \in Nat, NEW m \in Nat, n <= m
    PROVE  2 ^ n \in Nat /\ 2 ^ m \in Nat /\ 2 ^ n <= 2 ^ m
<1>1. \A k \in Nat : IsFiniteSet(1..k) /\ Cardinality(1..k) = k
  BY FS_Interval
<1>2. \A k \in Nat : IsFiniteSet(SUBSET (1..k)) /\ Cardinality(SUBSET (1..k)) = 2 ^ k
  <2> SUFFICES ASSUME NEW k \in Nat
               PROVE  IsFiniteSet(SUBSET (1..k)) /\ Cardinality(SUBSET (1..k)) = 2 ^ k
    OBVIOUS
  <2> DEFINE S == 1..k
  <2>1. IsFiniteSet(S) /\ Cardinality(S) = k
    BY <1>1
  <2> HIDE DEF S
  <2>2. IsFiniteSet(SUBSET S) /\ Cardinality(SUBSET S) = 2 ^ Cardinality(S)
    BY <2>1, FS_SUBSET
  <2> QED
    BY <2>1, <2>2 DEF S
<1>3. SUBSET (1..n) \subseteq SUBSET (1..m)
  OBVIOUS
<1> DEFINE A == SUBSET (1..n)
           B == SUBSET (1..m)
<1>4. IsFiniteSet(B) /\ A \subseteq B /\ Cardinality(A) = 2 ^ n /\ Cardinality(B) = 2 ^ m
  BY <1>2, <1>3
<1> HIDE DEF A, B
<1>5. Cardinality(A) \in Nat /\ Cardinality(B) \in Nat /\ Cardinality(A) <= Cardinality(B)
  BY <1>4, FS_Subset, FS_CardinalityType
<1> QED
  BY <1>4, <1>5

-----------------------------------------------------------------------------
(* The data client.  What was granted in any last stretch and what the     *)
(* bucket would hold now are together within what the stretch allows.      *)
States == {"idle", "acquiring", "calling", "backoff", "done", "failed"}
Call == [at : States, step : 0..MaxDates, dates : 0..MaxDates,
         attempt : 0..MaxAttempts, wait : 0..RetryDelay * 2 ^ MaxAttempts]

BucketInv ==
    /\ tokens \in 0..Burst * Cost
    /\ idle \in 0..Burst * Cost
    /\ granted \in [1..Window -> Nat]
    /\ \A n \in 1..Window : granted[n] * Cost + Refilled <= Burst * Cost + (n - 1) * Rate

(* What a caller has asked for is counted by the steps it has behind it    *)
(* and its attempts of this one.                                           *)
Asks(count, call) ==
    /\ call.step > 0 => call.step <= call.dates
    /\ call.at = "idle" => count = 0 /\ call = NoCall
    /\ call.at = "acquiring" => /\ call.attempt < MaxAttempts
                                /\ count <= MaxAttempts * call.step + call.attempt
    /\ call.at = "calling" => /\ call.attempt < MaxAttempts
                              /\ count <= MaxAttempts * call.step + call.attempt + 1
    /\ call.at = "backoff" => count <= MaxAttempts * call.step + call.attempt
    /\ call.at \in {"done", "failed"} => count <= MaxAttempts * (call.step + 1)

AskedInv ==
    /\ calls \in [Callers -> Call]
    /\ asked \in [Callers -> Nat]
    /\ \A c \in Callers : Asks(asked[c], calls[c])

ClientInv == BucketInv /\ AskedInv

LEMMA ClientNumbers ==
    /\ Burst \in Nat \ {0} /\ Cost \in Nat \ {0} /\ Rate \in Nat \ {0}
    /\ MaxAttempts \in Nat \ {0} /\ Window \in Nat \ {0}
    /\ RetryDelay \in Nat /\ MaxDates \in Nat /\ Burst * Cost \in Nat
    /\ RetryDelay * 2 ^ MaxAttempts \in Nat
<1>1. /\ Burst \in Nat \ {0} /\ Cost \in Nat \ {0} /\ Rate \in Nat \ {0}
      /\ MaxAttempts \in Nat \ {0} /\ Window \in Nat \ {0}
      /\ RetryDelay \in Nat /\ MaxDates \in Nat
  BY ClientAssumption
<1>2. 2 ^ MaxAttempts \in Nat
  BY <1>1, PowersGrow
<1> QED
  BY <1>1, <1>2

(* What the bucket would hold: in this state or the next. *)
LEMMA RefilledTyped ==
    ASSUME NEW held \in 0..Burst * Cost, NEW ticks \in Nat, NEW m,
           m = Min({Burst * Cost, held + ticks * Rate})
    PROVE  /\ m \in 0..Burst * Cost /\ m <= held + ticks * Rate
           /\ m = Burst * Cost \/ m = held + ticks * Rate
<1>1. PICK full \in Nat, all \in Nat : full = Burst * Cost /\ all = held + ticks * Rate
  BY ClientNumbers
<1>2. m = Min({full, all})
  BY <1>1
<1>3. m \in {full, all} /\ m <= full /\ m <= all
  <2>1. full \in Int /\ all \in Int
    OBVIOUS
  <2> QED
    BY <1>2, <2>1, LeastOfTwo
<1> QED
  BY <1>1, <1>3

LEMMA ClientInitInv == ClientInit => ClientInv
<1> SUFFICES ASSUME ClientInit PROVE ClientInv
  OBVIOUS
<1>1. tokens \in 0..Burst * Cost /\ idle \in 0..Burst * Cost /\ idle \in Nat
  BY ClientNumbers DEF ClientInit
<1>2. granted \in [1..Window -> Nat] /\ \A n \in 1..Window : granted[n] = 0
  BY DEF ClientInit
<1>3. ASSUME NEW n \in 1..Window
      PROVE  granted[n] * Cost + Refilled <= Burst * Cost + (n - 1) * Rate
  <2>1. Refilled \in 0..Burst * Cost
    BY <1>1, RefilledTyped DEF Refilled
  <2>2. granted[n] * Cost = 0 /\ (n - 1) * Rate \in Nat
    BY <1>2, ClientNumbers
  <2> QED
    BY <2>1, <2>2, ClientNumbers
<1>4. NoCall \in Call
  BY ClientNumbers DEF NoCall, Call, States
<1>5. AskedInv
  BY <1>4, ClientNumbers DEF ClientInit, AskedInv, Asks, NoCall
<1> QED
  BY <1>1, <1>2, <1>3, <1>5 DEF ClientInv, BucketInv

LEMMA TickStep ==
    ASSUME ClientInv, Tick
    PROVE  ClientInv'
<1>1. /\ tokens' = tokens /\ tokens \in 0..Burst * Cost
      /\ idle \in 0..Burst * Cost /\ idle' = Min({idle + 1, Burst * Cost})
  BY DEF Tick, ClientInv, BucketInv
<1>2. idle' \in 0..Burst * Cost /\ idle' <= idle + 1 /\ idle' \in Nat
  <2>1. PICK full \in Nat : full = Burst * Cost
    BY ClientNumbers
  <2>2. idle' \in {idle + 1, full} /\ idle' <= idle + 1 /\ idle' <= full
    <3>1. PICK next \in Int : next = idle + 1
      BY <1>1
    <3>2. full \in Int /\ idle' = Min({next, full})
      BY <1>1, <2>1, <3>1
    <3> QED
      BY <3>1, <3>2, LeastOfTwo
  <2> QED
    BY <1>1, <2>1, <2>2
<1>3. /\ granted' \in [1..Window -> Nat]
      /\ \A n \in 1..Window : granted'[n] = IF n = 1 THEN 0 ELSE granted[n - 1]
  <2>1. \A n \in 1..Window : n # 1 => n - 1 \in 1..Window
    BY ClientNumbers
  <2> QED
    BY <2>1 DEF Tick, ClientInv, BucketInv
<1>4. /\ Refilled \in 0..Burst * Cost
      /\ Refilled = Burst * Cost \/ Refilled = tokens + idle * Rate
  <2>1. tokens \in 0..Burst * Cost /\ idle \in Nat
    BY <1>1, ClientNumbers
  <2> QED
    BY <2>1, RefilledTyped DEF Refilled
<1>5. /\ Refilled' \in 0..Burst * Cost
      /\ Refilled' <= tokens' + idle' * Rate
  <2>1. tokens' \in 0..Burst * Cost /\ idle' \in Nat
    BY <1>1, <1>2
  <2> QED
    BY <2>1, RefilledTyped DEF Refilled
<1>6. Refilled' <= Refilled + Rate
  <2>1. idle' * Rate <= (idle + 1) * Rate /\ (idle + 1) * Rate = idle * Rate + Rate
    BY <1>1, <1>2, ClientNumbers
  <2>2. idle * Rate \in Nat /\ idle' * Rate \in Nat
    BY <1>1, <1>2, ClientNumbers
  <2> QED
    BY <1>1, <1>4, <1>5, <2>1, <2>2, ClientNumbers
<1>7. ASSUME NEW n \in 1..Window
      PROVE  granted'[n] * Cost + Refilled' <= Burst * Cost + (n - 1) * Rate
  <2>1. CASE n = 1
    BY <1>3, <1>5, <2>1, ClientNumbers
  <2>2. CASE n # 1
    <3>1. n - 1 \in 1..Window /\ granted'[n] = granted[n - 1]
      BY <1>3, <2>2, ClientNumbers
    <3>2. granted[n - 1] * Cost + Refilled <= Burst * Cost + ((n - 1) - 1) * Rate
      BY <3>1 DEF ClientInv, BucketInv
    <3>3. (n - 1) * Rate = ((n - 1) - 1) * Rate + Rate
      BY ClientNumbers
    <3>4. granted[n - 1] * Cost \in Nat /\ ((n - 1) - 1) * Rate \in Nat
      BY <2>2, <3>1, ClientNumbers DEF ClientInv, BucketInv
    <3> QED
      BY <1>4, <1>5, <1>6, <3>1, <3>2, <3>3, <3>4, ClientNumbers
  <2> QED
    BY <2>1, <2>2
<1>8. AskedInv'
  <2>1. calls' = [c \in Callers |-> [calls[c] EXCEPT !.wait = Max({@ - 1, 0})]] /\ asked' = asked
    BY DEF Tick
  <2>2. ASSUME NEW c \in Callers
        PROVE  calls'[c] \in Call /\ Asks(asked'[c], calls'[c])
    <3>1. calls[c] \in Call /\ Asks(asked[c], calls[c])
      BY DEF ClientInv, AskedInv
    <3>2. PICK wait : wait = Max({calls[c].wait - 1, 0})
      OBVIOUS
    <3>3. wait \in 0..RetryDelay * 2 ^ MaxAttempts /\ (calls[c].wait = 0 => wait = 0)
      <4>1. PICK most \in Nat : most = RetryDelay * 2 ^ MaxAttempts
        BY ClientNumbers
      <4>2. calls[c].wait \in 0..most
        BY <3>1, <4>1 DEF Call
      <4>3. wait \in {calls[c].wait - 1, 0} /\ wait >= 0 /\ wait >= calls[c].wait - 1
        <5>1. PICK less \in Int : less = calls[c].wait - 1
          BY <4>2
        <5> QED
          BY <3>2, <5>1, 0 \in Int, LeastOfTwo
      <4> QED
        BY <4>1, <4>2, <4>3
    <3>4. calls'[c] = [calls[c] EXCEPT !.wait = wait]
      BY <2>1, <3>2
    <3>5. /\ calls'[c] \in Call
          /\ calls'[c].at = calls[c].at /\ calls'[c].step = calls[c].step
          /\ calls'[c].dates = calls[c].dates /\ calls'[c].attempt = calls[c].attempt
          /\ calls'[c].wait = wait
      BY <3>1, <3>3, <3>4 DEF Call
    <3>6. calls[c] = NoCall => calls'[c] = NoCall
      <4>1. ASSUME calls[c] = NoCall
            PROVE  wait = 0
        BY <3>3, <4>1 DEF NoCall
      <4> QED
        BY <3>4, <4>1 DEF NoCall
    <3> QED
      BY <2>1, <3>1, <3>5, <3>6 DEF Asks
  <2>3. calls' \in [Callers -> Call]
    BY <2>1, <2>2
  <2> QED
    BY <2>1, <2>2, <2>3 DEF ClientInv, AskedInv
<1> QED
  BY <1>1, <1>2, <1>3, <1>7, <1>8 DEF ClientInv, BucketInv

(* A step of one caller that leaves the bucket alone. *)
LEMMA CallerStep ==
    ASSUME ClientInv, NEW c \in Callers, NEW call \in Call,
           calls' = [calls EXCEPT ![c] = call], Asks(asked[c], call),
           UNCHANGED <<tokens, idle, granted, asked>>
    PROVE  ClientInv'
<1>1. BucketInv'
  BY DEF ClientInv, BucketInv, Refilled
<1>2. AskedInv'
  <2>1. calls' \in [Callers -> Call] /\ calls'[c] = call
        /\ \A d \in Callers : d # c => calls'[d] = calls[d]
    BY DEF ClientInv, AskedInv
  <2>2. \A d \in Callers : Asks(asked'[d], calls'[d])
    BY <2>1 DEF ClientInv, AskedInv
  <2> QED
    BY <2>1, <2>2 DEF ClientInv, AskedInv
<1> QED
  BY <1>1, <1>2 DEF ClientInv

LEMMA AskStep ==
    ASSUME ClientInv, NEW c \in Callers, Ask(c)
    PROVE  ClientInv'
<1>1. PICK call : call = [calls[c] EXCEPT !.at = "acquiring"]
  OBVIOUS
<1>2. calls[c] \in Call /\ calls[c] = NoCall /\ asked[c] = 0
  BY DEF ClientInv, AskedInv, Asks, Ask
<1>3. /\ call \in Call /\ call.at = "acquiring" /\ call.step = 0 /\ call.attempt = 0
  BY <1>1, <1>2 DEF Call, States, NoCall
<1>4. Asks(asked[c], call)
  BY <1>2, <1>3, ClientNumbers DEF Asks
<1>5. calls' = [calls EXCEPT ![c] = call] /\ UNCHANGED <<tokens, idle, granted, asked>>
  BY <1>1 DEF Ask, ClientInv, AskedInv
<1> QED
  BY <1>3, <1>4, <1>5, CallerStep

LEMMA RetryStep ==
    ASSUME ClientInv, NEW c \in Callers, Retry(c)
    PROVE  ClientInv'
<1>1. PICK at : at = IF calls[c].attempt < MaxAttempts THEN "acquiring" ELSE "failed"
  OBVIOUS
<1>2. PICK call : call = [calls[c] EXCEPT !.at = at]
  OBVIOUS
<1>3. calls[c] \in Call /\ calls[c].at = "backoff" /\ Asks(asked[c], calls[c])
  BY DEF ClientInv, AskedInv, Retry
<1>4. /\ call \in Call /\ call.at = at /\ call.step = calls[c].step
      /\ call.dates = calls[c].dates /\ call.attempt = calls[c].attempt
  BY <1>1, <1>2, <1>3 DEF Call, States
<1>5. Asks(asked[c], call)
  <2>1. /\ call.step > 0 => call.step <= call.dates
        /\ asked[c] <= MaxAttempts * call.step + call.attempt
    BY <1>3, <1>4 DEF Asks
  <2>2. /\ asked[c] \in Nat /\ call.step \in Nat /\ call.attempt \in 0..MaxAttempts
    BY <1>4 DEF ClientInv, AskedInv, Call
  <2>3. MaxAttempts * (call.step + 1) = MaxAttempts * call.step + MaxAttempts
        /\ MaxAttempts * call.step \in Nat
    BY <2>2, ClientNumbers
  <2>4. at = "failed" => asked[c] <= MaxAttempts * (call.step + 1)
    BY <2>1, <2>2, <2>3, ClientNumbers
  <2> QED
    BY <1>1, <1>4, <2>1, <2>4 DEF Asks
<1>6. calls' = [calls EXCEPT ![c] = call] /\ UNCHANGED <<tokens, idle, granted, asked>>
  BY <1>1, <1>2 DEF Retry, ClientInv, AskedInv
<1> QED
  BY <1>4, <1>5, <1>6, CallerStep

LEMMA AnswerErrorStep ==
    ASSUME ClientInv, NEW c \in Callers, AnswerError(c)
    PROVE  ClientInv'
<1>1. PICK call : call = [calls[c] EXCEPT !.at = "failed"]
  OBVIOUS
<1>2. calls[c] \in Call /\ calls[c].at = "calling" /\ Asks(asked[c], calls[c])
  BY DEF ClientInv, AskedInv, AnswerError
<1>3. /\ call \in Call /\ call.at = "failed" /\ call.step = calls[c].step
      /\ call.dates = calls[c].dates /\ call.attempt = calls[c].attempt
  BY <1>1, <1>2 DEF Call, States
<1>4. Asks(asked[c], call)
  <2>1. /\ call.step > 0 => call.step <= call.dates
        /\ asked[c] <= MaxAttempts * call.step + call.attempt + 1
        /\ call.attempt < MaxAttempts
    BY <1>2, <1>3 DEF Asks
  <2>2. /\ asked[c] \in Nat /\ call.step \in Nat /\ call.attempt \in Nat
    BY <1>3 DEF ClientInv, AskedInv, Call
  <2>3. MaxAttempts * (call.step + 1) = MaxAttempts * call.step + MaxAttempts
        /\ MaxAttempts * call.step \in Nat
    BY <2>2, ClientNumbers
  <2>4. asked[c] <= MaxAttempts * (call.step + 1)
    <3>1. PICK steps \in Nat : steps = MaxAttempts * call.step
      BY <2>3
    <3>2. asked[c] <= steps + call.attempt + 1 /\ MaxAttempts * (call.step + 1) = steps + MaxAttempts
      BY <2>1, <2>3, <3>1
    <3> QED
      BY <2>1, <2>2, <3>1, <3>2, ClientNumbers
  <2> QED
    BY <1>3, <2>1, <2>4 DEF Asks
<1>5. calls' = [calls EXCEPT ![c] = call] /\ UNCHANGED <<tokens, idle, granted, asked>>
  BY <1>1 DEF AnswerError, ClientInv, AskedInv
<1> QED
  BY <1>3, <1>4, <1>5, CallerStep

LEMMA AnswerTemporaryStep ==
    ASSUME ClientInv, NEW c \in Callers, AnswerTemporary(c)
    PROVE  ClientInv'
<1>1. PICK wait : wait = RetryDelay * 2 ^ calls[c].attempt
  OBVIOUS
<1>2. calls[c] \in Call /\ calls[c].at = "calling" /\ Asks(asked[c], calls[c])
  BY DEF ClientInv, AskedInv, AnswerTemporary
<1>3. calls[c].attempt \in Nat /\ calls[c].attempt + 1 \in 0..MaxAttempts
  BY <1>2, ClientNumbers DEF Call, Asks
<1>4. wait \in 0..RetryDelay * 2 ^ MaxAttempts
  <2>1. PICK x \in Nat, y \in Nat : x = 2 ^ calls[c].attempt /\ y = 2 ^ MaxAttempts /\ x <= y
    BY <1>3, PowersGrow, ClientNumbers
  <2>2. RetryDelay * x \in Nat /\ RetryDelay * y \in Nat /\ RetryDelay * x <= RetryDelay * y
    BY <2>1, ClientNumbers
  <2> QED
    BY <1>1, <2>1, <2>2
<1>5. PICK call : call = [calls[c] EXCEPT !.at = "backoff", !.wait = wait, !.attempt = @ + 1]
  OBVIOUS
<1>6. /\ call \in Call /\ call.at = "backoff" /\ call.step = calls[c].step
      /\ call.dates = calls[c].dates /\ call.attempt = calls[c].attempt + 1
  BY <1>2, <1>3, <1>4, <1>5 DEF Call, States
<1>7. Asks(asked[c], call)
  <2>1. /\ call.step > 0 => call.step <= call.dates
        /\ asked[c] <= MaxAttempts * call.step + calls[c].attempt + 1
    BY <1>2, <1>6 DEF Asks
  <2>2. asked[c] \in Nat /\ call.step \in Nat /\ MaxAttempts * call.step \in Nat
    BY <1>6, ClientNumbers DEF ClientInv, AskedInv, Call
  <2>3. asked[c] <= MaxAttempts * call.step + call.attempt
    BY <1>3, <1>6, <2>1, <2>2
  <2> QED
    BY <1>6, <2>1, <2>3 DEF Asks
<1>8. calls' = [calls EXCEPT ![c] = call] /\ UNCHANGED <<tokens, idle, granted, asked>>
  BY <1>1, <1>5 DEF AnswerTemporary, ClientInv, AskedInv
<1> QED
  BY <1>6, <1>7, <1>8, CallerStep

LEMMA AnswerStep ==
    ASSUME ClientInv, NEW c \in Callers, Answer(c)
    PROVE  ClientInv'
<1>1. calls[c] \in Call /\ calls[c].at = "calling" /\ Asks(asked[c], calls[c]) /\ asked[c] \in Nat
  BY DEF ClientInv, AskedInv, Answer
<1>2. PICK dates \in IF calls[c].step = 0 THEN 0..MaxDates ELSE {calls[c].dates} :
         calls' = [calls EXCEPT ![c] =
                     [NoCall EXCEPT !.at = IF calls[c].step = dates THEN "done" ELSE "acquiring",
                                    !.step = Min({calls[c].step + 1, dates}),
                                    !.dates = dates]]
  BY DEF Answer
<1>3. /\ dates \in 0..MaxDates /\ calls[c].step \in Nat /\ calls[c].attempt \in Nat
      /\ calls[c].attempt < MaxAttempts /\ calls[c].step <= dates
      /\ asked[c] <= MaxAttempts * calls[c].step + calls[c].attempt + 1
  <2>1. dates \in 0..MaxDates
    BY <1>1, <1>2 DEF Call
  <2>2. calls[c].step \in 0..MaxDates /\ calls[c].attempt \in 0..MaxAttempts
    BY <1>1 DEF Call
  <2>3. /\ calls[c].attempt < MaxAttempts
        /\ asked[c] <= MaxAttempts * calls[c].step + calls[c].attempt + 1
    BY <1>1 DEF Asks
  <2>4. calls[c].step <= dates
    <3>1. CASE calls[c].step = 0
      BY <2>1, <3>1, ClientNumbers
    <3>2. CASE calls[c].step # 0
      <4>1. dates = calls[c].dates /\ calls[c].step > 0
        BY <1>2, <2>2, <3>2, ClientNumbers
      <4> QED
        BY <1>1, <4>1 DEF Asks
    <3> QED
      BY <3>1, <3>2
  <2> QED
    BY <2>1, <2>2, <2>3, <2>4, ClientNumbers
<1>4. PICK at \in {"done", "acquiring"} :
         at = IF calls[c].step = dates THEN "done" ELSE "acquiring"
  OBVIOUS
<1>5. PICK step : step = Min({calls[c].step + 1, dates})
  OBVIOUS
<1>6. /\ step \in 0..MaxDates /\ step <= dates
      /\ step = IF calls[c].step = dates THEN calls[c].step ELSE calls[c].step + 1
  <2>1. PICK next \in Int : next = calls[c].step + 1
    BY <1>3
  <2>2. dates \in Int
    BY <1>3, ClientNumbers
  <2>3. step \in {next, dates} /\ step <= next /\ step <= dates
    <3>1. step = Min({next, dates})
      BY <1>5, <2>1
    <3> QED
      BY <2>2, <3>1, LeastOfTwo
  <2>4. step = IF calls[c].step = dates THEN calls[c].step ELSE calls[c].step + 1
    BY <1>3, <2>1, <2>2, <2>3
  <2>5. step \in Nat /\ step <= dates
    BY <1>3, <2>3, <2>4
  <2>6. dates <= MaxDates
    BY <1>3, ClientNumbers
  <2> QED
    BY <1>3, <2>4, <2>5, <2>6, ClientNumbers
<1>7. PICK call : call = [NoCall EXCEPT !.at = at, !.step = step, !.dates = dates]
  OBVIOUS
<1>8. call = [at |-> at, step |-> step, dates |-> dates, attempt |-> 0, wait |-> 0]
  BY <1>7 DEF NoCall
<1>9. call \in Call
  <2>1. 0 \in 0..MaxAttempts /\ 0 \in 0..RetryDelay * 2 ^ MaxAttempts
    BY ClientNumbers
  <2> QED
    BY <1>3, <1>4, <1>6, <1>8, <2>1 DEF Call, States
<1>10. Asks(asked[c], call)
  <2>1. PICK steps \in Nat : steps = MaxAttempts * calls[c].step
    BY <1>3, ClientNumbers
  <2>2. MaxAttempts * (calls[c].step + 1) = steps + MaxAttempts
    BY <1>3, <2>1, ClientNumbers
  <2>3. asked[c] <= steps + MaxAttempts
    BY <1>1, <1>3, <2>1, ClientNumbers
  <2>4. CASE calls[c].step = dates
    BY <1>4, <1>6, <1>8, <2>2, <2>3, <2>4 DEF Asks
  <2>5. CASE calls[c].step # dates
    <3>1. MaxAttempts * step + 0 = steps + MaxAttempts
      BY <1>3, <1>6, <2>1, <2>2, <2>5, ClientNumbers
    <3> QED
      BY <1>4, <1>6, <1>8, <2>3, <2>5, <3>1, ClientNumbers DEF Asks
  <2> QED
    BY <2>4, <2>5
<1>11. calls' = [calls EXCEPT ![c] = call] /\ UNCHANGED <<tokens, idle, granted, asked>>
  BY <1>2, <1>4, <1>5, <1>7 DEF Answer
<1> QED
  BY <1>9, <1>10, <1>11, CallerStep

(* A poll that gets no token refills the bucket, one that gets one takes   *)
(* from it what it adds to every stretch.                                  *)
LEMMA AcquireStep ==
    ASSUME ClientInv, NEW c \in Callers, Acquire(c)
    PROVE  ClientInv'
<1>1. /\ tokens \in 0..Burst * Cost /\ idle \in 0..Burst * Cost /\ granted \in [1..Window -> Nat]
      /\ idle' = 0
  BY DEF Acquire, ClientInv, BucketInv
<1>2. Refilled \in 0..Burst * Cost
  <2>1. idle \in Nat
    BY <1>1, ClientNumbers
  <2> QED
    BY <1>1, <2>1, RefilledTyped DEF Refilled
<1>3. tokens' \in 0..Burst * Cost => Refilled' <= tokens' /\ Refilled' \in Nat
  <2>1. ASSUME tokens' \in 0..Burst * Cost
        PROVE  Refilled' <= tokens' /\ Refilled' \in Nat
    <3>1. /\ Refilled' \in 0..Burst * Cost /\ Refilled' <= tokens' + 0 * Rate
      BY <1>1, <2>1, RefilledTyped DEF Refilled
    <3>2. 0 * Rate = 0 /\ tokens' \in Nat /\ Refilled' \in Nat
      BY <2>1, <3>1, ClientNumbers
    <3> QED
      BY <3>1, <3>2
  <2> QED
    BY <2>1
<1>4. \A n \in 1..Window : /\ granted[n] \in Nat
                          /\ granted[n] * Cost + Refilled <= Burst * Cost + (n - 1) * Rate
  BY DEF ClientInv, BucketInv
<1>5. CASE Refilled < Cost /\ tokens' = Refilled /\ UNCHANGED <<calls, granted, asked>>
  <2>1. tokens' \in 0..Burst * Cost /\ Refilled' <= Refilled /\ Refilled' \in Nat
    BY <1>2, <1>3, <1>5
  <2>2. ASSUME NEW n \in 1..Window
        PROVE  granted'[n] * Cost + Refilled' <= Burst * Cost + (n - 1) * Rate
    <3>1. PICK spent \in Int, most \in Int :
             spent = granted[n] * Cost /\ most = Burst * Cost + (n - 1) * Rate
      BY <1>4, ClientNumbers
    <3>2. spent + Refilled <= most
      BY <1>4, <3>1
    <3> QED
      BY <1>2, <1>5, <2>1, <3>1, <3>2
  <2>3. BucketInv'
    BY <1>1, <1>5, <2>1, <2>2, ClientNumbers DEF BucketInv
  <2>4. AskedInv'
    BY <1>5 DEF ClientInv, AskedInv
  <2> QED
    BY <2>3, <2>4 DEF ClientInv
<1>6. CASE /\ Refilled >= Cost /\ tokens' = Refilled - Cost
           /\ calls' = [calls EXCEPT ![c].at = "calling"]
           /\ granted' = [n \in 1..Window |-> granted[n] + 1]
           /\ asked' = [asked EXCEPT ![c] = Min({@ + 1, MaxAttempts * (MaxDates + 1) + 1})]
  <2>1. /\ tokens' \in 0..Burst * Cost /\ Refilled' <= Refilled - Cost /\ Refilled' \in Nat
    <3>1. tokens' \in 0..Burst * Cost
      BY <1>2, <1>6, ClientNumbers
    <3> QED
      BY <1>3, <1>6, <3>1
  <2>2. granted' \in [1..Window -> Nat]
    BY <1>1, <1>6
  <2>3. ASSUME NEW n \in 1..Window
        PROVE  granted'[n] * Cost + Refilled' <= Burst * Cost + (n - 1) * Rate
    <3>1. PICK spent \in Int, most \in Int :
             spent = granted[n] * Cost /\ most = Burst * Cost + (n - 1) * Rate
      BY <1>4, ClientNumbers
    <3>2. spent + Refilled <= most
      BY <1>4, <3>1
    <3>3. granted'[n] * Cost = spent + Cost
      <4>1. PICK tokenCount \in Nat : tokenCount = granted[n]
        BY <1>4
      <4>2. granted'[n] = tokenCount + 1
        BY <1>6, <4>1
      <4>3. (tokenCount + 1) * Cost = tokenCount * Cost + Cost
        BY ClientNumbers
      <4> QED
        BY <3>1, <4>1, <4>2, <4>3
    <3> QED
      BY <1>2, <2>1, <3>1, <3>2, <3>3, ClientNumbers
  <2>4. BucketInv'
    BY <1>1, <2>1, <2>2, <2>3, ClientNumbers DEF BucketInv
  <2>5. /\ calls[c] \in Call /\ calls[c].at = "acquiring"
        /\ Asks(asked[c], calls[c]) /\ asked[c] \in Nat
    BY DEF ClientInv, AskedInv, Acquire
  <2>6. PICK call : call = [calls[c] EXCEPT !.at = "calling"]
    OBVIOUS
  <2>7. /\ call \in Call /\ call.at = "calling" /\ call.step = calls[c].step
        /\ call.dates = calls[c].dates /\ call.attempt = calls[c].attempt
    BY <2>5, <2>6 DEF Call, States
  <2>8. PICK count : count = Min({asked[c] + 1, MaxAttempts * (MaxDates + 1) + 1})
    OBVIOUS
  <2>9. count \in Nat /\ count <= asked[c] + 1
    <3>1. PICK next \in Int, cap \in Nat :
             next = asked[c] + 1 /\ cap = MaxAttempts * (MaxDates + 1) + 1
      BY <2>5, ClientNumbers
    <3>2. cap \in Int /\ count = Min({next, cap})
      BY <2>8, <3>1
    <3>3. count \in {next, cap} /\ count <= next
      BY <3>1, <3>2, LeastOfTwo
    <3> QED
      BY <2>5, <3>1, <3>3
  <2>10. Asks(count, call)
    <3>1. /\ call.step > 0 => call.step <= call.dates
          /\ call.attempt < MaxAttempts /\ asked[c] <= MaxAttempts * call.step + call.attempt
      BY <2>5, <2>7 DEF Asks
    <3>2. PICK all \in Int : all = MaxAttempts * call.step + call.attempt
      BY <2>7, ClientNumbers DEF Call
    <3>3. count <= all + 1
      BY <2>5, <2>9, <3>1, <3>2
    <3> QED
      BY <2>7, <3>1, <3>2, <3>3 DEF Asks
  <2>11. /\ calls' = [calls EXCEPT ![c] = call] /\ asked' = [asked EXCEPT ![c] = count]
    BY <1>6, <2>6, <2>8
  <2>12. AskedInv'
    <3>1. /\ calls' \in [Callers -> Call] /\ asked' \in [Callers -> Nat]
      BY <2>7, <2>9, <2>11 DEF ClientInv, AskedInv
    <3>2. \A d \in Callers : Asks(asked'[d], calls'[d])
      <4>1. \A d \in Callers : d # c => calls'[d] = calls[d] /\ asked'[d] = asked[d]
        BY <2>11 DEF ClientInv, AskedInv
      <4>2. calls'[c] = call /\ asked'[c] = count
        BY <2>11 DEF ClientInv, AskedInv
      <4> QED
        BY <2>10, <4>1, <4>2 DEF ClientInv, AskedInv
    <3> QED
      BY <3>1, <3>2 DEF AskedInv
  <2> QED
    BY <2>4, <2>12 DEF ClientInv
<1> QED
  BY <1>5, <1>6 DEF Acquire

LEMMA ClientStep == ClientInv /\ [ClientNext]_clientVars => ClientInv'
<1> SUFFICES ASSUME ClientInv, [ClientNext]_clientVars PROVE ClientInv'
  OBVIOUS
<1>1. CASE UNCHANGED clientVars
  BY <1>1 DEF clientVars, ClientInv, BucketInv, AskedInv, Refilled
<1> QED
  BY <1>1, TickStep, AskStep, AcquireStep, RetryStep, AnswerStep, AnswerTemporaryStep,
     AnswerErrorStep DEF ClientNext

LEMMA ClientSafe == ClientSpec => []ClientInv
BY ClientInitInv, ClientStep, PTL DEF ClientSpec

(* The callers together are never granted more than the bucket and what    *)
(* was refilled, in any stretch of time, and each asks at most             *)
(* retry_max_attempts times for the calendar and each date it came to: for *)
(* any callers, rates, delays and dates (client.py acquire(), _call()).    *)
THEOREM CallsAreBounded == ClientSpec => []CallsBounded
<1>1. ASSUME ClientInv
      PROVE  WithinBudget
  <2>1. ASSUME NEW n \in 1..Window
        PROVE  granted[n] * Cost <= Burst * Cost + (n - 1) * Rate
    <3>1. PICK spent \in Int, most \in Int :
             spent = granted[n] * Cost /\ most = Burst * Cost + (n - 1) * Rate
      BY <1>1, ClientNumbers DEF ClientInv, BucketInv
    <3>2. spent + Refilled <= most
      BY <1>1, <3>1 DEF ClientInv, BucketInv
    <3>3. Refilled \in 0..Burst * Cost
      <4>1. tokens \in 0..Burst * Cost /\ idle \in Nat
        BY <1>1, ClientNumbers DEF ClientInv, BucketInv
      <4> QED
        BY <4>1, RefilledTyped DEF Refilled
    <3> QED
      BY <3>1, <3>2, <3>3, ClientNumbers
  <2> QED
    BY <2>1 DEF WithinBudget
<1>2. ASSUME ClientInv
      PROVE  TriesBounded
  <2>1. ASSUME NEW c \in Callers
        PROVE  asked[c] <= MaxAttempts * (calls[c].step + 1)
    <3>1. calls[c] \in Call /\ asked[c] \in Nat /\ Asks(asked[c], calls[c])
      BY <1>2 DEF ClientInv, AskedInv
    <3>2. calls[c].step \in Nat /\ calls[c].attempt \in 0..MaxAttempts /\ calls[c].at \in States
      BY <3>1, ClientNumbers DEF Call
    <3>3. PICK steps \in Nat : /\ steps = MaxAttempts * calls[c].step
                               /\ MaxAttempts * (calls[c].step + 1) = steps + MaxAttempts
      BY <3>2, ClientNumbers
    <3>4. \/ asked[c] = 0 \/ asked[c] <= MaxAttempts * (calls[c].step + 1)
          \/ asked[c] <= steps + calls[c].attempt
          \/ asked[c] <= steps + calls[c].attempt + 1 /\ calls[c].attempt < MaxAttempts
      BY <3>1, <3>2, <3>3 DEF Asks, States
    <3> QED
      BY <3>1, <3>2, <3>3, <3>4, ClientNumbers
  <2> QED
    BY <2>1 DEF TriesBounded
<1> QED
  BY <1>1, <1>2, ClientSafe, PTL DEF CallsBounded

LEMMA ClientTypes == ClientInv => ClientTypeOK
BY DEF ClientInv, BucketInv, AskedInv, Call, States, ClientTypeOK

-----------------------------------------------------------------------------
(* Finite sets have least elements: numbers, and what is ordered. *)
LEMMA LeastNumber ==
    ASSUME NEW N \in SUBSET Nat, N # {}
    PROVE  \E n \in N : \A m \in N : n <= m
<1> DEFINE R == {p \in Nat \X Nat : p[1] < p[2]}
<1>1. IsWellFoundedOn(R, Nat)
  BY NatLessThanWellFounded DEF OpToRel
<1> HIDE DEF R
<1>2. PICK n \in N : \A m \in N : ~ (<<m, n>> \in R)
  BY <1>1, WFMin
<1>3. \A m \in N : ~ (m < n)
  BY <1>2 DEF R
<1> QED
  BY <1>3

(* R orders S: of any two one comes first. *)
Orders2(R, S) ==
    /\ \A x \in S : <<x, x>> \notin R
    /\ \A x, y \in S : x # y => <<x, y>> \in R \/ <<y, x>> \in R
    /\ \A x, y, z \in S : <<x, y>> \in R /\ <<y, z>> \in R => <<x, z>> \in R

Below(R, S, x) == {y \in S : <<y, x>> \in R}

LEMMA BelowGrows ==
    ASSUME NEW S, NEW R, IsFiniteSet(S), Orders2(R, S),
           NEW x \in S, NEW y \in S, <<x, y>> \in R
    PROVE  Cardinality(Below(R, S, x)) < Cardinality(Below(R, S, y))
<1>1. Below(R, S, y) \subseteq S /\ Below(R, S, x) \cup {x} \subseteq Below(R, S, y)
  BY DEF Below, Orders2
<1>2. x \notin Below(R, S, x) /\ Below(R, S, x) \subseteq S
  BY DEF Below, Orders2
<1>3. IsFiniteSet(Below(R, S, x)) /\ IsFiniteSet(Below(R, S, y))
  BY <1>1, <1>2, FS_Subset
<1>4. /\ IsFiniteSet(Below(R, S, x) \cup {x})
      /\ Cardinality(Below(R, S, x) \cup {x}) = Cardinality(Below(R, S, x)) + 1
  BY <1>2, <1>3, FS_AddElement
<1>5. Cardinality(Below(R, S, x) \cup {x}) <= Cardinality(Below(R, S, y))
  BY <1>1, <1>3, FS_Subset
<1>6. Cardinality(Below(R, S, x)) \in Nat /\ Cardinality(Below(R, S, y)) \in Nat
  BY <1>3, FS_CardinalityType
<1> QED
  BY <1>4, <1>5, <1>6

LEMMA FirstExists ==
    ASSUME NEW S, NEW R, IsFiniteSet(S), Orders2(R, S), S # {}
    PROVE  \E x \in S : \A y \in S \ {x} : <<x, y>> \in R
<1> DEFINE Count(x) == Cardinality(Below(R, S, x))
           N == {Count(x) : x \in S}
<1>1. \A x \in S : Count(x) \in Nat
  <2>1. \A x : Below(R, S, x) \subseteq S
    BY DEF Below
  <2> QED
    BY <2>1, FS_Subset, FS_CardinalityType
<1>2. N \in SUBSET Nat /\ N # {}
  BY <1>1
<1>3. PICK n \in N : \A m \in N : n <= m
  BY <1>2, LeastNumber
<1>4. PICK x \in S : n = Count(x)
  BY <1>3
<1>5. ASSUME NEW y \in S \ {x}
      PROVE  <<x, y>> \in R
  <2>1. Count(x) <= Count(y) /\ Count(x) \in Nat /\ Count(y) \in Nat
    BY <1>1, <1>3, <1>4
  <2>2. <<y, x>> \in R => Count(y) < Count(x)
    BY BelowGrows
  <2>3. <<y, x>> \notin R
    BY <2>1, <2>2
  <2> QED
    BY <2>3 DEF Orders2
<1> QED
  BY <1>5

(* The extremes of a finite set of numbers are in it. *)
LEMMA Extremes ==
    ASSUME NEW S \in SUBSET Nat, IsFiniteSet(S), S # {}
    PROVE  /\ Min(S) \in S /\ \A x \in S : Min(S) <= x
           /\ Max(S) \in S /\ \A x \in S : x <= Max(S)
<1>1. \E n \in S : \A m \in S : n <= m
  BY LeastNumber
<1>2. \E n \in S : \A m \in S : n >= m
  <2> DEFINE R == {p \in S \X S : p[2] < p[1]}
  <2>1. Orders2(R, S)
    BY DEF Orders2
  <2>2. PICK n \in S : \A m \in S \ {n} : <<n, m>> \in R
    BY <2>1, FirstExists
  <2>3. \A m \in S \ {n} : m < n
    BY <2>2
  <2> QED
    BY <2>3
<1>3. Min(S) \in S /\ \A x \in S : Min(S) <= x
  BY <1>1 DEF Min
<1>4. Max(S) \in S /\ \A x \in S : Max(S) >= x
  BY <1>2 DEF Max
<1> QED
  BY <1>3, <1>4

LEMMA ImageIsFinite ==
    ASSUME NEW S, NEW f, NEW T, IsFiniteSet(S), T = {f[x] : x \in S}
    PROVE  IsFiniteSet(T)
<1>1. [x \in S |-> f[x]] \in Surjection(S, T)
  BY DEF Surjection
<1> QED
  BY <1>1, FS_Surjection

-----------------------------------------------------------------------------
(* The market data pipeline: what its tables and sessions hold. *)
MBars == [by: Jobs, version: Versions, cycle: Cycles \cup {1}, start: Nat, end: Nat,
          open: Nat, high: Nat, low: Nat, close: Nat, volume: Nat, completed: BOOLEAN]

IsBar(b) ==
    /\ b \in MBars /\ b.start < b.end
    /\ 0 \notin {b.open, b.high, b.low, b.close}
    /\ b.by \in Fetches => b.cycle = 1 /\ b.end = b.start + 1
    /\ b.by \in Builds => b.cycle > 1

TypesInv ==
    /\ \A b \in bars : IsBar(b)
    /\ jobs \in [Jobs -> [at: {"idle", "storing", "done", "empty", "refused", "failed"},
                          todo: SUBSET MBars, added: SUBSET MBars]]
    /\ \A j \in Jobs : \A b \in jobs[j].todo \cup jobs[j].added : IsBar(b) /\ b.by = j
    /\ \A j \in Jobs : jobs[j].at # "storing" => jobs[j].todo = {} /\ jobs[j].added = {}
    /\ overlaps \subseteq SUBSET Jobs

FiniteInv ==
    /\ IsFiniteSet(Minutes)
    /\ \A j \in Fetches : IsFiniteSet(jobs[j].todo) /\ IsFiniteSet(jobs[j].added)

(* A call has one service, of one version, and looks a key up before it    *)
(* inserts it; what it inserts is seen once it has ended.                  *)
KeysInv ==
    /\ \A j \in Jobs : jobs[j].at \in {"idle", "storing"} => \A b \in bars : b.by # j
    /\ \A j \in Fetches : \A b, c \in jobs[j].todo \cup jobs[j].added : b.version = c.version
    /\ \A b, c \in bars : b.by = c.by /\ b.by \in Fetches => b.version = c.version
    /\ \A j \in Jobs : \A b, c \in jobs[j].added : KeyOf(b) = KeyOf(c) => b = c
    /\ \A b, c \in bars : b.by = c.by /\ KeyOf(b) = KeyOf(c) => b = c

LEMMA MinutesAreOfFetches ==
    ASSUME NEW b, IsBar(b), b.cycle = 1
    PROVE  b.by \in Fetches /\ b.end = b.start + 1
<1>1. b.by \in Jobs
  BY DEF IsBar, MBars
<1>2. b.by \notin Builds
  BY DEF IsBar
<1> QED
  BY <1>1, <1>2 DEF Jobs, IsBar

(* Rows of one window are in an order, so that there is a first and a last *)
(* of them.                                                                *)
LEMMA RowsInOrder ==
    ASSUME TypesInv, KeysInv, NEW rows \in SUBSET Minutes, IsFiniteSet(rows), rows # {},
           NEW rank \in Bijection(Fetches, 1..Cardinality(Fetches))
    PROVE  /\ \E b \in rows : \A c \in rows \ {b} : Before(b, c, rank)
           /\ \E b \in rows : \A c \in rows \ {b} : Before(c, b, rank)
<1> DEFINE R == {p \in rows \X rows : Before(p[1], p[2], rank)}
           Q == {p \in rows \X rows : Before(p[2], p[1], rank)}
<1>1. \A b \in rows : b.start \in Nat /\ b.by \in Fetches /\ b.cycle = 1 /\ b \in bars
  BY MinutesAreOfFetches DEF Minutes, TypesInv, IsBar, MBars
<1>2. /\ \A f \in Fetches : rank[f] \in Int
      /\ \A f, g \in Fetches : rank[f] = rank[g] => f = g
  <2>1. rank \in [Fetches -> 1..Cardinality(Fetches)] /\ IsInjective(rank)
    BY DEF Bijection, Injection
  <2>2. Cardinality(Fetches) \in Nat
    BY MarketAssumption, FS_CardinalityType
  <2> QED
    BY <2>1, <2>2 DEF IsInjective
<1>3. \A b, c \in rows : b.start = c.start /\ b.by = c.by => b = c
  BY <1>1 DEF KeysInv, KeyOf
<1>4. /\ \A b \in rows : ~ Before(b, b, rank)
      /\ \A b, c \in rows : b # c => Before(b, c, rank) \/ Before(c, b, rank)
      /\ \A b, c, d \in rows : Before(b, c, rank) /\ Before(c, d, rank) => Before(b, d, rank)
  BY <1>1, <1>2, <1>3 DEF Before
<1>5. Orders2(R, rows) /\ Orders2(Q, rows)
  BY <1>4 DEF Orders2
<1>6. \E b \in rows : \A c \in rows \ {b} : <<b, c>> \in R
  BY <1>5, FirstExists
<1>7. \E b \in rows : \A c \in rows \ {b} : <<b, c>> \in Q
  BY <1>5, FirstExists
<1> QED
  BY <1>6, <1>7

LEMMA VolumeIsNat ==
    ASSUME NEW rows, IsFiniteSet(rows), \A b \in rows : b.volume \in Nat
    PROVE  TotalVolume(rows) \in Nat
<1> DEFINE Shares(b) == {b} \X (1..b.volume)
           f == [b \in rows |-> Shares(b)]
           T == {f[b] : b \in rows}
<1>1. \A b \in rows : IsFiniteSet(Shares(b))
  <2> SUFFICES ASSUME NEW b \in rows PROVE IsFiniteSet({b} \X (1..b.volume))
    OBVIOUS
  <2> DEFINE n == 1..b.volume
  <2>1. IsFiniteSet(n) /\ IsFiniteSet({b})
    BY b.volume \in Int, 1 \in Int, FS_Interval, FS_Singleton
  <2> HIDE DEF n
  <2> QED
    BY <2>1, FS_Product DEF n
<1>2. IsFiniteSet(T)
  <2> HIDE DEF f
  <2> QED
    BY ImageIsFinite
<1>3. T = {{b} \X (1..b.volume) : b \in rows} /\ \A s \in T : IsFiniteSet(s)
  BY <1>1
<1> HIDE DEF T
<1>4. IsFiniteSet(UNION T)
  BY <1>2, <1>3, FS_UNION
<1> QED
  BY <1>3, <1>4, FS_CardinalityType DEF TotalVolume

(* What a completed bar of longer cycle says of the minutes it was built   *)
(* from, which are still there.                                            *)
Distinct(rows) == \A c, d \in rows : c.start = d.start => c = d

Says(b, rows) ==
    /\ Cardinality(rows) = b.end - b.start
    /\ b.volume = TotalVolume(rows)
    /\ \A c \in rows : b.low <= c.low /\ c.high <= b.high
    /\ Distinct(rows) => \A c \in rows : /\ c.start = b.start => b.open = c.open
                                         /\ c.start = b.end - 1 => b.close = c.close

Told(b) == \E rows \in SUBSET Constituents(WindowOf(b)) : Says(b, rows)

IsTrue(b) == b.cycle > 1 /\ b.completed => Told(b)

TruthInv ==
    /\ \A b \in bars : IsTrue(b)
    /\ \A j \in Jobs : \A b \in jobs[j].todo \cup jobs[j].added : IsTrue(b)

(* Two jobs that store overlap; a bar that a job adds is in the table of   *)
(* none that ended before, so whoever stored it since was storing too.     *)
OverlapInv ==
    /\ \A j, k \in Jobs : j # k /\ jobs[j].at = "storing" /\ jobs[k].at = "storing"
                         => {j, k} \in overlaps
    /\ \A j \in Jobs : \A b \in jobs[j].added, c \in bars : KeyOf(b) = KeyOf(c) => {j, c.by} \in overlaps
    /\ TwiceOnlyByOverlap

MarketInv == TypesInv /\ FiniteInv /\ KeysInv /\ TruthInv /\ OverlapInv

LEMMA WindowsAreTyped ==
    ASSUME NEW cycle \in Cycles, NEW w \in Boundaries(cycle)
    PROVE  /\ w.cycle = cycle /\ w.cycle > 1 /\ w.start \in Nat /\ w.end \in Nat
           /\ w.start < w.end /\ WindowOf(w) = w
<1> DEFINE Openings == {0, SessionMinutes + Lunch}
           Places == {n \in 0..SessionMinutes : n * cycle < SessionMinutes}
<1>0. w \in {Cut(cycle, opening, k) : opening \in Openings, k \in Places}
  BY DEF Boundaries
<1> HIDE DEF Openings, Places
<1>1. PICK opening \in Openings, k \in Places : w = Cut(cycle, opening, k)
  BY <1>0
<1> USE DEF Openings, Places
<1>2. /\ cycle \in Nat /\ cycle > 1 /\ SessionMinutes \in Nat /\ Lunch \in Nat
      /\ opening \in Nat /\ k \in Nat /\ k * cycle < SessionMinutes
  <2>1. cycle \in Nat /\ cycle > 1 /\ SessionMinutes \in Nat /\ Lunch \in Nat
    BY MarketAssumption
  <2> QED
    BY <1>1, <2>1
<1>3. PICK x \in Int, y \in Int : /\ x = opening + (k + 1) * cycle /\ y = opening + SessionMinutes
                              /\ opening + k * cycle < x /\ opening + k * cycle < y
  <2>1. (k + 1) * cycle = k * cycle + cycle /\ k * cycle \in Nat
    BY <1>2
  <2> QED
    BY <1>2, <2>1
<1>4. PICK m : m = Min({x, y})
  OBVIOUS
<1>5. m \in {x, y}
  <2>1. \E n \in {x, y} : \A z \in {x, y} : n <= z
    BY x <= y \/ y <= x
  <2> QED
    BY <1>4, <2>1 DEF Min
<1>6. w = [cycle |-> cycle, start |-> opening + k * cycle, end |-> m]
  BY <1>1, <1>3, <1>4 DEF Cut
<1>7. opening + k * cycle \in Nat
  BY <1>2
<1> QED
  BY <1>2, <1>3, <1>5, <1>6, <1>7 DEF WindowOf

(* aggregate(): of the rows of one window a bar that is one. *)
LEMMA AggregateIsBar ==
    ASSUME MarketInv, NEW j \in Builds, NEW version \in Versions,
           NEW rank \in Bijection(Fetches, 1..Cardinality(Fetches)),
           NEW cycle \in Cycles, NEW w \in Boundaries(cycle), Constituents(w) # {},
           NEW b, b = Aggregate(j, version, w, Constituents(w), rank)
    PROVE  IsBar(b) /\ b.by = j /\ IsTrue(b)
<1>1. PICK rows : rows = Constituents(w)
  OBVIOUS
<1>2. /\ rows \in SUBSET Minutes /\ rows # {} /\ IsFiniteSet(rows)
      /\ \A c \in rows : w.start <= c.start /\ c.start < w.end
  <2>1. rows \subseteq Minutes
    BY <1>1 DEF Constituents
  <2>2. IsFiniteSet(rows)
    BY <2>1, FS_Subset DEF MarketInv, FiniteInv
  <2> QED
    BY <1>1, <2>1, <2>2 DEF Constituents
<1>3. \A c \in rows : /\ IsBar(c) /\ c.start \in Nat /\ c.high \in Nat /\ c.low \in Nat
                     /\ c.open \in Nat /\ c.close \in Nat /\ c.volume \in Nat
                     /\ 0 \notin {c.open, c.high, c.low, c.close} /\ c.completed \in BOOLEAN
  BY <1>2 DEF MarketInv, TypesInv, Minutes, IsBar, MBars
<1>4. /\ w.cycle = cycle /\ w.cycle > 1 /\ w.start \in Nat /\ w.end \in Nat
      /\ w.start < w.end
  BY WindowsAreTyped
<1>5. PICK first, last :
         /\ first = CHOOSE x \in rows : \A c \in rows \ {x} : Before(x, c, rank)
         /\ last = CHOOSE x \in rows : \A c \in rows \ {x} : Before(c, x, rank)
  OBVIOUS
<1>6. /\ first \in rows /\ \A c \in rows \ {first} : Before(first, c, rank)
      /\ last \in rows /\ \A c \in rows \ {last} : Before(c, last, rank)
  BY <1>2, <1>5, RowsInOrder DEF MarketInv
<1>7. PICK high, low : high = Max({c.high : c \in rows}) /\ low = Min({c.low : c \in rows})
  OBVIOUS
<1>8. /\ high \in {c.high : c \in rows} /\ \A c \in rows : c.high <= high
      /\ low \in {c.low : c \in rows} /\ \A c \in rows : low <= c.low
  <2> DEFINE H == {c.high : c \in rows}
             L == {c.low : c \in rows}
             f == [c \in rows |-> c.high]
             g == [c \in rows |-> c.low]
  <2>1. H = {f[c] : c \in rows} /\ L = {g[c] : c \in rows}
    OBVIOUS
  <2>2. H \in SUBSET Nat /\ L \in SUBSET Nat /\ H # {} /\ L # {}
    BY <1>2, <1>3
  <2> HIDE DEF f, g, H, L
  <2>3. IsFiniteSet(H) /\ IsFiniteSet(L)
    BY <1>2, <2>1, ImageIsFinite
  <2>4. /\ Max(H) \in H /\ \A x \in H : x <= Max(H)
        /\ Min(L) \in L /\ \A x \in L : Min(L) <= x
    BY <2>2, <2>3, Extremes
  <2> QED
    BY <1>7, <2>4 DEF H, L
<1>9. TotalVolume(rows) \in Nat
  BY <1>2, <1>3, VolumeIsNat
<1>10. PICK completed \in BOOLEAN :
          completed = (/\ Cardinality(rows) = w.end - w.start
                       /\ \A c \in rows : c.completed)
  OBVIOUS
<1>11. b = [by |-> j, version |-> version, cycle |-> w.cycle, start |-> w.start, end |-> w.end,
            open |-> first.open, close |-> last.close, high |-> high, low |-> low,
            volume |-> TotalVolume(rows), completed |-> completed]
  BY <1>1, <1>5, <1>7, <1>10 DEF Aggregate
<1>12. PICK highest \in rows, lowest \in rows : high = highest.high /\ low = lowest.low
  BY <1>8
<1>13. IsBar(b)
  <2>1. b \in MBars
    <3>1. j \in Jobs /\ w.cycle \in Cycles \cup {1}
      BY <1>4 DEF Jobs
    <3>2. /\ first.open \in Nat /\ last.close \in Nat /\ high \in Nat /\ low \in Nat
      BY <1>3, <1>6, <1>12
    <3> QED
      BY <1>4, <1>9, <1>10, <1>11, <3>1, <3>2 DEF MBars
  <2>2. 0 \notin {b.open, b.high, b.low, b.close}
    BY <1>3, <1>6, <1>11, <1>12
  <2>3. j \notin Fetches
    BY MarketAssumption
  <2> QED
    BY <1>4, <1>11, <2>1, <2>2, <2>3 DEF IsBar
<1>14. ASSUME b.completed
       PROVE  Says(b, rows)
  <2>1. Cardinality(rows) = b.end - b.start
    BY <1>10, <1>11, <1>14
  <2>2. /\ b.volume = TotalVolume(rows)
        /\ \A c \in rows : b.low <= c.low /\ c.high <= b.high
    BY <1>8, <1>11
  <2>3. ASSUME Distinct(rows), NEW c \in rows
        PROVE  /\ c.start = b.start => b.open = c.open
               /\ c.start = b.end - 1 => b.close = c.close
    <3>1. ASSUME c.start = b.start
          PROVE  first = c
      <4>1. first # c => first.start < c.start \/ first.start = c.start
        BY <1>6 DEF Before
      <4>2. w.start <= first.start /\ first.start \in Nat /\ c.start \in Nat /\ c.start = w.start
        BY <1>2, <1>3, <1>6, <1>11, <3>1
      <4> QED
        BY <1>4, <1>6, <2>3, <4>1, <4>2 DEF Distinct
    <3>2. ASSUME c.start = b.end - 1
          PROVE  last = c
      <4>1. last # c => c.start < last.start \/ last.start = c.start
        BY <1>6 DEF Before
      <4>2. last.start < w.end /\ last.start \in Nat /\ c.start \in Nat /\ c.start = w.end - 1
        BY <1>2, <1>3, <1>6, <1>11, <3>2
      <4> QED
        BY <1>4, <1>6, <2>3, <4>1, <4>2 DEF Distinct
    <3> QED
      BY <1>11, <3>1, <3>2
  <2> QED
    BY <2>1, <2>2, <2>3 DEF Says
<1>15. IsTrue(b)
  <2>1. rows \subseteq Constituents(WindowOf(b))
    <3>1. WindowOf(b).start = w.start /\ WindowOf(b).end = w.end
      BY <1>11 DEF WindowOf
    <3> QED
      BY <1>1, <3>1 DEF Constituents
  <2> QED
    BY <1>14, <2>1 DEF IsTrue, Told
<1> QED
  BY <1>11, <1>13, <1>15

-----------------------------------------------------------------------------
(* Nothing is deleted: what was told of a bar is still told of it. *)
LEMMA TruthStays ==
    ASSUME bars \subseteq bars', NEW b, IsTrue(b)
    PROVE  IsTrue(b)'
<1>1. Constituents(WindowOf(b)) \subseteq Constituents(WindowOf(b))'
  BY DEF Constituents, Minutes, WindowOf
<1> QED
  BY <1>1 DEF IsTrue, Told

LEMMA MarketStarts ==
    ASSUME MarketInit
    PROVE  MarketInv
<1>1. TypesInv
  BY DEF MarketInit, TypesInv, NotStarted
<1>2. FiniteInv
  BY FS_EmptySet DEF MarketInit, FiniteInv, NotStarted, Minutes, Jobs
<1>3. KeysInv /\ TruthInv /\ OverlapInv
  BY DEF MarketInit, KeysInv, TruthInv, OverlapInv, TwiceOnlyByOverlap, NotStarted, Jobs
<1> QED
  BY <1>1, <1>2, <1>3 DEF MarketInv

(* A call that starts with bars of its own that are true. *)
LEMMA BeginKeeps ==
    ASSUME MarketInv, NEW j \in Jobs, NEW todo, Begin(j, todo), UNCHANGED bars,
           \A b \in todo : IsBar(b) /\ b.by = j /\ IsTrue(b),
           j \in Fetches => IsFiniteSet(todo) /\ \A b, c \in todo : b.version = c.version
    PROVE  MarketInv'
<1>1. \A k \in Jobs : jobs'[k] = IF k = j THEN Storing(todo) ELSE jobs[k]
  BY DEF MarketInv, TypesInv, Begin
<1>2. todo \subseteq MBars
  BY DEF IsBar
<1>3. jobs[j].at = "idle"
  BY DEF Begin
<1>4. TypesInv'
  <2>1. jobs' \in [Jobs -> [at: {"idle", "storing", "done", "empty", "refused", "failed"},
                           todo: SUBSET MBars, added: SUBSET MBars]]
    BY <1>2 DEF MarketInv, TypesInv, Begin, Storing
  <2>2. overlaps' \subseteq SUBSET Jobs
    BY DEF MarketInv, TypesInv, Begin
  <2>3. \A k \in Jobs : \A b \in jobs'[k].todo \cup jobs'[k].added : IsBar(b) /\ b.by = k
    BY <1>1 DEF MarketInv, TypesInv, Storing
  <2>4. \A k \in Jobs : jobs'[k].at # "storing" => jobs'[k].todo = {} /\ jobs'[k].added = {}
    BY <1>1 DEF MarketInv, TypesInv, Storing
  <2> QED
    BY <2>1, <2>2, <2>3, <2>4 DEF MarketInv, TypesInv
<1>5. FiniteInv'
  <2>1. IsFiniteSet(Minutes)'
    BY DEF MarketInv, FiniteInv, Minutes
  <2>2. ASSUME NEW k \in Fetches
        PROVE  IsFiniteSet(jobs'[k].todo) /\ IsFiniteSet(jobs'[k].added)
    <3>1. CASE k = j
      <4>1. jobs'[k].todo = todo /\ jobs'[k].added = {}
        BY <1>1, <3>1 DEF Storing
      <4> QED
        BY <3>1, <4>1, FS_EmptySet
    <3>2. CASE k # j
      <4>1. jobs'[k] = jobs[k]
        BY <1>1, <3>2 DEF Jobs
      <4> QED
        BY <4>1 DEF MarketInv, FiniteInv
    <3> QED
      BY <3>1, <3>2
  <2> QED
    BY <2>1, <2>2 DEF FiniteInv
<1>6. KeysInv'
  BY <1>1, <1>3 DEF MarketInv, KeysInv, Storing, Jobs
<1>7. TruthInv'
  <2>1. \A b \in bars' : IsTrue(b)'
    BY TruthStays DEF MarketInv, TruthInv
  <2>2. ASSUME NEW k \in Jobs, NEW b \in jobs'[k].todo \cup jobs'[k].added
        PROVE  IsTrue(b)'
    <3>1. IsTrue(b)
      BY <1>1 DEF MarketInv, TruthInv, Storing
    <3> QED
      BY <3>1, TruthStays
  <2> QED
    BY <2>1, <2>2 DEF TruthInv
<1>8. OverlapInv'
  <2>1. ASSUME NEW k \in Jobs, NEW i \in Jobs, k # i, jobs'[k].at = "storing", jobs'[i].at = "storing"
        PROVE  {k, i} \in overlaps'
    BY <1>1, <2>1 DEF MarketInv, OverlapInv, Begin
  <2>2. ASSUME NEW k \in Jobs, NEW b \in jobs'[k].added, NEW c \in bars', KeyOf(b) = KeyOf(c)
        PROVE  {k, c.by} \in overlaps'
    BY <1>1, <2>2 DEF MarketInv, OverlapInv, Begin, Storing
  <2>3. TwiceOnlyByOverlap'
    BY DEF MarketInv, OverlapInv, TwiceOnlyByOverlap, Begin, KeyOf
  <2> QED
    BY <2>1, <2>2, <2>3 DEF OverlapInv, KeyOf
<1> QED
  BY <1>4, <1>5, <1>6, <1>7, <1>8 DEF MarketInv

(* A call that ends without a commit. *)
LEMMA EndKeeps ==
    ASSUME MarketInv, NEW j \in Jobs, NEW end \in {"done", "empty", "refused", "failed"},
           jobs' = [jobs EXCEPT ![j] = EndedAs(end)], UNCHANGED <<bars, overlaps>>
    PROVE  MarketInv'
<1>1. \A k \in Jobs : jobs'[k] = IF k = j THEN EndedAs(end) ELSE jobs[k]
  BY DEF MarketInv, TypesInv
<1>4. TypesInv'
  <2>1. jobs' \in [Jobs -> [at: {"idle", "storing", "done", "empty", "refused", "failed"},
                           todo: SUBSET MBars, added: SUBSET MBars]]
    BY DEF MarketInv, TypesInv, EndedAs
  <2>3. \A k \in Jobs : \A b \in jobs'[k].todo \cup jobs'[k].added : IsBar(b) /\ b.by = k
    BY <1>1 DEF MarketInv, TypesInv, EndedAs
  <2>4. \A k \in Jobs : jobs'[k].at # "storing" => jobs'[k].todo = {} /\ jobs'[k].added = {}
    BY <1>1 DEF MarketInv, TypesInv, EndedAs
  <2> QED
    BY <2>1, <2>3, <2>4 DEF MarketInv, TypesInv
<1>5. FiniteInv'
  BY <1>1, FS_EmptySet DEF MarketInv, FiniteInv, Minutes, EndedAs, Jobs
<1>6. KeysInv'
  BY <1>1 DEF MarketInv, KeysInv, EndedAs, Jobs
<1>7. TruthInv'
  <2>1. \A b \in bars' : IsTrue(b)'
    BY TruthStays DEF MarketInv, TruthInv
  <2>2. ASSUME NEW k \in Jobs, NEW b \in jobs'[k].todo \cup jobs'[k].added
        PROVE  IsTrue(b)'
    <3>1. IsTrue(b)
      BY <1>1 DEF MarketInv, TruthInv, EndedAs
    <3> QED
      BY <3>1, TruthStays
  <2> QED
    BY <2>1, <2>2 DEF TruthInv
<1>8. OverlapInv'
  <2>1. ASSUME NEW k \in Jobs, NEW i \in Jobs, k # i, jobs'[k].at = "storing", jobs'[i].at = "storing"
        PROVE  {k, i} \in overlaps'
    BY <1>1, <2>1 DEF MarketInv, OverlapInv, EndedAs
  <2>2. ASSUME NEW k \in Jobs, NEW b \in jobs'[k].added, NEW c \in bars', KeyOf(b) = KeyOf(c)
        PROVE  {k, c.by} \in overlaps'
    BY <1>1, <2>2 DEF MarketInv, OverlapInv, EndedAs
  <2>3. TwiceOnlyByOverlap'
    BY DEF MarketInv, OverlapInv, TwiceOnlyByOverlap, KeyOf
  <2> QED
    BY <2>1, <2>2, <2>3 DEF OverlapInv, KeyOf
<1> QED
  BY <1>4, <1>5, <1>6, <1>7, <1>8 DEF MarketInv

LEMMA RowsAreTyped ==
    ASSUME NEW batch \in Batches
    PROVE  /\ batch \in Seq(VendorRow) /\ Len(batch) \in Nat
           /\ FirstRows(batch) \subseteq VendorRow /\ IsFiniteSet(FirstRows(batch))
           /\ ~ ZeroPrice(batch) => \A row \in FirstRows(batch) :
                                       0 \notin {row.open, row.high, row.low, row.close}
<1>1. batch \in Seq(VendorRow) /\ Len(batch) \in Nat
  BY MarketAssumption
<1>2. \A n \in 1..Len(batch) : batch[n] \in VendorRow
  BY <1>1
<1>3. FirstRows(batch) \subseteq VendorRow
  BY <1>2 DEF FirstRows
<1>4. IsFiniteSet(FirstRows(batch))
  <2> DEFINE N == {k \in 1..Len(batch) : \A i \in 1..(k - 1) : batch[i].minute # batch[k].minute}
             all == 1..Len(batch)
  <2>1. IsFiniteSet(all)
    BY <1>1, Len(batch) \in Int, 1 \in Int, FS_Interval
  <2>2. IsFiniteSet(N)
    <3>1. N \subseteq all
      OBVIOUS
    <3> HIDE DEF N, all
    <3> QED
      BY <2>1, <3>1, FS_Subset
  <2>3. FirstRows(batch) = {batch[n] : n \in N}
    BY DEF FirstRows
  <2> HIDE DEF N
  <2> QED
    BY <2>2, <2>3, ImageIsFinite
<1>5. ASSUME ~ ZeroPrice(batch), NEW row \in FirstRows(batch)
      PROVE  0 \notin {row.open, row.high, row.low, row.close}
  BY <1>5 DEF FirstRows, ZeroPrice
<1> QED
  BY <1>1, <1>3, <1>4, <1>5

LEMMA FetchKeeps ==
    ASSUME MarketInv, NEW j \in Fetches, Fetch(j)
    PROVE  MarketInv'
<1>1. j \in Jobs
  BY DEF Jobs
<1>2. PICK version \in Versions, batch \in Batches :
        IF batch = <<>> \/ ZeroPrice(batch)
        THEN /\ jobs[j].at = "idle"
             /\ jobs' = [jobs EXCEPT ![j] = EndedAs(IF batch = <<>> THEN "empty" ELSE "refused")]
             /\ UNCHANGED <<bars, overlaps>>
        ELSE /\ Begin(j, {MinuteBar(j, version, row) : row \in FirstRows(batch)})
             /\ UNCHANGED bars
  BY DEF Fetch
<1>3. CASE batch = <<>> \/ ZeroPrice(batch)
  <2>1. PICK end \in {"empty", "refused"} : jobs' = [jobs EXCEPT ![j] = EndedAs(end)]
    BY <1>2, <1>3
  <2> QED
    BY <1>1, <1>2, <1>3, <2>1, EndKeeps
<1>4. CASE ~ (batch = <<>> \/ ZeroPrice(batch))
  <2> DEFINE rows == FirstRows(batch)
             bar == [row \in rows |-> MinuteBar(j, version, row)]
             todo == {MinuteBar(j, version, row) : row \in rows}
  <2>1. Begin(j, todo) /\ UNCHANGED bars
    BY <1>2, <1>4
  <2>2. rows \subseteq VendorRow /\ IsFiniteSet(rows)
    BY RowsAreTyped
  <2>3. \A row \in rows : 0 \notin {row.open, row.high, row.low, row.close}
    BY <1>4, RowsAreTyped
  <2>4. IsFiniteSet(todo)
    <3>1. todo = {bar[row] : row \in rows}
      OBVIOUS
    <3> HIDE DEF todo, bar, rows
    <3> QED
      BY <2>2, <3>1, ImageIsFinite
  <2>5. ASSUME NEW row \in rows
        PROVE  /\ IsBar(MinuteBar(j, version, row)) /\ MinuteBar(j, version, row).by = j
               /\ IsTrue(MinuteBar(j, version, row))
    <3>1. /\ row.minute \in Nat /\ row.open \in Nat /\ row.high \in Nat /\ row.low \in Nat
          /\ row.close \in Nat /\ row.volume \in Nat
      BY <2>2 DEF VendorRow
    <3>2. row.minute + 1 \in Nat /\ row.minute < row.minute + 1
      BY <3>1
    <3>3. j \notin Builds
      BY MarketAssumption
    <3>4. MinuteBar(j, version, row) \in MBars
      BY <1>1, <3>1, <3>2 DEF MinuteBar, MBars
    <3> QED
      BY <2>3, <3>2, <3>3, <3>4 DEF MinuteBar, IsBar, IsTrue
  <2>6. \A b \in todo : IsBar(b) /\ b.by = j /\ IsTrue(b)
    BY <2>5
  <2>7. \A b, c \in todo : b.version = c.version
    BY DEF MinuteBar
  <2> HIDE DEF todo
  <2> QED
    BY <1>1, <2>1, <2>4, <2>6, <2>7, BeginKeeps
<1> QED
  BY <1>3, <1>4

LEMMA BuildKeeps ==
    ASSUME MarketInv, NEW j \in Builds, Build(j)
    PROVE  MarketInv'
<1>1. PICK version \in Versions, rank \in Bijection(Fetches, 1..Cardinality(Fetches)) :
         Begin(j, {Aggregate(j, version, window, Constituents(window), rank) :
                      window \in {w \in UNION {Boundaries(cycle) : cycle \in Cycles} :
                                      Constituents(w) # {}}})
  BY DEF Build
<1> DEFINE windows == {w \in UNION {Boundaries(cycle) : cycle \in Cycles} : Constituents(w) # {}}
           todo == {Aggregate(j, version, window, Constituents(window), rank) : window \in windows}
<1>2. Begin(j, todo) /\ UNCHANGED bars
  BY <1>1 DEF Build
<1>3. ASSUME NEW b \in todo
      PROVE  IsBar(b) /\ b.by = j /\ IsTrue(b)
  <2>1. PICK w \in windows : b = Aggregate(j, version, w, Constituents(w), rank)
    OBVIOUS
  <2>2. PICK cycle \in Cycles : w \in Boundaries(cycle)
    OBVIOUS
  <2>3. Constituents(w) # {}
    OBVIOUS
  <2> HIDE DEF windows, todo
  <2> QED
    BY <2>1, <2>2, <2>3, AggregateIsBar
<1>4. j \in Jobs /\ j \notin Fetches
  BY MarketAssumption DEF Jobs
<1> HIDE DEF todo, windows
<1> QED
  BY <1>2, <1>3, <1>4, BeginKeeps

(* A look, and an insert if nothing was found. *)
LEMMA UpsertKeeps ==
    ASSUME MarketInv, NEW j \in Jobs, UpsertBar(j)
    PROVE  MarketInv'
<1>1. PICK bar \in jobs[j].todo :
         jobs' = [jobs EXCEPT ![j] =
                    IF Cardinality(Found(j, bar)) > 1 THEN EndedAs("failed")
                    ELSE [at |-> "storing", todo |-> @.todo \ {bar},
                          added |-> @.added \cup (IF Found(j, bar) = {} THEN {bar} ELSE {})]]
  BY DEF UpsertBar
<1>2. UNCHANGED <<bars, overlaps>> /\ jobs[j].at = "storing"
  BY DEF UpsertBar
<1>3. CASE Cardinality(Found(j, bar)) > 1
  <2>1. jobs' = [jobs EXCEPT ![j] = EndedAs("failed")]
    BY <1>1, <1>3
  <2> QED
    BY <1>2, <2>1, EndKeeps
<1>4. CASE ~ (Cardinality(Found(j, bar)) > 1)
  <2>1. PICK rest, mine : /\ rest = jobs[j].todo \ {bar}
                         /\ mine = jobs[j].added \cup (IF Found(j, bar) = {} THEN {bar} ELSE {})
    OBVIOUS
  <2>2. jobs' = [jobs EXCEPT ![j] = [at |-> "storing", todo |-> rest, added |-> mine]]
    BY <1>1, <1>4, <2>1
  <2>3. /\ rest \subseteq jobs[j].todo /\ jobs[j].added \subseteq mine
        /\ mine \subseteq jobs[j].added \cup {bar}
        /\ bar \in mine => bar \in jobs[j].added \/ Found(j, bar) = {}
        /\ rest \cup mine \subseteq jobs[j].todo \cup jobs[j].added
    BY <2>1
  <2>4. \A k \in Jobs : jobs'[k] = IF k = j THEN [at |-> "storing", todo |-> rest, added |-> mine]
                                    ELSE jobs[k]
    BY <2>2 DEF MarketInv, TypesInv
  <2>5. /\ jobs[j].todo \subseteq MBars /\ jobs[j].added \subseteq MBars
        /\ \A b \in jobs[j].todo \cup jobs[j].added : IsBar(b) /\ b.by = j
    BY DEF MarketInv, TypesInv
  <2>6. TypesInv'
    <3>1. rest \in SUBSET MBars /\ mine \in SUBSET MBars
      BY <2>3, <2>5
    <3>2. jobs' \in [Jobs -> [at: {"idle", "storing", "done", "empty", "refused", "failed"},
                             todo: SUBSET MBars, added: SUBSET MBars]]
      BY <2>2, <3>1 DEF MarketInv, TypesInv
    <3>3. \A k \in Jobs : \A b \in jobs'[k].todo \cup jobs'[k].added : IsBar(b) /\ b.by = k
      BY <2>3, <2>4, <2>5 DEF MarketInv, TypesInv
    <3>4. \A k \in Jobs : jobs'[k].at # "storing" => jobs'[k].todo = {} /\ jobs'[k].added = {}
      BY <2>4 DEF MarketInv, TypesInv
    <3> QED
      BY <1>2, <3>2, <3>3, <3>4 DEF MarketInv, TypesInv
  <2>7. FiniteInv'
    <3>1. IsFiniteSet(Minutes)'
      BY <1>2 DEF MarketInv, FiniteInv, Minutes
    <3>2. ASSUME j \in Fetches
          PROVE  IsFiniteSet(rest) /\ IsFiniteSet(mine)
      <4>1. IsFiniteSet(jobs[j].todo) /\ IsFiniteSet(jobs[j].added \cup {bar})
        BY <3>2, FS_AddElement DEF MarketInv, FiniteInv
      <4> QED
        BY <2>3, <4>1, FS_Subset
    <3> QED
      BY <2>4, <3>1, <3>2 DEF MarketInv, FiniteInv, Jobs
  <2>8. KeysInv'
    <3>1. \A k \in Jobs : jobs'[k].at \in {"idle", "storing"} => \A b \in bars' : b.by # k
      BY <1>2, <2>4 DEF MarketInv, KeysInv
    <3>2. \A k \in Fetches : \A b, c \in jobs'[k].todo \cup jobs'[k].added : b.version = c.version
      BY <2>3, <2>4 DEF MarketInv, KeysInv, Jobs
    <3>3. \A b, c \in mine : KeyOf(b) = KeyOf(c) => b = c
      <4>1. ASSUME bar \notin jobs[j].added, bar \in mine, NEW b \in jobs[j].added
            PROVE  KeyOf(b) # KeyOf(bar)
        BY <2>3, <4>1 DEF Found
      <4> QED
        BY <2>3, <4>1 DEF MarketInv, KeysInv
    <3>4. \A k \in Jobs : \A b, c \in jobs'[k].added : KeyOf(b) = KeyOf(c) => b = c
      BY <2>4, <3>3 DEF MarketInv, KeysInv
    <3>5. /\ \A b, c \in bars' : b.by = c.by /\ b.by \in Fetches => b.version = c.version
          /\ \A b, c \in bars' : b.by = c.by /\ KeyOf(b) = KeyOf(c) => b = c
      BY <1>2 DEF MarketInv, KeysInv
    <3> QED
      BY <3>1, <3>2, <3>4, <3>5 DEF KeysInv, KeyOf
  <2>9. TruthInv'
    <3>1. \A b \in bars' : IsTrue(b)'
      BY <1>2, TruthStays DEF MarketInv, TruthInv
    <3>2. ASSUME NEW k \in Jobs, NEW b \in jobs'[k].todo \cup jobs'[k].added
          PROVE  IsTrue(b)'
      <4>1. IsTrue(b)
        BY <2>3, <2>4 DEF MarketInv, TruthInv
      <4> QED
        BY <1>2, <4>1, TruthStays
    <3> QED
      BY <3>1, <3>2 DEF TruthInv
  <2>10. OverlapInv'
    <3>1. ASSUME NEW k \in Jobs, NEW i \in Jobs, k # i, jobs'[k].at = "storing", jobs'[i].at = "storing"
          PROVE  {k, i} \in overlaps'
      BY <1>2, <2>4, <3>1 DEF MarketInv, OverlapInv
    <3>2. ASSUME NEW k \in Jobs, NEW b \in jobs'[k].added, NEW c \in bars', KeyOf(b) = KeyOf(c)
          PROVE  {k, c.by} \in overlaps'
      <4>1. b \in jobs[k].added \/ (k = j /\ b = bar /\ Found(j, bar) = {})
        BY <2>3, <2>4, <3>2
      <4>2. Found(j, bar) = {} => KeyOf(c) # KeyOf(bar)
        BY <1>2 DEF Found
      <4> QED
        BY <1>2, <3>2, <4>1, <4>2 DEF MarketInv, OverlapInv
    <3>3. TwiceOnlyByOverlap'
      BY <1>2 DEF MarketInv, OverlapInv, TwiceOnlyByOverlap, KeyOf
    <3> QED
      BY <3>1, <3>2, <3>3 DEF OverlapInv, KeyOf
  <2> QED
    BY <2>6, <2>7, <2>8, <2>9, <2>10 DEF MarketInv
<1> QED
  BY <1>3, <1>4

LEMMA CommitKeeps ==
    ASSUME MarketInv, NEW j \in Jobs, Commit(j)
    PROVE  MarketInv'
<1>1. PICK mine : mine = jobs[j].added
  OBVIOUS
<1>2. /\ jobs[j].at = "storing" /\ bars' = bars \cup mine /\ overlaps' = overlaps
      /\ jobs' = [jobs EXCEPT ![j] = EndedAs("done")]
  BY <1>1 DEF Commit
<1>3. \A k \in Jobs : jobs'[k] = IF k = j THEN EndedAs("done") ELSE jobs[k]
  BY <1>2 DEF MarketInv, TypesInv
<1>4. /\ \A b \in mine : IsBar(b) /\ b.by = j /\ IsTrue(b)
      /\ \A b, c \in mine : KeyOf(b) = KeyOf(c) => b = c
      /\ \A b \in bars : b.by # j
      /\ \A b \in mine, c \in bars : KeyOf(b) = KeyOf(c) => {j, c.by} \in overlaps
  BY <1>1, <1>2 DEF MarketInv, TypesInv, TruthInv, KeysInv, OverlapInv
<1>5. TypesInv'
  <2>1. jobs' \in [Jobs -> [at: {"idle", "storing", "done", "empty", "refused", "failed"},
                           todo: SUBSET MBars, added: SUBSET MBars]]
    BY <1>2 DEF MarketInv, TypesInv, EndedAs
  <2>3. \A k \in Jobs : \A b \in jobs'[k].todo \cup jobs'[k].added : IsBar(b) /\ b.by = k
    BY <1>3 DEF MarketInv, TypesInv, EndedAs
  <2>4. \A k \in Jobs : jobs'[k].at # "storing" => jobs'[k].todo = {} /\ jobs'[k].added = {}
    BY <1>3 DEF MarketInv, TypesInv, EndedAs
  <2>5. \A b \in bars' : IsBar(b)
    BY <1>2, <1>4 DEF MarketInv, TypesInv
  <2> QED
    BY <1>2, <2>1, <2>3, <2>4, <2>5 DEF MarketInv, TypesInv
<1>6. FiniteInv'
  <2>1. IsFiniteSet(Minutes)'
    <3>1. CASE j \in Fetches
      <4>1. Minutes' \subseteq Minutes \cup mine
        BY <1>2 DEF Minutes
      <4>2. IsFiniteSet(Minutes \cup mine)
        BY <1>1, <3>1, FS_Union DEF MarketInv, FiniteInv
      <4> QED
        BY <4>1, <4>2, FS_Subset
    <3>2. CASE j \in Builds
      <4>1. \A b \in mine : b.cycle # 1
        BY <1>4, <3>2 DEF IsBar
      <4>2. Minutes' = Minutes
        BY <1>2, <4>1 DEF Minutes
      <4> QED
        BY <4>2 DEF MarketInv, FiniteInv
    <3> QED
      BY <3>1, <3>2 DEF Jobs
  <2> QED
    BY <1>3, <2>1, FS_EmptySet DEF MarketInv, FiniteInv, EndedAs, Jobs
<1>7. KeysInv'
  <2>1. \A k \in Jobs : jobs'[k].at \in {"idle", "storing"} => \A b \in bars' : b.by # k
    BY <1>2, <1>3, <1>4 DEF MarketInv, KeysInv, EndedAs
  <2>2. \A k \in Fetches : \A b, c \in jobs'[k].todo \cup jobs'[k].added : b.version = c.version
    BY <1>3 DEF MarketInv, KeysInv, Jobs, EndedAs
  <2>3. \A k \in Jobs : \A b, c \in jobs'[k].added : KeyOf(b) = KeyOf(c) => b = c
    BY <1>3 DEF MarketInv, KeysInv, EndedAs
  <2>4. j \in Fetches => \A b, c \in mine : b.version = c.version
    BY <1>1 DEF MarketInv, KeysInv
  <2>5. /\ \A b, c \in bars' : b.by = c.by /\ b.by \in Fetches => b.version = c.version
        /\ \A b, c \in bars' : b.by = c.by /\ KeyOf(b) = KeyOf(c) => b = c
    BY <1>2, <1>4, <2>4 DEF MarketInv, KeysInv
  <2> QED
    BY <2>1, <2>2, <2>3, <2>5 DEF KeysInv, KeyOf
<1>8. TruthInv'
  <2>1. bars \subseteq bars'
    BY <1>2
  <2>2. \A b \in bars' : IsTrue(b)
    BY <1>2, <1>4 DEF MarketInv, TruthInv
  <2>3. \A k \in Jobs : \A b \in jobs'[k].todo \cup jobs'[k].added : IsTrue(b)
    BY <1>3 DEF MarketInv, TruthInv, EndedAs
  <2>4. \A b : IsTrue(b) => IsTrue(b)'
    BY <2>1, TruthStays
  <2> QED
    BY <2>2, <2>3, <2>4 DEF TruthInv
<1>9. OverlapInv'
  <2>1. ASSUME NEW k \in Jobs, NEW i \in Jobs, k # i, jobs'[k].at = "storing", jobs'[i].at = "storing"
        PROVE  {k, i} \in overlaps'
    BY <1>2, <1>3, <2>1 DEF MarketInv, OverlapInv, EndedAs
  <2>2. ASSUME NEW k \in Jobs, NEW b \in jobs'[k].added, NEW c \in bars', KeyOf(b) = KeyOf(c)
        PROVE  {k, c.by} \in overlaps'
    <3>1. k # j /\ b \in jobs[k].added
      BY <1>3, <2>2 DEF EndedAs
    <3>2. CASE c \in bars
      BY <1>2, <2>2, <3>1, <3>2 DEF MarketInv, OverlapInv
    <3>3. CASE c \in mine
      <4>1. jobs[k].at = "storing"
        BY <3>1 DEF MarketInv, TypesInv
      <4>2. {k, j} \in overlaps
        BY <1>2, <3>1, <4>1 DEF MarketInv, OverlapInv
      <4> QED
        BY <1>2, <1>4, <3>3, <4>2
    <3> QED
      BY <1>2, <3>2, <3>3
  <2>3. ASSUME NEW b \in bars', NEW c \in bars', b # c, KeyOf(b) = KeyOf(c)
        PROVE  {b.by, c.by} \in overlaps'
    <3>1. CASE b \in bars /\ c \in bars
      BY <1>2, <2>3, <3>1 DEF MarketInv, OverlapInv, TwiceOnlyByOverlap
    <3>2. CASE b \in mine /\ c \in bars
      BY <1>2, <1>4, <2>3, <3>2
    <3>3. CASE b \in bars /\ c \in mine
      <4>1. {j, b.by} \in overlaps /\ c.by = j
        BY <1>4, <2>3, <3>3
      <4>2. {b.by, c.by} = {j, b.by}
        BY <4>1
      <4> QED
        BY <1>2, <4>1, <4>2
    <3>4. CASE b \in mine /\ c \in mine
      BY <1>4, <2>3, <3>4
    <3> QED
      BY <1>2, <3>1, <3>2, <3>3, <3>4
  <2> QED
    BY <2>1, <2>2, <2>3 DEF OverlapInv, TwiceOnlyByOverlap, KeyOf
<1> QED
  BY <1>5, <1>6, <1>7, <1>8, <1>9 DEF MarketInv

LEMMA MarketSteps ==
    ASSUME MarketInv, [MarketNext]_marketVars
    PROVE  MarketInv'
<1>1. ASSUME NEW j \in Fetches, Fetch(j) PROVE MarketInv'
  BY <1>1, FetchKeeps
<1>2. ASSUME NEW j \in Builds, Build(j) PROVE MarketInv'
  BY <1>2, BuildKeeps
<1>3. ASSUME NEW j \in Jobs, UpsertBar(j) PROVE MarketInv'
  BY <1>3, UpsertKeeps
<1>4. ASSUME NEW j \in Jobs, Commit(j) PROVE MarketInv'
  BY <1>4, CommitKeeps
<1>5. ASSUME NEW j \in Jobs, Rollback(j) PROVE MarketInv'
  BY <1>5, EndKeeps DEF Rollback
<1>6. CASE UNCHANGED marketVars
  <2>1. TruthInv'
    BY <1>6, TruthStays DEF marketVars, MarketInv, TruthInv
  <2>2. TypesInv' /\ FiniteInv' /\ KeysInv' /\ OverlapInv'
    BY <1>6 DEF marketVars, MarketInv, TypesInv, FiniteInv, KeysInv, OverlapInv, TwiceOnlyByOverlap,
                Minutes, KeyOf
  <2> QED
    BY <2>1, <2>2 DEF MarketInv
<1> QED
  BY <1>1, <1>2, <1>3, <1>4, <1>5, <1>6 DEF MarketNext

(* A completed bar whose minutes are stored once has every one of them.    *)
LEMMA CompletedTruth ==
    ASSUME MarketInv
    PROVE  CompletedIsTruth
<1> SUFFICES ASSUME NEW b \in bars, b.cycle > 1, b.completed, Plain(b)
             PROVE  LET all == Constituents(WindowOf(b))
                    IN  /\ {c.start : c \in all} = b.start..(b.end - 1)
                        /\ b.open = MinuteAt(b, b.start).open /\ b.close = MinuteAt(b, b.end - 1).close
                        /\ \A c \in all : b.low <= c.low /\ c.high <= b.high
                        /\ b.volume = TotalVolume(all)
  BY DEF CompletedIsTruth
<1>1. PICK all : all = Constituents(WindowOf(b))
  OBVIOUS
<1>2. PICK rows \in SUBSET all : Says(b, rows)
  BY <1>1 DEF MarketInv, TruthInv, IsTrue, Told
<1>3. b.start \in Nat /\ b.end \in Nat /\ b.start < b.end
  BY DEF MarketInv, TypesInv, IsBar, MBars
<1>4. /\ \A c \in all : c.start \in Nat /\ b.start <= c.start /\ c.start < b.end
      /\ IsFiniteSet(all) /\ IsFiniteSet(rows)
  <2>1. all \subseteq Minutes /\ \A c \in all : b.start <= c.start /\ c.start < b.end
    BY <1>1 DEF Constituents, WindowOf
  <2>2. \A c \in all : c.start \in Nat
    BY <2>1 DEF Minutes, MarketInv, TypesInv, IsBar, MBars
  <2> QED
    BY <2>1, <2>2, FS_Subset DEF MarketInv, FiniteInv
<1>5. Distinct(all) /\ Distinct(rows)
  BY <1>1 DEF Plain, Distinct
<1>6. {c.start : c \in rows} = b.start..(b.end - 1)
  <2> DEFINE S == {c.start : c \in rows}
             I == b.start..(b.end - 1)
             f == [c \in rows |-> c.start]
  <2>1. f \in Bijection(rows, S)
    BY <1>5 DEF Distinct, Bijection, Injection, Surjection, IsInjective
  <2>2. IsFiniteSet(S) /\ Cardinality(S) = Cardinality(rows)
    <3> HIDE DEF f, S
    <3>1. f \in Injection(rows, S) /\ f \in Surjection(rows, S)
      BY <2>1 DEF Bijection
    <3>2. IsFiniteSet(S)
      BY <1>4, <3>1, FS_Surjection
    <3>3. Cardinality(S) <= Cardinality(rows) /\ Cardinality(rows) <= Cardinality(S)
      BY <1>4, <3>1, <3>2, FS_Surjection, FS_Injection
    <3>4. Cardinality(S) \in Nat /\ Cardinality(rows) \in Nat
      BY <1>4, <3>2, FS_CardinalityType
    <3> QED
      BY <3>2, <3>3, <3>4
  <2>3. S \subseteq I
    BY <1>3, <1>4
  <2>4. IsFiniteSet(I) /\ Cardinality(I) = b.end - b.start
    <3>1. b.start \in Int /\ b.end - 1 \in Int /\ ~ (b.start > b.end - 1) /\ (b.end - 1) - b.start + 1 = b.end - b.start
      BY <1>3
    <3> QED
      BY <3>1, FS_Interval
  <2>5. Cardinality(rows) = b.end - b.start
    BY <1>2 DEF Says
  <2> HIDE DEF S, I
  <2>6. S = I
    BY <2>2, <2>3, <2>4, <2>5, FS_Subset
  <2> QED
    BY <2>6 DEF S, I
<1>7. all = rows
  <2>1. ASSUME NEW c \in all PROVE c \in rows
    <3>1. c.start \in b.start..(b.end - 1)
      BY <1>3, <1>4
    <3>2. PICK d \in rows : d.start = c.start
      BY <1>6, <3>1
    <3> QED
      BY <1>5, <3>2 DEF Distinct
  <2> QED
    BY <2>1
<1>8. ASSUME NEW minute \in b.start..(b.end - 1)
      PROVE  MinuteAt(b, minute) \in rows /\ MinuteAt(b, minute).start = minute
  <2>1. \E c \in rows : c.start = minute
    BY <1>6
  <2> QED
    BY <1>1, <1>7, <2>1 DEF MinuteAt
<1>9. b.start \in b.start..(b.end - 1) /\ b.end - 1 \in b.start..(b.end - 1)
  BY <1>3
<1>10. PICK opening, closing : opening = MinuteAt(b, b.start) /\ closing = MinuteAt(b, b.end - 1)
  OBVIOUS
<1>11. /\ opening \in rows /\ opening.start = b.start
       /\ closing \in rows /\ closing.start = b.end - 1
  BY <1>8, <1>9, <1>10
<1>12. b.open = opening.open /\ b.close = closing.close
  <2>1. \A c \in rows : /\ c.start = b.start => b.open = c.open
                        /\ c.start = b.end - 1 => b.close = c.close
    <3>1. Says(b, rows) /\ Distinct(rows)
      BY <1>2, <1>5
    <3> QED
      BY <3>1, Zenon DEF Says
  <2> QED
    BY <1>11, <2>1
<1>13. /\ b.volume = TotalVolume(rows)
       /\ \A c \in rows : b.low <= c.low /\ c.high <= b.high
  BY <1>2 DEF Says
<1> QED
  BY <1>1, <1>6, <1>7, <1>10, <1>12, <1>13

LEMMA MarketTypes ==
    ASSUME MarketInv
    PROVE  MarketTypeOK
<1>1. ASSUME NEW b, IsBar(b)
      PROVE  /\ b.by \in Jobs /\ b.version \in Versions /\ b.cycle \in Cycles \cup {1}
             /\ b.start < b.end /\ b.completed \in BOOLEAN
             /\ {b.open, b.high, b.low, b.close, b.volume} \subseteq Nat
  BY <1>1 DEF IsBar, MBars
<1>2. \A b \in bars \cup UNION {jobs[j].todo \cup jobs[j].added : j \in Jobs} : IsBar(b)
  BY DEF MarketInv, TypesInv
<1>3. ASSUME NEW j \in Jobs
      PROVE  /\ jobs[j].at \in {"idle", "storing", "done", "empty", "refused", "failed"}
             /\ jobs[j].at # "storing" => jobs[j].todo = {} /\ jobs[j].added = {}
  BY DEF MarketInv, TypesInv
<1>4. ASSUME NEW j \in Jobs, NEW b \in jobs[j].added
      PROVE  b.by = j /\ Found(j, b) \cap jobs[j].added = {b}
  BY DEF MarketInv, TypesInv, KeysInv, Found
<1> QED
  BY <1>1, <1>2, <1>3, <1>4 DEF MarketInv, TypesInv, MarketTypeOK

(* Stored bars tell the truth, for any vendor, any number of jobs and any  *)
(* cycles: real prices, stored once unless jobs overlapped, and a bar of a *)
(* longer cycle that says it is completed agrees with its minutes.         *)
THEOREM StoredBarsAreTrue == MarketSpec => []BarsAreTrue
<1>1. MarketInit => MarketInv
  BY MarketStarts
<1>2. MarketInv /\ [MarketNext]_marketVars => MarketInv'
  BY MarketSteps
<1>3. MarketInv => BarsAreTrue
  BY CompletedTruth DEF MarketInv, OverlapInv, TypesInv, IsBar, BarsAreTrue, PricesAreReal
<1> QED
  BY <1>1, <1>2, <1>3, PTL DEF MarketSpec

-----------------------------------------------------------------------------
(* Requests for backtests: their results, and the order of them. *)
Outcome == [run: Nat, return: Returns]
Kinds == {"waiting", "running", "answered", "closed", "refused", "lost"}
Requests == Singles \cup Sweeps

Apart(s) == \A n, k \in 1..Len(s) : s[n].run = s[k].run => n = k

LEMMA OutcomesAreNumbers ==
    ASSUME NEW x \in Outcome
    PROVE  x.run \in Int /\ x.return \in Int
<1>1. x.run \in Nat /\ x.return \in Returns
  BY DEF Outcome
<1>2. Returns \subseteq Int
  BY RunsAssumption
<1>3. x.run \in Int
  BY <1>1
<1>4. x.return \in Int
  BY <1>1, <1>2
<1> QED
  BY <1>3, <1>4

LEMMA AsManyAsPlaces ==
    ASSUME NEW n \in Nat, NEW f, NEW T, T = {f[k] : k \in 1..n},
           \A k, l \in 1..n : f[k] = f[l] => k = l
    PROVE  IsFiniteSet(T) /\ Cardinality(T) = n
<1> DEFINE I == 1..n
           g == [k \in I |-> f[k]]
<1>1. IsFiniteSet(I) /\ Cardinality(I) = n
  <2>1. 1 \in Int /\ n \in Int /\ (n < 1 => n = 0) /\ n - 1 + 1 = n
    OBVIOUS
  <2> QED
    BY <2>1, FS_Interval
<1>2. g \in Injection(I, T) /\ g \in Surjection(I, T)
  BY DEF Injection, Surjection, IsInjective
<1> HIDE DEF I, g
<1>3. IsFiniteSet(T)
  BY <1>1, <1>2, FS_Surjection
<1>4. Cardinality(T) <= Cardinality(I) /\ Cardinality(I) <= Cardinality(T)
  BY <1>1, <1>2, <1>3, FS_Surjection, FS_Injection
<1>5. Cardinality(T) \in Nat
  BY <1>3, FS_CardinalityType
<1> QED
  BY <1>1, <1>3, <1>4, <1>5

LEMMA EveryPlaceIsTaken ==
    ASSUME NEW n \in Nat, NEW S, IsFiniteSet(S), Cardinality(S) = n,
           NEW f \in [1..n -> S], \A k, l \in 1..n : f[k] = f[l] => k = l
    PROVE  {f[k] : k \in 1..n} = S
<1> DEFINE T == {f[k] : k \in 1..n}
<1>1. T \subseteq S
  OBVIOUS
<1> HIDE DEF T
<1>2. T = {f[k] : k \in 1..n}
  BY DEF T
<1>3. IsFiniteSet(T) /\ Cardinality(T) = n
  <2> DEFINE I == 1..n
             g == [k \in I |-> f[k]]
  <2>1. IsFiniteSet(I) /\ Cardinality(I) = n
    <3>1. 1 \in Int /\ n \in Int /\ (n < 1 => n = 0) /\ n - 1 + 1 = n
      OBVIOUS
    <3> QED
      BY <3>1, FS_Interval
  <2>2. g \in Injection(I, T) /\ g \in Surjection(I, T)
    BY <1>2 DEF Injection, Surjection, IsInjective
  <2> HIDE DEF I, g
  <2>3. Cardinality(I) <= Cardinality(T)
    BY <1>1, <2>2, FS_Injection, FS_Subset
  <2>4. IsFiniteSet(T) /\ Cardinality(T) <= n
    BY <1>1, FS_Subset
  <2> QED
    BY <2>1, <2>3, <2>4, FS_CardinalityType
<1>4. T = S
  BY <1>1, <1>3, FS_Subset
<1> QED
  BY <1>2, <1>4

(* Results of different runs can be ranked, each at the place that the     *)
(* number of those before it gives it.                                     *)
LEMMA RankingExists ==
    ASSUME NEW s \in Seq(Outcome), Apart(s)
    PROVE  \E order \in [DOMAIN s -> {s[n] : n \in DOMAIN s}] :
               \A n, k \in DOMAIN s : n < k => Precedes(order[n], order[k])
<1> DEFINE S == {s[n] : n \in 1..Len(s)}
           R == {p \in S \X S : Precedes(p[1], p[2])}
           place == [x \in S |-> Cardinality(Below(R, S, x)) + 1]
<1>1. Len(s) \in Nat /\ DOMAIN s = 1..Len(s) /\ \A n \in 1..Len(s) : s[n] \in Outcome
  OBVIOUS
<1>2. IsFiniteSet(S) /\ Cardinality(S) = Len(s)
  <2>1. \A k, l \in 1..Len(s) : s[k] = s[l] => k = l
    BY DEF Apart
  <2> HIDE DEF S
  <2>2. S = {s[k] : k \in 1..Len(s)}
    BY DEF S
  <2> QED
    BY <1>1, <2>1, <2>2, AsManyAsPlaces
<1>3. Orders2(R, S)
  <2>1. \A x \in S : x.run \in Int /\ x.return \in Int
    BY <1>1, OutcomesAreNumbers
  <2>2. \A x, y \in S : x.run = y.run => x = y
    BY DEF Apart
  <2> HIDE DEF S
  <2>3. /\ \A x \in S : ~ Precedes(x, x)
        /\ \A x, y \in S : x # y => Precedes(x, y) \/ Precedes(y, x)
        /\ \A x, y, z \in S : Precedes(x, y) /\ Precedes(y, z) => Precedes(x, z)
    BY <2>1, <2>2 DEF Precedes
  <2> QED
    BY <2>3 DEF Orders2
<1>4. \A x \in S : place[x] \in 1..Len(s)
  <2> SUFFICES ASSUME NEW x \in S PROVE place[x] \in 1..Len(s)
    OBVIOUS
  <2>1. Below(R, S, x) \subseteq S \ {x} /\ x \in S
    BY <1>3 DEF Below, Orders2
  <2>2. place[x] = Cardinality(Below(R, S, x)) + 1
    OBVIOUS
  <2> HIDE DEF S, R, place
  <2>3. IsFiniteSet(S \ {x}) /\ Cardinality(S \ {x}) = Cardinality(S) - 1
    BY <1>2, <2>1, FS_RemoveElement
  <2>4. /\ IsFiniteSet(Below(R, S, x)) /\ Cardinality(Below(R, S, x)) \in Nat
        /\ Cardinality(Below(R, S, x)) <= Len(s) - 1
    BY <1>2, <2>1, <2>3, FS_Subset, FS_CardinalityType
  <2> QED
    BY <1>1, <2>2, <2>4
<1>5. \A x, y \in S : Precedes(x, y) => place[x] < place[y]
  <2> SUFFICES ASSUME NEW x \in S, NEW y \in S, Precedes(x, y) PROVE place[x] < place[y]
    OBVIOUS
  <2>1. <<x, y>> \in R
    OBVIOUS
  <2>2. /\ place[x] = Cardinality(Below(R, S, x)) + 1
        /\ place[y] = Cardinality(Below(R, S, y)) + 1
    OBVIOUS
  <2> HIDE DEF S, R, place
  <2>4. Cardinality(Below(R, S, x)) < Cardinality(Below(R, S, y))
    BY <1>2, <1>3, <2>1, BelowGrows
  <2>5. \A z : Below(R, S, z) \subseteq S
    BY DEF Below
  <2>6. Cardinality(Below(R, S, x)) \in Nat /\ Cardinality(Below(R, S, y)) \in Nat
    BY <1>2, <2>5, FS_Subset, FS_CardinalityType
  <2> QED
    BY <2>2, <2>4, <2>6
<1>6. \A x, y \in S : x # y => Precedes(x, y) \/ Precedes(y, x)
  <2> HIDE DEF S
  <2> QED
    BY <1>3 DEF Orders2
<1>7. \A n \in 1..Len(s) : \E x \in S : place[x] = n
  <2> DEFINE P == {place[s[k]] : k \in 1..Len(s)}
             I == 1..Len(s)
             f == [k \in 1..Len(s) |-> place[s[k]]]
  <2>1. P = {f[k] : k \in 1..Len(s)}
    OBVIOUS
  <2>2. \A k, l \in 1..Len(s) : f[k] = f[l] => k = l
    <3> SUFFICES ASSUME NEW k \in 1..Len(s), NEW l \in 1..Len(s), k # l PROVE f[k] # f[l]
      OBVIOUS
    <3>1. s[k] # s[l] /\ s[k] \in S /\ s[l] \in S
      BY DEF Apart
    <3>2. f[k] = place[s[k]] /\ f[l] = place[s[l]]
      OBVIOUS
    <3> HIDE DEF S, f, place
    <3>3. place[s[k]] \in Nat /\ place[s[l]] \in Nat
      BY <1>1, <1>4, <3>1
    <3> QED
      BY <1>5, <1>6, <3>1, <3>2, <3>3
  <2>3. P \subseteq I
    BY <1>4
  <2>4. IsFiniteSet(I) /\ Cardinality(I) = Len(s)
    <3>1. 1 \in Int /\ Len(s) \in Int /\ (Len(s) < 1 => Len(s) = 0) /\ Len(s) - 1 + 1 = Len(s)
      BY <1>1
    <3> QED
      BY <3>1, FS_Interval
  <2>5. P = I
    <3> HIDE DEF P, I, f
    <3>1. IsFiniteSet(P) /\ Cardinality(P) = Len(s)
      BY <1>1, <2>1, <2>2, AsManyAsPlaces
    <3> QED
      BY <2>3, <2>4, <3>1, FS_Subset
  <2> QED
    BY <2>5
<1> DEFINE order == [n \in 1..Len(s) |-> CHOOSE x \in S : place[x] = n]
<1>8. \A n \in 1..Len(s) : order[n] \in S /\ place[order[n]] = n
  <2> HIDE DEF S, place
  <2> QED
    BY <1>7
<1>9. ASSUME NEW n \in 1..Len(s), NEW k \in 1..Len(s), n < k
      PROVE  Precedes(order[n], order[k])
  <2>1. /\ order[n] \in S /\ place[order[n]] = n
        /\ order[k] \in S /\ place[order[k]] = k
    BY <1>8
  <2> HIDE DEF S, place, order
  <2>2. order[n] # order[k]
    BY <1>9, <2>1
  <2>3. ~ Precedes(order[k], order[n])
    BY <1>5, <1>9, <2>1
  <2> QED
    BY <1>6, <2>1, <2>2, <2>3
<1>10. order \in [1..Len(s) -> S]
  BY <1>8
<1> HIDE DEF order, place
<1> QED
  BY <1>1, <1>9, <1>10

LEMMA RankedIsSorted ==
    ASSUME NEW s \in Seq(Outcome), Apart(s)
    PROVE  \E t \in Seq(Outcome) :
              /\ t = Ranked(s) /\ Len(t) = Len(s) /\ Apart(t)
              /\ {t[n] : n \in 1..Len(t)} = {s[n] : n \in 1..Len(s)}
              /\ \A n, k \in 1..Len(t) : n < k => Precedes(t[n], t[k])
<1> PICK t : t = Ranked(s)
  OBVIOUS
<1> DEFINE S == {s[n] : n \in 1..Len(s)}
           Placed == {t[n] : n \in 1..Len(s)}
<1>1. Len(s) \in Nat /\ DOMAIN s = 1..Len(s) /\ \A n \in 1..Len(s) : s[n] \in Outcome
  OBVIOUS
<1>2. /\ t \in [1..Len(s) -> S]
      /\ \A n, k \in 1..Len(s) : n < k => Precedes(t[n], t[k])
  BY <1>1, RankingExists DEF Ranked
<1>3. S \subseteq Outcome
  BY <1>1
<1>4. t \in Seq(Outcome) /\ Len(t) = Len(s)
  BY <1>1, <1>2, <1>3
<1>5. \A n, k \in 1..Len(s) : t[n] = t[k] => n = k
  <2>1. \A x \in Outcome : ~ Precedes(x, x)
    BY OutcomesAreNumbers DEF Precedes
  <2>2. \A n \in 1..Len(s) : t[n] \in Outcome
    BY <1>2, <1>3
  <2> QED
    BY <1>1, <1>2, <2>1, <2>2
<1>6. {t[n] : n \in 1..Len(s)} = S
  <2>1. \A n, k \in 1..Len(s) : s[n] = s[k] => n = k
    BY DEF Apart
  <2> HIDE DEF S
  <2>2. S = {s[n] : n \in 1..Len(s)}
    BY DEF S
  <2>3. IsFiniteSet(S) /\ Cardinality(S) = Len(s)
    BY <1>1, <2>1, <2>2, AsManyAsPlaces
  <2> QED
    BY <1>1, <1>2, <1>5, <2>3, EveryPlaceIsTaken
<1>7. \A x, y \in S : x.run = y.run => x = y
  BY DEF Apart
<1>8. Apart(t)
  BY <1>2, <1>4, <1>5, <1>7 DEF Apart
<1> QED
  BY <1>2, <1>4, <1>6, <1>8

-----------------------------------------------------------------------------
(* What holds of a request: a single run has one result; a sweep has, for  *)
(* every combination before the next one, a result or a failure, and has   *)
(* ranked them when it has answered.                                       *)
RunsOf(row) == {row.results[n].run : n \in 1..Len(row.results)}

RequestRows == [at: Kinds, grid: 0..Grid, next: Nat, results: Seq(Outcome), failed: Nat]

InGrid(row) == row.next \in 1..(row.grid + 1) /\ row.failed \in 0..row.grid

Sorted(s) == \A n, k \in 1..Len(s) : n < k => Precedes(s[n], s[k])

Accounted(row) ==
    /\ Len(row.results) + row.failed = row.next - 1
    /\ Apart(row.results)
    /\ \A n \in 1..Len(row.results) : row.results[n].run < row.next
    /\ row.at = "waiting" => row.next = 1
    /\ row.at \in {"answered", "closed"} => row.next = row.grid + 1 /\ Sorted(row.results)

RunsInv ==
    /\ requests \in [Requests -> RequestRows]
    /\ flushed \in [Requests -> SUBSET (Requests \X Nat)]
    /\ \A r \in Requests : InGrid(requests[r]) /\ flushed[r] \subseteq {r} \X RunsOf(requests[r])
    /\ \A r \in Singles : requests[r].at = "waiting" => flushed[r] = {}
    /\ \A r \in Sweeps : Accounted(requests[r]) /\ flushed[r] = {}
    /\ \A result \in table : result[1] \in Sweeps => result[2] \in RunsOf(requests[result[1]])
    /\ SavedIsKept

LEMMA RequestsAreOneKind ==
    /\ \A r \in Singles : r \in Requests /\ r \notin Sweeps
    /\ \A r \in Sweeps : r \in Requests /\ r \notin Singles
    /\ Grid \in Nat
  BY RunsAssumption DEF Requests

LEMMA RunsStart ==
    ASSUME RunsInit
    PROVE  RunsInv
<1>1. Waiting \in RequestRows /\ InGrid(Waiting) /\ Accounted(Waiting) /\ RunsOf(Waiting) = {}
  BY RequestsAreOneKind DEF Waiting, RequestRows, InGrid, Accounted, RunsOf, Apart, Kinds
<1>2. \A r \in Requests : requests[r] = Waiting /\ flushed[r] = {}
  BY DEF RunsInit, Requests
<1> QED
  BY <1>1, <1>2, RequestsAreOneKind DEF RunsInit, RunsInv, SavedIsKept, Requests

(* One request moves on, with its results; what is in the table stays.     *)
LEMMA RequestKeeps ==
    ASSUME RunsInv, NEW r \in Requests, NEW row \in RequestRows, NEW mine, NEW fresh,
           requests' = [requests EXCEPT ![r] = row],
           flushed' = [flushed EXCEPT ![r] = mine],
           table' = table \cup fresh, kept' = IF r \in Sweeps THEN kept \cup fresh ELSE kept,
           InGrid(row), r \in Sweeps => RunsOf(requests[r]) \subseteq RunsOf(row),
           mine \subseteq {r} \X RunsOf(row), fresh \subseteq {r} \X RunsOf(row),
           r \in Singles => (row.at = "waiting" => mine = {}),
           r \in Sweeps => Accounted(row) /\ mine = {}
    PROVE  RunsInv'
<1>1. \A q \in Requests : /\ requests'[q] = IF q = r THEN row ELSE requests[q]
                          /\ flushed'[q] = IF q = r THEN mine ELSE flushed[q]
  BY DEF RunsInv
<1>2. RunsOf(row) \subseteq Nat
  <2>1. row.results \in Seq(Outcome)
    BY DEF RequestRows
  <2>2. \A n \in 1..Len(row.results) : row.results[n] \in Outcome
    BY <2>1
  <2> QED
    BY <2>2 DEF RunsOf, Outcome
<1>3. /\ requests' \in [Requests -> RequestRows]
      /\ flushed' \in [Requests -> SUBSET (Requests \X Nat)]
  BY <1>2 DEF RunsInv
<1>4. \A q \in Requests : InGrid(requests'[q]) /\ flushed'[q] \subseteq {q} \X RunsOf(requests'[q])
  BY <1>1 DEF RunsInv
<1>5. \A q \in Singles : requests'[q].at = "waiting" => flushed'[q] = {}
  BY <1>1, RequestsAreOneKind DEF RunsInv
<1>6. \A q \in Sweeps : Accounted(requests'[q]) /\ flushed'[q] = {}
  BY <1>1, RequestsAreOneKind DEF RunsInv
<1>7. ASSUME NEW result \in table', result[1] \in Sweeps
      PROVE  result[2] \in RunsOf(requests'[result[1]])
  <2>1. CASE result \in fresh
    <3>1. result[1] = r /\ result[2] \in RunsOf(row)
      BY <2>1
    <3> QED
      BY <1>1, <3>1
  <2>2. CASE result \in table
    <3>1. result[2] \in RunsOf(requests[result[1]])
      BY <1>7, <2>2 DEF RunsInv
    <3> QED
      BY <1>1, <1>7, <3>1, RequestsAreOneKind
  <2> QED
    BY <2>1, <2>2
<1>8. SavedIsKept'
  <2>1. {result \in table : result[1] \in Sweeps} = kept
    BY DEF RunsInv, SavedIsKept
  <2>2. \A result \in fresh : result[1] = r
    OBVIOUS
  <2> QED
    BY <2>1, <2>2 DEF SavedIsKept
<1> QED
  BY <1>3, <1>4, <1>5, <1>6, <1>7, <1>8 DEF RunsInv, InGrid, RunsOf, Accounted, Apart, Sorted, Precedes

LEMMA SingleKeeps ==
    ASSUME RunsInv, NEW r \in Singles, RunSingle(r)
    PROVE  RunsInv'
<1>1. /\ r \in Requests /\ r \notin Sweeps /\ requests[r] \in RequestRows /\ InGrid(requests[r])
      /\ flushed[r] = {} /\ requests[r].at = "waiting"
      /\ requests \in [Requests -> RequestRows] /\ flushed \in [Requests -> SUBSET (Requests \X Nat)]
  BY RequestsAreOneKind DEF RunsInv, RunSingle
<1>2. CASE Becomes(r, "refused") /\ UNCHANGED flushed
  <2>1. PICK row : row = [requests[r] EXCEPT !.at = "refused"]
    OBVIOUS
  <2>2. /\ requests' = [requests EXCEPT ![r] = row] /\ row \in RequestRows /\ InGrid(row)
        /\ RunsOf(row) = RunsOf(requests[r])
    BY <1>1, <1>2, <2>1 DEF Becomes, RequestRows, InGrid, RunsOf, Kinds
  <2>3. /\ flushed' = [flushed EXCEPT ![r] = {}] /\ table' = table \cup {} /\ kept' = kept
    BY <1>1, <1>2 DEF RunSingle
  <2> QED
    BY <1>1, <2>2, <2>3, RequestKeeps
<1>3. CASE \E return \in Returns, saved \in BOOLEAN :
            /\ requests' = [requests EXCEPT
                              ![r] = [@ EXCEPT !.at = "answered",
                                               !.results = <<[run |-> 1, return |-> return]>>]]
            /\ flushed' = [flushed EXCEPT ![r] = IF saved THEN {<<r, 1>>} ELSE {}]
  <2>1. PICK return \in Returns, saved \in BOOLEAN :
            /\ requests' = [requests EXCEPT
                              ![r] = [@ EXCEPT !.at = "answered",
                                               !.results = <<[run |-> 1, return |-> return]>>]]
            /\ flushed' = [flushed EXCEPT ![r] = IF saved THEN {<<r, 1>>} ELSE {}]
    BY <1>3
  <2>2. PICK results : results = <<[run |-> 1, return |-> return]>>
    OBVIOUS
  <2>3. results \in Seq(Outcome) /\ Len(results) = 1 /\ results[1].run = 1
    BY <2>2 DEF Outcome
  <2>4. PICK one : one = [requests[r] EXCEPT !.at = "answered"]
    OBVIOUS
  <2>5. PICK row : row = [one EXCEPT !.results = results]
    OBVIOUS
  <2>6. PICK mine : mine = IF saved THEN {<<r, 1>>} ELSE {}
    OBVIOUS
  <2>7. requests' = [requests EXCEPT ![r] = row] /\ flushed' = [flushed EXCEPT ![r] = mine]
    BY <1>1, <2>1, <2>2, <2>4, <2>5, <2>6 DEF RequestRows
  <2>8. one \in RequestRows /\ InGrid(one)
    BY <1>1, <2>4 DEF RequestRows, InGrid, Kinds
  <2>9. row \in RequestRows /\ InGrid(row) /\ row.at = "answered" /\ row.results = results
    BY <2>3, <2>4, <2>5, <2>8 DEF RequestRows, InGrid
  <2>10. 1 \in RunsOf(row)
    <3>1. Len(row.results) = 1 /\ row.results[1].run = 1
      BY <2>3, <2>9
    <3> QED
      BY <3>1 DEF RunsOf
  <2>11. mine \subseteq {r} \X RunsOf(row)
    BY <2>6, <2>10
  <2>12. table' = table \cup {} /\ kept' = kept
    BY DEF RunSingle
  <2> QED
    BY <1>1, <2>7, <2>9, <2>11, <2>12, RequestKeeps
<1> QED
  BY <1>2, <1>3 DEF RunSingle

(* A request is answered, and its session closed. *)
LEMMA CloseKeeps ==
    ASSUME RunsInv, NEW r \in Requests, CloseSession(r)
    PROVE  RunsInv'
<1>1. /\ requests[r] \in RequestRows /\ InGrid(requests[r]) /\ requests[r].at = "answered"
      /\ flushed[r] \subseteq {r} \X RunsOf(requests[r])
      /\ r \in Sweeps => Accounted(requests[r]) /\ flushed[r] = {}
  BY DEF RunsInv, CloseSession
<1>2. PICK row : row = [requests[r] EXCEPT !.at = "closed"]
  OBVIOUS
<1>3. /\ row \in RequestRows /\ InGrid(row) /\ row.at = "closed"
      /\ row.results = requests[r].results
      /\ r \in Sweeps => Accounted(row)
  BY <1>1, <1>2 DEF RequestRows, InGrid, Kinds, Accounted
<1>4. RunsOf(row) = RunsOf(requests[r])
  BY <1>3 DEF RunsOf
<1>5. /\ requests' = [requests EXCEPT ![r] = row] /\ flushed' = [flushed EXCEPT ![r] = {}]
      /\ kept' = kept
  BY <1>2 DEF CloseSession, Becomes, RunsInv
<1>6. PICK fresh \in {{}, flushed[r]} : table' = table \cup fresh
  BY DEF CloseSession
<1>7. kept' = IF r \in Sweeps THEN kept \cup fresh ELSE kept
  BY <1>1, <1>5, <1>6
<1>8. fresh \subseteq {r} \X RunsOf(row)
  BY <1>1, <1>4, <1>6
<1> QED
  BY <1>3, <1>4, <1>5, <1>6, <1>7, <1>8, RequestKeeps

LEMMA StartSweepKeeps ==
    ASSUME RunsInv, NEW r \in Sweeps, StartSweep(r)
    PROVE  RunsInv'
<1>1. /\ requests[r] \in RequestRows /\ InGrid(requests[r]) /\ requests[r].at = "waiting"
      /\ Accounted(requests[r]) /\ flushed[r] = {} /\ r \in Requests
  BY RequestsAreOneKind DEF RunsInv, StartSweep
<1>2. PICK grid \in 0..Grid :
         requests' = [requests EXCEPT ![r].grid = grid,
                                      ![r].at = IF grid > MaxCombinations THEN "refused" ELSE "running"]
  BY DEF StartSweep
<1>3. PICK end \in {"refused", "running"} :
         requests' = [requests EXCEPT ![r].grid = grid, ![r].at = end]
  BY <1>2
<1>4. PICK one : one = [requests[r] EXCEPT !.grid = grid]
  OBVIOUS
<1>5. PICK row : row = [one EXCEPT !.at = end]
  OBVIOUS
<1>6. requests' = [requests EXCEPT ![r] = row]
  BY <1>1, <1>3, <1>4, <1>5 DEF RunsInv
<1>7. requests[r].next = 1 /\ Len(requests[r].results) + requests[r].failed = 0
      /\ Len(requests[r].results) \in Nat /\ requests[r].failed \in Nat
  BY <1>1 DEF Accounted, RequestRows
<1>8. /\ one \in RequestRows /\ one.next = 1 /\ one.failed = 0 /\ one.grid = grid
      /\ one.results = requests[r].results
  BY <1>1, <1>4, <1>7 DEF RequestRows
<1>9. /\ row \in RequestRows /\ row.next = 1 /\ row.failed = 0 /\ row.grid = grid
      /\ row.results = requests[r].results /\ row.at = end
  BY <1>5, <1>8 DEF RequestRows, Kinds
<1>10. InGrid(row) /\ Accounted(row) /\ RunsOf(row) = RunsOf(requests[r])
  BY <1>1, <1>7, <1>9, RequestsAreOneKind DEF InGrid, Accounted, RunsOf
<1>11. flushed' = [flushed EXCEPT ![r] = {}] /\ table' = table \cup {} /\ kept' = kept \cup {}
  BY <1>1 DEF StartSweep, RunsInv
<1> QED
  BY <1>1, <1>6, <1>9, <1>10, <1>11, RequestKeeps

LEMMA RunFailsKeeps ==
    ASSUME RunsInv, NEW r \in Sweeps, RunFails(r)
    PROVE  RunsInv'
<1>1. /\ requests[r] \in RequestRows /\ InGrid(requests[r]) /\ requests[r].at = "running"
      /\ requests[r].next <= requests[r].grid
      /\ Accounted(requests[r]) /\ flushed[r] = {} /\ r \in Requests
  BY RequestsAreOneKind DEF RunsInv, RunFails
<1>2. PICK one : one = [requests[r] EXCEPT !.next = requests[r].next + 1]
  OBVIOUS
<1>3. PICK row : row = [one EXCEPT !.failed = requests[r].failed + 1]
  OBVIOUS
<1>4. requests' = [requests EXCEPT ![r] = row]
  BY <1>1, <1>2, <1>3 DEF RunFails, RunsInv
<1>5. /\ requests[r].next \in Nat /\ requests[r].failed \in Nat /\ requests[r].grid \in Nat
      /\ Len(requests[r].results) \in Nat
  BY <1>1, RequestsAreOneKind DEF RequestRows
<1>6. /\ one \in RequestRows /\ one.next = requests[r].next + 1 /\ one.at = "running"
      /\ one.results = requests[r].results /\ one.grid = requests[r].grid
  BY <1>1, <1>2, <1>5 DEF RequestRows
<1>7. /\ row \in RequestRows /\ row.next = requests[r].next + 1 /\ row.at = "running"
      /\ row.failed = requests[r].failed + 1
      /\ row.results = requests[r].results /\ row.grid = requests[r].grid
  BY <1>3, <1>5, <1>6 DEF RequestRows
<1>8. PICK next, failed, grid, results :
         /\ next = requests[r].next /\ failed = requests[r].failed /\ grid = requests[r].grid
         /\ results = requests[r].results
  OBVIOUS
<1>9. /\ results \in Seq(Outcome) /\ Len(results) \in Nat /\ next \in Nat /\ failed \in Nat
      /\ grid \in Nat /\ next <= grid /\ 1 <= next /\ Len(results) + failed = next - 1
      /\ Apart(results) /\ \A n \in 1..Len(results) : results[n].run < next
  <2>1. results \in Seq(Outcome)
    BY <1>1, <1>8 DEF RequestRows
  <2>2. next <= grid /\ 1 <= next
    BY <1>1, <1>5, <1>8 DEF InGrid
  <2>3. Len(results) + failed = next - 1 /\ Apart(results)
        /\ \A n \in 1..Len(results) : results[n].run < next
    BY <1>1, <1>8 DEF Accounted
  <2> QED
    BY <1>5, <1>8, <2>1, <2>2, <2>3
<1>11. /\ row.next = next + 1 /\ row.failed = failed + 1 /\ row.grid = grid
       /\ row.results = results /\ row.at = "running"
  BY <1>7, <1>8
<1>12. \A n \in 1..Len(results) : results[n].run < next + 1
  <2>1. \A n \in 1..Len(results) : results[n].run \in Int
    BY <1>9, OutcomesAreNumbers
  <2> QED
    BY <1>9, <2>1
<1>13. Accounted(row)
  <2>1. Len(results) + (failed + 1) = (next + 1) - 1
    BY <1>9
  <2> QED
    BY <1>9, <1>11, <1>12, <2>1 DEF Accounted
<1>14. RunsOf(row) = RunsOf(requests[r])
  BY <1>8, <1>11 DEF RunsOf
<1>15. InGrid(row)
  <2>1. next + 1 \in 1..(grid + 1) /\ failed + 1 \in 0..grid
    BY <1>9
  <2> QED
    BY <1>11, <2>1 DEF InGrid
<1>10. flushed' = [flushed EXCEPT ![r] = {}] /\ table' = table \cup {} /\ kept' = kept \cup {}
  BY <1>1 DEF RunFails, RunsInv
<1> QED
  BY <1>1, <1>4, <1>7, <1>10, <1>13, <1>14, <1>15, RequestKeeps

LEMMA RunSucceedsKeeps ==
    ASSUME RunsInv, NEW r \in Sweeps, RunSucceeds(r)
    PROVE  RunsInv'
<1>1. /\ requests[r] \in RequestRows /\ InGrid(requests[r]) /\ requests[r].at = "running"
      /\ requests[r].next <= requests[r].grid
      /\ Accounted(requests[r]) /\ flushed[r] = {} /\ r \in Requests
  BY RequestsAreOneKind DEF RunsInv, RunSucceeds
<1>2. PICK return \in Returns, saved \in BOOLEAN :
         /\ requests' = [requests EXCEPT
                           ![r].next = @ + 1,
                           ![r].results = Append(@, [run |-> requests[r].next, return |-> return])]
         /\ Save(r, saved)
  BY DEF RunSucceeds
<1>3. PICK next, results, outcome :
         /\ next = requests[r].next /\ results = requests[r].results
         /\ outcome = [run |-> next, return |-> return]
  OBVIOUS
<1>4. /\ next \in Nat /\ results \in Seq(Outcome) /\ requests[r].failed \in Nat
      /\ requests[r].grid \in Nat /\ outcome \in Outcome
  BY <1>1, <1>3, RequestsAreOneKind DEF RequestRows, Outcome
<1>5. PICK more : more = Append(results, outcome)
  OBVIOUS
<1>6. /\ more \in Seq(Outcome) /\ Len(more) = Len(results) + 1 /\ Len(results) \in Nat
      /\ \A n \in 1..Len(results) : more[n] = results[n]
      /\ more[Len(results) + 1] = outcome
  BY <1>4, <1>5
<1>7. PICK one : one = [requests[r] EXCEPT !.next = next + 1]
  OBVIOUS
<1>8. PICK row : row = [one EXCEPT !.results = more]
  OBVIOUS
<1>9. requests' = [requests EXCEPT ![r] = row]
  BY <1>1, <1>2, <1>3, <1>5, <1>7, <1>8 DEF RunsInv
<1>10. /\ one \in RequestRows /\ one.next = next + 1 /\ one.at = "running"
       /\ one.failed = requests[r].failed /\ one.grid = requests[r].grid
  BY <1>1, <1>4, <1>7 DEF RequestRows
<1>11. /\ row \in RequestRows /\ row.next = next + 1 /\ row.at = "running" /\ row.results = more
       /\ row.failed = requests[r].failed /\ row.grid = requests[r].grid
  BY <1>6, <1>8, <1>10 DEF RequestRows
<1>12. /\ \A n \in 1..Len(results) : results[n].run \in Int /\ results[n].run < next
       /\ Apart(results) /\ Len(results) + requests[r].failed = next - 1
  <2>1. \A n \in 1..Len(results) : results[n].run \in Int
    BY <1>4, OutcomesAreNumbers
  <2>2. /\ \A n \in 1..Len(results) : results[n].run < next
        /\ Apart(results) /\ Len(results) + requests[r].failed = next - 1
    BY <1>1, <1>3 DEF Accounted
  <2> QED
    BY <2>1, <2>2
<1>13. \A n \in 1..Len(more) : \/ n \in 1..Len(results) /\ more[n] = results[n]
                               \/ n = Len(results) + 1 /\ more[n].run = next
  BY <1>3, <1>6
<1>14. \A n \in 1..Len(more) : more[n].run < next + 1
  <2>1. \A n \in 1..Len(results) : results[n].run < next + 1
    BY <1>4, <1>12
  <2>2. next < next + 1
    BY <1>4
  <2> QED
    BY <1>13, <2>1, <2>2
<1>15. Apart(more)
  <2>1. \A n, k \in 1..Len(results) : results[n].run = results[k].run => n = k
    BY <1>12 DEF Apart
  <2>2. \A n \in 1..Len(results) : results[n].run # next
    BY <1>4, <1>12
  <2>3. \A n, k \in 1..Len(more) : more[n].run = more[k].run => n = k
    BY <1>13, <2>1, <2>2
  <2> QED
    BY <2>3 DEF Apart
<1>16. Accounted(row)
  <2>1. PICK failed, size : failed = requests[r].failed /\ size = Len(results)
    OBVIOUS
  <2>2. /\ failed \in Nat /\ size \in Nat /\ next \in Nat /\ size + failed = next - 1
        /\ Len(more) = size + 1
    BY <1>4, <1>6, <1>12, <2>1
  <2>3. Len(more) + failed = (next + 1) - 1
    BY <2>2
  <2> QED
    BY <1>11, <1>14, <1>15, <2>1, <2>3 DEF Accounted
<1>17. InGrid(row)
  BY <1>1, <1>3, <1>4, <1>11 DEF InGrid
<1>18. RunsOf(requests[r]) \subseteq RunsOf(row) /\ next \in RunsOf(row)
  <2>1. RunsOf(requests[r]) = {results[n].run : n \in 1..Len(results)}
    BY <1>3 DEF RunsOf
  <2>2. RunsOf(row) = {more[n].run : n \in 1..Len(more)}
    BY <1>11 DEF RunsOf
  <2>3. \A n \in 1..Len(results) : n \in 1..Len(more) /\ more[n].run = results[n].run
    BY <1>6
  <2>4. Len(results) + 1 \in 1..Len(more) /\ more[Len(results) + 1].run = next
    BY <1>3, <1>6
  <2> QED
    BY <2>1, <2>2, <2>3, <2>4
<1>19. PICK fresh : fresh = IF saved THEN {<<r, next>>} ELSE {}
  OBVIOUS
<1>20. /\ flushed' = [flushed EXCEPT ![r] = {}]
       /\ table' = table \cup fresh /\ kept' = kept \cup fresh
  BY <1>1, <1>2, <1>3, <1>19 DEF Save
<1>21. fresh \subseteq {r} \X RunsOf(row)
  BY <1>18, <1>19
<1> QED
  BY <1>1, <1>9, <1>11, <1>16, <1>17, <1>18, <1>20, <1>21, RequestKeeps

LEMMA EndSweepKeeps ==
    ASSUME RunsInv, NEW r \in Sweeps, EndSweep(r)
    PROVE  RunsInv'
<1>1. /\ requests[r] \in RequestRows /\ InGrid(requests[r]) /\ requests[r].at = "running"
      /\ requests[r].next > requests[r].grid
      /\ Accounted(requests[r]) /\ flushed[r] = {} /\ r \in Requests
  BY RequestsAreOneKind DEF RunsInv, EndSweep
<1>2. PICK results : results = requests[r].results
  OBVIOUS
<1>3. results \in Seq(Outcome) /\ Apart(results)
  BY <1>1, <1>2 DEF RequestRows, Accounted
<1>4. PICK ranked \in Seq(Outcome) :
         /\ ranked = Ranked(results) /\ Len(ranked) = Len(results) /\ Apart(ranked)
         /\ {ranked[n] : n \in 1..Len(ranked)} = {results[n] : n \in 1..Len(results)}
         /\ \A n, k \in 1..Len(ranked) : n < k => Precedes(ranked[n], ranked[k])
  BY <1>3, RankedIsSorted
<1>5. PICK end \in {"refused", "answered"} :
         requests' = [requests EXCEPT ![r].at = end, ![r].results = Ranked(@)]
  <2>1. PICK end : end = IF requests[r].results = <<>> /\ requests[r].failed > 0
                         THEN "refused" ELSE "answered"
    OBVIOUS
  <2>2. end \in {"refused", "answered"}
    BY <2>1
  <2> QED
    BY <2>1, <2>2 DEF EndSweep
<1>6. PICK one : one = [requests[r] EXCEPT !.at = end]
  OBVIOUS
<1>7. PICK row : row = [one EXCEPT !.results = ranked]
  OBVIOUS
<1>8. requests' = [requests EXCEPT ![r] = row]
  BY <1>1, <1>2, <1>4, <1>5, <1>6, <1>7 DEF RunsInv
<1>9. /\ one \in RequestRows /\ one.next = requests[r].next /\ one.at = end
      /\ one.failed = requests[r].failed /\ one.grid = requests[r].grid
  BY <1>1, <1>6 DEF RequestRows, Kinds
<1>10. /\ row \in RequestRows /\ row.next = requests[r].next /\ row.at = end /\ row.results = ranked
       /\ row.failed = requests[r].failed /\ row.grid = requests[r].grid
  BY <1>4, <1>7, <1>9 DEF RequestRows
<1>11. RunsOf(row) = RunsOf(requests[r])
  <2>1. RunsOf(row) = {x.run : x \in {ranked[n] : n \in 1..Len(ranked)}}
    BY <1>10 DEF RunsOf
  <2>2. RunsOf(requests[r]) = {x.run : x \in {results[n] : n \in 1..Len(results)}}
    BY <1>2 DEF RunsOf
  <2> QED
    BY <1>4, <2>1, <2>2
<1>12. \A n \in 1..Len(ranked) : ranked[n].run < requests[r].next
  <2>1. \A n \in 1..Len(ranked) : \E k \in 1..Len(results) : ranked[n] = results[k]
    BY <1>4
  <2> QED
    BY <1>1, <1>2, <2>1 DEF Accounted
<1>13. requests[r].next = requests[r].grid + 1
  BY <1>1, RequestsAreOneKind DEF InGrid, RequestRows
<1>14. Accounted(row) /\ InGrid(row)
  BY <1>1, <1>2, <1>4, <1>10, <1>12, <1>13 DEF Accounted, InGrid, Sorted
<1>15. flushed' = [flushed EXCEPT ![r] = {}] /\ table' = table \cup {} /\ kept' = kept \cup {}
  BY <1>1 DEF EndSweep, RunsInv
<1> QED
  BY <1>1, <1>8, <1>10, <1>11, <1>14, <1>15, RequestKeeps

LEMMA StopKeeps ==
    ASSUME RunsInv, Stop
    PROVE  RunsInv'
<1>1. DOMAIN requests = Requests /\ DOMAIN flushed = Requests
  BY DEF RunsInv
<1>2. ASSUME NEW r \in Requests
      PROVE  /\ requests'[r] \in RequestRows /\ InGrid(requests'[r])
             /\ RunsOf(requests'[r]) = RunsOf(requests[r])
             /\ Accounted(requests[r]) => Accounted(requests'[r])
  <2>1. requests[r] \in RequestRows /\ InGrid(requests[r])
    BY DEF RunsInv
  <2>2. CASE requests[r].at \in {"running", "answered"}
    <3>1. PICK row : row = [requests[r] EXCEPT !.at = "lost"]
      OBVIOUS
    <3>2. requests'[r] = row
      BY <1>1, <2>2, <3>1 DEF Stop
    <3> QED
      BY <2>1, <3>1, <3>2 DEF RequestRows, InGrid, RunsOf, Accounted, Kinds
  <2>3. CASE requests[r].at \notin {"running", "answered"}
    <3>1. requests'[r] = requests[r]
      BY <1>1, <2>3 DEF Stop
    <3> QED
      BY <2>1, <3>1
  <2> QED
    BY <2>2, <2>3
<1>3. \A r \in Requests : flushed'[r] = {}
  BY <1>1 DEF Stop
<1>4. /\ requests' \in [Requests -> RequestRows]
      /\ flushed' \in [Requests -> SUBSET (Requests \X Nat)]
  BY <1>1, <1>2 DEF Stop
<1>5. \A r \in Sweeps : Accounted(requests'[r])
  BY <1>2, RequestsAreOneKind DEF RunsInv
<1>6. \A result \in table' : result[1] \in Sweeps => result[2] \in RunsOf(requests'[result[1]])
  BY <1>2, RequestsAreOneKind DEF RunsInv, Stop
<1>7. SavedIsKept'
  BY DEF Stop, RunsInv, SavedIsKept
<1> QED
  BY <1>2, <1>3, <1>4, <1>5, <1>6, <1>7, RequestsAreOneKind
     DEF RunsInv, InGrid, RunsOf, Accounted, Apart, Sorted, Precedes

LEMMA RunsStep ==
    ASSUME RunsInv, [RunsNext]_runsVars
    PROVE  RunsInv'
<1>1. ASSUME NEW r \in Singles, RunSingle(r) PROVE RunsInv'
  BY <1>1, SingleKeeps
<1>2. ASSUME NEW r \in Singles \cup Sweeps, CloseSession(r) PROVE RunsInv'
  BY <1>2, CloseKeeps DEF Requests
<1>3. ASSUME NEW r \in Sweeps, StartSweep(r) PROVE RunsInv'
  BY <1>3, StartSweepKeeps
<1>4. ASSUME NEW r \in Sweeps, RunFails(r) PROVE RunsInv'
  BY <1>4, RunFailsKeeps
<1>5. ASSUME NEW r \in Sweeps, RunSucceeds(r) PROVE RunsInv'
  BY <1>5, RunSucceedsKeeps
<1>6. ASSUME NEW r \in Sweeps, EndSweep(r) PROVE RunsInv'
  BY <1>6, EndSweepKeeps
<1>7. CASE Stop
  BY <1>7, StopKeeps
<1>8. CASE UNCHANGED runsVars
  BY <1>8 DEF runsVars, RunsInv, InGrid, RunsOf, Accounted, Apart, Sorted, Precedes, SavedIsKept
<1> QED
  BY <1>1, <1>2, <1>3, <1>4, <1>5, <1>6, <1>7, <1>8 DEF RunsNext

LEMMA RunsAddUp ==
    ASSUME RunsInv
    PROVE  ResultsAddUp
<1>1. SavedIsKept
  BY DEF RunsInv
<1>2. ASSUME NEW r \in Sweeps, requests[r].at \in {"answered", "closed"}
      PROVE  /\ Len(requests[r].results) + requests[r].failed = requests[r].grid
             /\ Cardinality(ResultsOf(r)) = Len(requests[r].results)
             /\ \A n \in 1..Len(requests[r].results) - 1 :
                  requests[r].results[n].return >= requests[r].results[n + 1].return
             /\ \A result \in table : result[1] = r => result[2] \in ResultsOf(r)
  <2>1. PICK row : row = requests[r]
    OBVIOUS
  <2>2. /\ row \in RequestRows /\ Accounted(row) /\ Sorted(row.results) /\ row.next = row.grid + 1
        /\ row.results \in Seq(Outcome) /\ row.grid \in Nat /\ Len(row.results) \in Nat
    BY <1>2, <2>1, RequestsAreOneKind DEF RunsInv, Accounted, RequestRows
  <2>3. Len(row.results) + row.failed = row.grid
    BY <2>2 DEF Accounted
  <2>4. ResultsOf(r) = RunsOf(row)
    BY <2>1, <2>2 DEF ResultsOf, RunsOf
  <2>5. Cardinality(RunsOf(row)) = Len(row.results)
    <3> DEFINE size == Len(row.results)
               run == [n \in 1..size |-> row.results[n].run]
               all == RunsOf(row)
    <3>1. size \in Nat /\ \A n, k \in 1..size : run[n] = run[k] => n = k
      BY <2>2 DEF Accounted, Apart
    <3>2. all = {run[n] : n \in 1..size}
      BY DEF RunsOf
    <3> HIDE DEF size, run, all
    <3>3. Cardinality(all) = size
      BY <3>1, <3>2, AsManyAsPlaces
    <3> QED
      BY <3>3 DEF all, size
  <2>6. ASSUME NEW n \in 1..Len(row.results) - 1
        PROVE  row.results[n].return >= row.results[n + 1].return
    <3>1. n \in 1..Len(row.results) /\ n + 1 \in 1..Len(row.results) /\ n < n + 1
      BY <2>2
    <3>2. Precedes(row.results[n], row.results[n + 1])
      BY <2>2, <3>1 DEF Sorted
    <3>3. row.results[n] \in Outcome /\ row.results[n + 1] \in Outcome
      BY <2>2, <3>1
    <3>4. row.results[n].return \in Int /\ row.results[n + 1].return \in Int
      BY <3>3, OutcomesAreNumbers
    <3> QED
      BY <3>2, <3>4 DEF Precedes
  <2>7. \A result \in table : result[1] = r => result[2] \in RunsOf(row)
    BY <2>1 DEF RunsInv
  <2> QED
    BY <2>1, <2>3, <2>4, <2>5, <2>6, <2>7
<1> QED
  BY <1>1, <1>2 DEF ResultsAddUp, SweepAccounts

LEMMA RunsTypes ==
    ASSUME RunsInv
    PROVE  RunsTypeOK
<1> SUFFICES ASSUME NEW r \in Singles \cup Sweeps
             PROVE  /\ requests[r].at \in {"waiting", "running", "answered", "closed", "refused", "lost"}
                    /\ requests[r].grid \in 0..Grid /\ requests[r].next \in 1..(requests[r].grid + 1)
                    /\ requests[r].failed \in 0..requests[r].grid
                    /\ flushed[r] \subseteq {r} \X ResultsOf(r)
  BY DEF RunsTypeOK
<1>1. /\ requests[r] \in RequestRows /\ InGrid(requests[r])
      /\ flushed[r] \subseteq {r} \X RunsOf(requests[r])
  BY DEF RunsInv, Requests
<1>2. requests[r].results \in Seq(Outcome)
  BY <1>1 DEF RequestRows
<1>3. ResultsOf(r) = RunsOf(requests[r])
  BY <1>2 DEF ResultsOf, RunsOf
<1> QED
  BY <1>1, <1>3 DEF RequestRows, InGrid, Kinds

(* For any grids and returns, and whichever saves and runs fail, what a    *)
(* sweep saved stays in the table, and its answer holds every combination  *)
(* once, ranked, or counts it as failed.                                   *)
THEOREM SweepsAddUp == RunsSpec => []ResultsAddUp
<1>1. RunsInit => RunsInv
  BY RunsStart
<1>2. RunsInv /\ [RunsNext]_runsVars => RunsInv'
  BY RunsStep
<1>3. RunsInv => ResultsAddUp
  BY RunsAddUp
<1> QED
  BY <1>1, <1>2, <1>3, PTL DEF RunsSpec

-----------------------------------------------------------------------------
(* The run: a behaviour is one of the three, and the others stand still.   *)
PartsInv == ClientInv /\ MarketInv /\ RunsInv

LEMMA PartsStart ==
    ASSUME Init
    PROVE  PartsInv
BY ClientInitInv, MarketStarts, RunsStart DEF Init, PartsInv

LEMMA PartsStep ==
    ASSUME PartsInv, [Next]_vars
    PROVE  PartsInv'
<1>1. [ClientNext]_clientVars
  BY DEF Next, vars
<1>2. [MarketNext]_marketVars
  BY DEF Next, vars
<1>3. [RunsNext]_runsVars
  BY DEF Next, vars
<1>4. ClientInv'
  BY <1>1, ClientStep DEF PartsInv
<1>5. MarketInv'
  BY <1>2, MarketSteps DEF PartsInv
<1>6. RunsInv'
  BY <1>3, RunsStep DEF PartsInv
<1> QED
  BY <1>4, <1>5, <1>6 DEF PartsInv

(* Sessions, tokens and grids stay within their bounds: a session holds    *)
(* bars of its own job and each key once, the bucket never overflows, and  *)
(* a transaction holds results of its own request.                         *)
THEOREM MarketTypesHold == Spec => []TypesOK
<1>1. Init => PartsInv
  BY PartsStart
<1>2. PartsInv /\ [Next]_vars => PartsInv'
  BY PartsStep
<1>3. PartsInv => TypesOK
  BY ClientTypes, MarketTypes, RunsTypes DEF PartsInv, TypesOK
<1> QED
  BY <1>1, <1>2, <1>3, PTL DEF Spec
=============================================================================
