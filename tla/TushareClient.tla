--------------------------- MODULE TushareClient ---------------------------
(***************************************************************************)
(* The data client (hqmts/data/client.py): calls to the data vendor take a *)
(* token from a bucket shared by the callers, and are tried again after an *)
(* answer that looks temporary.  get_stk_mins asks for the calendar first, *)
(* then for the minutes of one trade date after the other, and loses what  *)
(* it has if one of these calls fails.  The bucket holds parts of a token: *)
(* a call takes Cost of them, every tick brings Rate.                      *)
(***************************************************************************)
EXTENDS Integers, Sequences, FiniteSetsExt

CONSTANTS
    Callers,        \* tasks that fetch minutes
    Burst,          \* calls_per_minute, the size of the bucket
    Cost,           \* parts of one token
    Rate,           \* parts refilled in one tick
    MaxAttempts,    \* retry_max_attempts
    RetryDelay,     \* retry_delay_seconds, in ticks
    MaxDates,       \* bound: trade dates of a request
    Window          \* bound: ticks the history looks back

ASSUME ClientAssumption ==
    /\ {Burst, Cost, Rate, MaxAttempts, Window} \subseteq Nat \ {0}
    /\ {RetryDelay, MaxDates} \subseteq Nat

VARIABLES
    tokens,     \* _tokens, in parts
    idle,       \* ticks since _last_refill, up to those that fill the bucket
    calls,      \* calls[c]: where the request of the caller stands
    granted,    \* history, granted[n]: tokens granted since n - 1 ticks ago
    asked       \* history, asked[c]: calls made to the vendor

clientVars == <<tokens, idle, calls, granted, asked>>

NoCall == [at |-> "idle", step |-> 0, dates |-> 0, attempt |-> 0, wait |-> 0]

ClientInit ==
    /\ tokens = Burst * Cost
    /\ idle = 0
    /\ calls = [c \in Callers |-> NoCall]
    /\ granted = [n \in 1..Window |-> 0]
    /\ asked = [c \in Callers |-> 0]

Ended(c) == calls[c].at \in {"done", "failed"}

Refilled == Min({Burst * Cost, tokens + idle * Rate})

(* Time passes only as fast as waiters notice: 0.05 seconds between polls. *)
Tick ==
    /\ idle' = Min({idle + 1, Burst * Cost})
    /\ granted' = [n \in 1..Window |-> IF n = 1 THEN 0 ELSE granted[n - 1]]
    /\ calls' = [c \in Callers |-> [calls[c] EXCEPT !.wait = Max({@ - 1, 0})]]
    /\ UNCHANGED <<tokens, asked>>

Ask(c) ==
    /\ calls[c].at = "idle"
    /\ calls' = [calls EXCEPT ![c].at = "acquiring"]
    /\ UNCHANGED <<tokens, idle, granted, asked>>

(* Mutant: the time of the refill is not kept. *)
AcquireUnstamped(c) ==
    /\ calls[c].at = "acquiring"
    /\ Refilled >= Cost
    /\ tokens' = Refilled - Cost
    /\ calls' = [calls EXCEPT ![c].at = "calling"]
    /\ granted' = [n \in 1..Window |-> granted[n] + 1]
    /\ asked' = [asked EXCEPT ![c] = Min({@ + 1, MaxAttempts * (MaxDates + 1) + 1})]
    /\ UNCHANGED idle

(* A poll without a whole token in the bucket refills it all the same. *)
Acquire(c) ==
    /\ calls[c].at = "acquiring"
    /\ idle' = 0
    /\ \/ /\ Refilled < Cost
          /\ tokens' = Refilled
          /\ UNCHANGED <<calls, granted, asked>>
       \/ /\ Refilled >= Cost
          /\ tokens' = Refilled - Cost
          /\ calls' = [calls EXCEPT ![c].at = "calling"]
          /\ granted' = [n \in 1..Window |-> granted[n] + 1]
          /\ asked' = [asked EXCEPT ![c] = Min({@ + 1, MaxAttempts * (MaxDates + 1) + 1})]

(* A good answer leads to the next date, each with its own attempts.  The  *)
(* first one is the calendar and tells how many dates there are.           *)
Answer(c) ==
    /\ calls[c].at = "calling"
    /\ \E dates \in IF calls[c].step = 0 THEN 0..MaxDates ELSE {calls[c].dates} :
         calls' = [calls EXCEPT ![c] =
                     [NoCall EXCEPT !.at = IF calls[c].step = dates THEN "done" ELSE "acquiring",
                                    !.step = Min({calls[c].step + 1, dates}),
                                    !.dates = dates]]
    /\ UNCHANGED <<tokens, idle, granted, asked>>

AnswerTemporary(c) ==
    /\ calls[c].at = "calling"
    /\ calls' = [calls EXCEPT ![c].at = "backoff",
                              ![c].wait = RetryDelay * 2 ^ calls[c].attempt,
                              ![c].attempt = @ + 1]
    /\ UNCHANGED <<tokens, idle, granted, asked>>

AnswerError(c) ==
    /\ calls[c].at = "calling"
    /\ calls' = [calls EXCEPT ![c].at = "failed"]
    /\ UNCHANGED <<tokens, idle, granted, asked>>

(* Mutant: the last attempt is repeated. *)
RetryAlways(c) ==
    /\ calls[c].at = "backoff" /\ calls[c].wait = 0
    /\ calls' = [calls EXCEPT ![c].at = "acquiring", ![c].attempt = Min({@, MaxAttempts - 1})]
    /\ UNCHANGED <<tokens, idle, granted, asked>>

(* The last attempt backs off too, before it raises the last error. *)
Retry(c) ==
    /\ calls[c].at = "backoff" /\ calls[c].wait = 0
    /\ calls' = [calls EXCEPT ![c].at = IF calls[c].attempt < MaxAttempts THEN "acquiring"
                                                                         ELSE "failed"]
    /\ UNCHANGED <<tokens, idle, granted, asked>>

ClientNext ==
    \/ Tick
    \/ \E c \in Callers : \/ Ask(c) \/ Acquire(c) \/ Retry(c)
                          \/ Answer(c) \/ AnswerTemporary(c) \/ AnswerError(c)

ClientSpec == ClientInit /\ [][ClientNext]_clientVars

(* Clocks go on, pollers are woken, sleeps end and the vendor answers. *)
ClientFairness ==
    /\ WF_clientVars(Tick)
    /\ \A c \in Callers :
         /\ WF_clientVars(Acquire(c))
         /\ WF_clientVars(Retry(c))
         /\ WF_clientVars(Answer(c) \/ AnswerTemporary(c) \/ AnswerError(c))

-----------------------------------------------------------------------------
(* The bucket is never fuller than it can be, and requests are where they  *)
(* can be.                                                                 *)
ClientTypeOK ==
    /\ tokens \in 0..Burst * Cost
    /\ idle \in 0..Burst * Cost
    /\ calls \in [Callers -> [at : {"idle", "acquiring", "calling", "backoff", "done", "failed"},
                              step : 0..MaxDates, dates : 0..MaxDates,
                              attempt : 0..MaxAttempts, wait : 0..RetryDelay * 2 ^ MaxAttempts]]
    /\ granted \in [1..Window -> Nat]
    /\ asked \in [Callers -> Nat]

(* However the callers interleave, in any stretch of time they are granted *)
(* no more than a full bucket and what was refilled meanwhile: the refill  *)
(* is computed from the time of the last one, by whichever caller polls.   *)
(* Every stretch was once one that ends now.  The bucket holds a minute of *)
(* calls, so this lets up to twice calls_per_minute through in one minute: *)
(* it is a bound on bursts, not the limit that the setting's name states.  *)
WithinBudget ==
    \A n \in 1..Window : granted[n] * Cost <= Burst * Cost + (n - 1) * Rate

(* A request makes at most MaxAttempts calls for the calendar and for each *)
(* date it came to.                                                        *)
TriesBounded == \A c \in Callers : asked[c] <= MaxAttempts * (calls[c].step + 1)

(* Every request ends, whoever else wants tokens: nobody waits for one for *)
(* ever, and no answer is retried for ever.                                *)
RequestsEnd == \A c \in Callers : calls[c].at = "acquiring" ~> Ended(c)

(* The callers together are granted at most the bucket and its refill (a   *)
(* minute after an idle one sees up to twice calls_per_minute), and none   *)
(* of them tries a call more often than max_retries says.                  *)
CallsBounded == WithinBudget /\ TriesBounded
=============================================================================
