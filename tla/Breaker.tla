------------------------------ MODULE Breaker ------------------------------
(***************************************************************************)
(* The transport of the API clients (pokedex/api/client.go and             *)
(* clients/ts/resilience.ts): requests that retry, and the circuit breaker *)
(* they share.  Time is kept as ages; the answers of the server are open.  *)
(***************************************************************************)
EXTENDS Integers, Sequences

CONSTANTS Callers,
          MinRequests, FailPercent, Window, Cooldown,   \* BreakerPolicy
          Retries,       \* how many backoffs the retry policy has
          MaxHeld        \* bound of the model on the requests of a window

ASSUME BreakerAssumption ==
  /\ MinRequests \in Nat \ {0} /\ FailPercent \in 1..100
  /\ Window \in Nat \ {0} /\ Cooldown \in Nat /\ Retries \in Nat

VARIABLES client,       \* "go" or "ts": the language of the program, which stays
          outcomes,     \* the window, oldest first
          open, probing,
          openedFor,    \* time since openedAt, no longer told apart beyond Cooldown
          call          \* call[c]: the request of a caller

breaker == <<outcomes, open, probing, openedFor>>
stepVars == <<breaker, call>>
breakerVars == <<client, stepVars>>

Idle == [state |-> "idle", method |-> "GET", sent |-> 0, answer |-> "none", probe |-> FALSE]

BreakerInit == /\ client \in {"go", "ts"}
               /\ outcomes = <<>> /\ open = FALSE /\ probing = FALSE /\ openedFor = 0
               /\ call = [c \in Callers |-> Idle]

-----------------------------------------------------------------------------
\* 429 stands for it and every 2xx to 4xx that is not retried is "ok"
Answers == {"ok", "429", "500", "501", "error"}

Classify(answer) == CASE answer \in {"ok", "429"}    -> "healthy"
                      [] answer \in {"500", "error"} -> "unwell"
                      [] answer = "501"              -> "ignore"

\* Mutant: a POST is repeated as well
RetryableAny(method, answer) == answer \in {"429", "500", "error"}

Retryable(method, answer) == method = "GET" /\ answer \in {"429", "500", "error"}

FailedOf(window) == Len(SelectSeq(window, LAMBDA o : o.failed))

\* rate: the failure percentage has reached the policy's
TooManyFailed(window) == (FailedOf(window) * 100) \div Len(window) >= FailPercent

\* allow
Allowed == ~open \/ (~probing /\ openedFor > Cooldown)

Admit == /\ Allowed
         /\ probing' = open
         /\ UNCHANGED <<outcomes, open, openedFor>>

Record(o) ==
  LET counted == o # "ignore"
      window == IF counted THEN Append(outcomes, [age |-> 0, failed |-> o = "unwell"])
                ELSE outcomes
      judged == counted /\ Len(window) >= MinRequests
      rearms == IF probing THEN o # "healthy" ELSE judged /\ TooManyFailed(window)
      closes == IF probing THEN o = "healthy" ELSE judged /\ ~TooManyFailed(window)
  IN  /\ probing' = FALSE
      /\ open' = ((open \/ (rearms /\ ~probing)) /\ ~closes)
      /\ openedFor' = IF rearms THEN 0 ELSE openedFor
      /\ outcomes' = IF probing /\ o = "healthy" THEN <<>> ELSE window

-----------------------------------------------------------------------------
\* Do, up to the first send
Begin(c, method) ==
  /\ call[c].state = "idle"
  /\ Len(outcomes) < MaxHeld
  /\ Admit
  /\ call' = [call EXCEPT ![c] = [state |-> "sent", method |-> method, sent |-> 1,
                                  answer |-> "none", probe |-> open]]

\* ErrCircuitOpen
Refuse(c) == call[c].state = "idle" /\ ~Allowed /\ UNCHANGED stepVars

Return(c, o) == Record(o) /\ call' = [call EXCEPT ![c] = Idle]

\* An answer, or the end of the attempt's own timeout.  Retry-After may ask for
\* more than the client will wait.
Answer(c, answer) ==
  /\ call[c].state = "sent"
  /\ LET again == call[c].sent <= Retries /\ Retryable(call[c].method, answer)
     IN  \/ /\ again
            /\ call' = [call EXCEPT ![c].state = "waiting", ![c].answer = answer]
            /\ UNCHANGED breaker
         \/ /\ ~again \/ answer # "error"
            /\ Return(c, Classify(answer))

\* The wait between two attempts is over
Resend(c) ==
  /\ call[c].state = "waiting"
  /\ call' = [call EXCEPT ![c].state = "sent", ![c].sent = @ + 1]
  /\ UNCHANGED breaker

\* What a request reports whose caller has given up: err is set when that was
\* during an attempt; during a wait Go sets it, TypeScript keeps the answer.
GivenUp(c) ==
  IF call[c].state = "waiting" /\ client = "ts" /\ call[c].answer # "error"
  THEN Classify(call[c].answer)
  ELSE "ignore"

\* Mutant: the return out of the wait reports nothing
GiveUpSilently(c) ==
  /\ call[c].state \in {"sent", "waiting"}
  /\ IF call[c].state = "sent" THEN Return(c, GivenUp(c))
     ELSE call' = [call EXCEPT ![c] = Idle] /\ UNCHANGED breaker

\* Mutant: resp and err stay those of the last attempt
GiveUpWithAnswer(c) ==
  /\ call[c].state \in {"sent", "waiting"}
  /\ Return(c, IF call[c].state = "waiting" THEN Classify(call[c].answer) ELSE "ignore")

GiveUp(c) ==
  /\ call[c].state \in {"sent", "waiting"}
  /\ Return(c, GivenUp(c))

\* Time passes; what is older than the window is trimmed on the next read
Tick ==
  /\ openedFor' = IF openedFor <= Cooldown THEN openedFor + 1 ELSE openedFor
  /\ outcomes' = LET aged == [i \in DOMAIN outcomes |-> [outcomes[i] EXCEPT !.age = @ + 1]]
                 IN  SelectSeq(aged, LAMBDA o : o.age <= Window)
  /\ <<openedFor, outcomes>>' # <<openedFor, outcomes>>
  /\ UNCHANGED <<open, probing, call>>

Step ==
  \/ \E c \in Callers :
       \/ \E method \in {"GET", "POST"} : Begin(c, method)
       \/ Refuse(c)
       \/ \E answer \in Answers : Answer(c, answer)
       \/ Resend(c) \/ GiveUp(c)
  \/ Tick

BreakerNext == Step /\ UNCHANGED client

\* Clocks run, an attempt has a timeout and a wait an end; somebody keeps
\* calling, without which nothing is owed.
BreakerFairness ==
  /\ WF_stepVars(Tick)
  /\ WF_stepVars(\E c \in Callers : Begin(c, "GET"))
  /\ \A c \in Callers : /\ WF_stepVars(\E answer \in Answers : Answer(c, answer))
                        /\ WF_stepVars(Resend(c))

BreakerSpec == BreakerInit /\ [][BreakerNext]_breakerVars /\ BreakerFairness

-----------------------------------------------------------------------------
\* The circuit and the requests have their types; in particular no request is
\* sent more often than its policy allows.
BreakerTypeOK ==
  /\ open \in BOOLEAN /\ probing \in BOOLEAN
  /\ openedFor \in 0..(Cooldown + 1)
  /\ \A c \in Callers :
       /\ call[c].state \in {"idle", "sent", "waiting"}
       /\ call[c].sent \in 0..(Retries + 1)
       /\ call[c].state = "waiting" => call[c].answer \in Answers

\* "allow() hands out the half-open probe and only record() takes it back: a
\* probe that returns without reporting leaves the breaker believing it is
\* still out there" (Do in client.go): while the slot is taken, a probe is out.
SlotHasProbe == probing => open /\ \E c \in Callers : call[c].probe

\* "allow() then refuses everyone for good": the slot is always given back, and
\* an open circuit lets a probe through, as long as anybody calls.
NeverWedged == []<>~probing /\ []<>(~open \/ probing)

\* "A POST may already have applied, so retrying it can create a second thing"
\* (retryable), whatever the answers, waits and cancellations.
PostSentOnce == \A c \in Callers : call[c].method = "POST" => call[c].sent <= 1

\* "A cancelled request says the caller changed its mind, not that the server is
\* unwell" (classify): it leaves the window as it is and opens nothing.  A wait of
\* the TypeScript client may leave what the server did answer before it, once, as
\* a failure when that was one; never that the caller lost patience.
GivingUpProvesNothing ==
  [][\A c \in Callers :
       GiveUp(c) =>
         \/ outcomes' = outcomes /\ (open' => open)
         \/ /\ client = "ts" /\ call[c].state = "waiting" /\ call[c].answer # "error"
            /\ outcomes' \in {<<>>, Append(outcomes, [age |-> 0, failed |-> call[c].answer = "500"])}
    ]_breakerVars
=============================================================================
