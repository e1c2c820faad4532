----------------------------- MODULE ClientProofs -----------------------------
(***************************************************************************)
(* Theorems about the two hand-written halves of the API clients: the      *)
(* transport with its circuit breaker (Breaker), for every number of       *)
(* callers, policy and number of retries, in either language; and the walk *)
(* over the pages of the dex (Paging), for every set of dexes, every page  *)
(* size and every point at which the service is redeployed.                *)
(***************************************************************************)
EXTENDS Breaker, Paging, TLAPS

Requests == [state : {"idle", "sent", "waiting"}, method : {"GET", "POST"}, sent : Nat,
             answer : Answers \cup {"none"}, probe : BOOLEAN]

CallInv == open \in BOOLEAN /\ call \in [Callers -> Requests]

\* A POST never waits for another attempt
PostNeverWaits ==
  \A c \in Callers : call[c].method = "POST" => call[c].sent <= 1 /\ call[c].state # "waiting"

SlotInv == CallInv /\ SlotHasProbe /\ PostNeverWaits

-----------------------------------------------------------------------------
\* Whatever it is told, record gives the slot back.
LEMMA RecordFreesSlot ==
  ASSUME NEW o, Record(o)
  PROVE  ~probing'
BY DEF Record

LEMMA InitSlot == BreakerInit => SlotInv
<1> SUFFICES ASSUME BreakerInit PROVE SlotInv
  OBVIOUS
<1>1. Idle \in Requests /\ Idle.method = "GET"
  BY DEF Idle, Requests
<1>2. ~probing /\ open = FALSE /\ call = [c \in Callers |-> Idle]
  BY DEF BreakerInit
<1>3. PostNeverWaits
  BY <1>1, <1>2 DEF PostNeverWaits
<1>4. QED
  BY <1>1, <1>2, <1>3 DEF SlotInv, CallInv, SlotHasProbe

\* A caller that returns is idle, and the slot is free.
LEMMA ReturnKeeps ==
  ASSUME SlotInv, NEW c \in Callers, NEW o, Return(c, o)
  PROVE  SlotInv'
<1>1. ~probing'
  BY RecordFreesSlot DEF Return
<1>2. call' = [call EXCEPT ![c] = Idle]
  BY DEF Return
<1>3. Idle \in Requests /\ Idle.method = "GET"
  BY DEF Idle, Requests
<1>4. CallInv'
  <2>1. open' \in BOOLEAN
    BY DEF Return, Record, SlotInv, CallInv
  <2>2. QED
    BY <1>2, <1>3, <2>1 DEF SlotInv, CallInv
<1>5. PostNeverWaits'
  BY <1>2, <1>3 DEF SlotInv, CallInv, PostNeverWaits
<1>6. SlotHasProbe'
  BY <1>1 DEF SlotHasProbe
<1>7. QED
  BY <1>4, <1>5, <1>6 DEF SlotInv

LEMMA BeginKeeps ==
  ASSUME SlotInv, NEW c \in Callers, NEW method \in {"GET", "POST"}, Begin(c, method)
  PROVE  SlotInv'
<1> DEFINE new == [state |-> "sent", method |-> method, sent |-> 1, answer |-> "none",
                   probe |-> open]
<1>1. call' = [call EXCEPT ![c] = new] /\ probing' = open /\ open' = open
  BY DEF Begin, Admit
<1>2. new.method = method /\ new.sent = 1 /\ new.state = "sent" /\ new.probe = open
  OBVIOUS
<1> HIDE DEF new
<1>3. open \in BOOLEAN /\ call \in [Callers -> Requests]
  BY DEF SlotInv, CallInv
<1>4. call'[c] = new /\ \A d \in Callers \ {c} : call'[d] = call[d]
  BY <1>1, <1>3
<1>5. PostNeverWaits'
  BY <1>2, <1>4 DEF SlotInv, PostNeverWaits
<1>6. SlotHasProbe'
  BY <1>1, <1>2, <1>4 DEF SlotHasProbe
<1>7. CallInv'
  <2>1. new \in Requests
    BY <1>3 DEF Requests, new
  <2>2. QED
    BY <1>1, <1>3, <2>1 DEF CallInv
<1>8. QED
  BY <1>5, <1>6, <1>7 DEF SlotInv

\* Only a request that may be repeated waits.
LEMMA AnswerKeeps ==
  ASSUME SlotInv, NEW c \in Callers, NEW answer \in Answers, Answer(c, answer)
  PROVE  SlotInv'
<1>1. CASE Return(c, Classify(answer))
  BY <1>1, ReturnKeeps
<1>2. ASSUME Retryable(call[c].method, answer), UNCHANGED breaker,
             call' = [call EXCEPT ![c].state = "waiting", ![c].answer = answer]
      PROVE  SlotInv'
  <2>1. open \in BOOLEAN /\ call \in [Callers -> Requests]
    BY DEF SlotInv, CallInv
  <2>2. call[c].method = "GET"
    BY <1>2 DEF Retryable
  <2>3. /\ call' \in [Callers -> Requests]
        /\ \A d \in Callers : /\ call'[d].probe = call[d].probe
                              /\ call'[d].method = call[d].method
                              /\ d # c => call'[d] = call[d]
    BY <1>2, <2>1 DEF Requests
  <2>4. PostNeverWaits'
    BY <2>2, <2>3 DEF SlotInv, PostNeverWaits
  <2>5. SlotHasProbe'
    BY <1>2, <2>3 DEF SlotInv, SlotHasProbe, breaker
  <2>6. QED
    BY <1>2, <2>1, <2>3, <2>4, <2>5 DEF SlotInv, CallInv, breaker
<1>3. QED
  BY <1>1, <1>2 DEF Answer

\* What waits is not a POST, so what is sent again is not either.
LEMMA ResendKeeps ==
  ASSUME SlotInv, NEW c \in Callers, Resend(c)
  PROVE  SlotInv'
<1>1. open \in BOOLEAN /\ call \in [Callers -> Requests]
  BY DEF SlotInv, CallInv
<1>2. call[c].method # "POST"
  BY DEF SlotInv, PostNeverWaits, Resend
<1>3. call' = [call EXCEPT ![c].state = "sent", ![c].sent = @ + 1]
  BY DEF Resend
<1>4. /\ call' \in [Callers -> Requests]
      /\ \A d \in Callers : /\ call'[d].probe = call[d].probe
                            /\ call'[d].method = call[d].method
                            /\ d # c => call'[d] = call[d]
  BY <1>1, <1>3 DEF Requests
<1>5. PostNeverWaits'
  BY <1>2, <1>4 DEF SlotInv, PostNeverWaits
<1>6. SlotHasProbe'
  BY <1>4 DEF SlotInv, SlotHasProbe, Resend, breaker
<1>7. QED
  BY <1>1, <1>4, <1>5, <1>6 DEF SlotInv, CallInv, Resend, breaker

LEMMA NextSlot == SlotInv /\ [BreakerNext]_breakerVars => SlotInv'
<1> SUFFICES ASSUME SlotInv, [BreakerNext]_breakerVars
             PROVE  SlotInv'
  OBVIOUS
<1>1. ASSUME NEW c \in Callers, NEW method \in {"GET", "POST"}, Begin(c, method)
      PROVE  SlotInv'
  BY <1>1, BeginKeeps
<1>2. ASSUME NEW c \in Callers, NEW answer \in Answers, Answer(c, answer)
      PROVE  SlotInv'
  BY <1>2, AnswerKeeps
<1>3. ASSUME NEW c \in Callers, Resend(c)
      PROVE  SlotInv'
  BY <1>3, ResendKeeps
<1>4. ASSUME NEW c \in Callers, GiveUp(c)
      PROVE  SlotInv'
  BY <1>4, ReturnKeeps DEF GiveUp
<1>5. CASE UNCHANGED breakerVars
  BY <1>5 DEF breakerVars, stepVars, breaker, SlotInv, CallInv, SlotHasProbe, PostNeverWaits
<1>6. CASE Tick
  BY <1>6 DEF Tick, SlotInv, CallInv, SlotHasProbe, PostNeverWaits
<1>7. QED
  BY <1>1, <1>2, <1>3, <1>4, <1>5, <1>6 DEF BreakerNext, Step, Refuse, breakerVars, stepVars

-----------------------------------------------------------------------------
\* allow hands the slot out and only record takes it back: while it is taken the
\* circuit is open and a probe is out.
THEOREM SlotIsHeld == BreakerSpec => []SlotHasProbe
<1>1. SlotInv => SlotHasProbe
  BY DEF SlotInv
<1>2. QED
  BY <1>1, InitSlot, NextSlot, PTL DEF BreakerSpec

\* A POST is sent once, for every number of retries (retryable).
THEOREM PostIsSentOnce == BreakerSpec => []PostSentOnce
<1>1. SlotInv => PostSentOnce
  BY DEF SlotInv, PostNeverWaits, PostSentOnce
<1>2. QED
  BY <1>1, InitSlot, NextSlot, PTL DEF BreakerSpec

-----------------------------------------------------------------------------
(* How often a request is sent                                             *)

AttemptsInv ==
  /\ SlotInv /\ probing \in BOOLEAN /\ openedFor \in 0..(Cooldown + 1)
  /\ \A c \in Callers :
       /\ call[c].sent <= Retries + 1
       /\ call[c].state = "waiting" => call[c].sent <= Retries /\ call[c].answer \in Answers

\* What is about a single request, kept by a step that replaces it.
LEMMA RequestKeeps ==
  ASSUME AttemptsInv, NEW c \in Callers, NEW new \in Requests, new.sent <= Retries + 1,
         new.state = "waiting" => new.sent <= Retries /\ new.answer \in Answers,
         call' = [call EXCEPT ![c] = new], SlotInv',
         probing' \in BOOLEAN, openedFor' \in {openedFor, 0}
  PROVE  AttemptsInv'
<1>1. openedFor' \in 0..(Cooldown + 1)
  BY BreakerAssumption DEF AttemptsInv
<1>2. \A d \in Callers : call'[d] = IF d = c THEN new ELSE call[d]
  BY DEF AttemptsInv, SlotInv, CallInv
<1> QED  BY <1>1, <1>2 DEF AttemptsInv

LEMMA ReturnEnds ==
  ASSUME AttemptsInv, SlotInv', NEW c \in Callers, NEW o, Return(c, o)
  PROVE  AttemptsInv'
<1>1. /\ call' = [call EXCEPT ![c] = Idle] /\ probing' = FALSE
      /\ openedFor' \in {openedFor, 0}
  BY DEF Return, Record
<1>2. Idle \in Requests /\ Idle.sent <= Retries + 1 /\ Idle.state # "waiting"
  BY BreakerAssumption DEF Idle, Requests
<1> QED  BY <1>1, <1>2, RequestKeeps

LEMMA AttemptsStep == AttemptsInv /\ [BreakerNext]_breakerVars => AttemptsInv'
<1> SUFFICES ASSUME AttemptsInv, [BreakerNext]_breakerVars
             PROVE  AttemptsInv'
  OBVIOUS
<1> USE BreakerAssumption
<1>1. SlotInv'
  BY NextSlot DEF AttemptsInv
<1>2. ASSUME NEW c \in Callers, NEW method \in {"GET", "POST"}, Begin(c, method)
      PROVE  AttemptsInv'
  <2> DEFINE new == [state |-> "sent", method |-> method, sent |-> 1, answer |-> "none",
                     probe |-> open]
  <2>1. new \in Requests /\ new.sent <= Retries + 1 /\ new.state # "waiting"
    BY DEF AttemptsInv, SlotInv, CallInv, Requests
  <2>2. /\ call' = [call EXCEPT ![c] = new]
        /\ probing' \in BOOLEAN /\ openedFor' = openedFor
    BY <1>2 DEF Begin, Admit, AttemptsInv, SlotInv, CallInv
  <2> HIDE DEF new
  <2> QED  BY <1>1, <2>1, <2>2, RequestKeeps
<1>3. ASSUME NEW c \in Callers, NEW answer \in Answers, Answer(c, answer)
      PROVE  AttemptsInv'
  <2>1. CASE Return(c, Classify(answer))
    BY <1>1, <2>1, ReturnEnds
  <2>2. ASSUME call[c].sent <= Retries, UNCHANGED breaker,
               call' = [call EXCEPT ![c].state = "waiting", ![c].answer = answer]
        PROVE  AttemptsInv'
    <3> DEFINE new == [call[c] EXCEPT !.state = "waiting", !.answer = answer]
    <3>1. call[c] \in Requests
      BY DEF AttemptsInv, SlotInv, CallInv
    <3>2. /\ new \in Requests /\ new.sent = call[c].sent /\ new.answer = answer
          /\ call' = [call EXCEPT ![c] = new]
      BY <2>2, <3>1 DEF Requests
    <3>3. probing' = probing /\ openedFor' = openedFor /\ call[c].sent \in Nat
      BY <2>2, <3>1 DEF breaker, Requests
    <3> HIDE DEF new
    <3> QED  BY <1>1, <2>2, <3>2, <3>3, RequestKeeps DEF AttemptsInv
  <2> QED  BY <1>3, <2>1, <2>2 DEF Answer
<1>4. ASSUME NEW c \in Callers, Resend(c)
      PROVE  AttemptsInv'
  <2> DEFINE n == call[c].sent + 1
             new == [call[c] EXCEPT !.state = "sent", !.sent = n]
  <2>1. call[c] \in Requests /\ call[c].sent <= Retries
    BY <1>4 DEF Resend, AttemptsInv, SlotInv, CallInv
  <2>2. n \in Nat /\ n <= Retries + 1
    BY <2>1 DEF Requests
  <2>3. call' = [call EXCEPT ![c] = new] /\ probing' = probing /\ openedFor' = openedFor
    BY <1>4 DEF Resend, breaker
  <2> HIDE DEF n
  <2>4. new \in Requests /\ new.sent = n /\ new.state = "sent"
    BY <2>1, <2>2 DEF Requests
  <2> HIDE DEF new
  <2> QED  BY <1>1, <2>2, <2>3, <2>4, RequestKeeps DEF AttemptsInv
<1>5. ASSUME NEW c \in Callers, GiveUp(c)
      PROVE  AttemptsInv'
  BY <1>1, <1>5, ReturnEnds DEF GiveUp
<1>6. CASE UNCHANGED breakerVars
  BY <1>1, <1>6 DEF breakerVars, stepVars, breaker, AttemptsInv
<1>7. CASE Tick
  BY <1>1, <1>7 DEF Tick, AttemptsInv
<1> QED
  BY <1>2, <1>3, <1>4, <1>5, <1>6, <1>7 DEF BreakerNext, Step, Refuse, breakerVars, stepVars

\* The circuit and the requests keep their types, and a request is sent once more
\* than its policy has backoffs at most, in either language (Do in client.go).
THEOREM AttemptsEnd == BreakerSpec => []BreakerTypeOK
<1>1. BreakerInit => AttemptsInv
  <2> SUFFICES ASSUME BreakerInit PROVE AttemptsInv
    OBVIOUS
  <2>1. \A c \in Callers : call[c] = Idle
    BY DEF BreakerInit
  <2>2. Idle.sent = 0 /\ Idle.state = "idle"
    BY DEF Idle
  <2>3. 0 \in 0..(Cooldown + 1) /\ 0 <= Retries + 1
    BY BreakerAssumption
  <2> QED  BY <2>1, <2>2, <2>3, InitSlot DEF BreakerInit, AttemptsInv
<1>2. AttemptsInv => BreakerTypeOK
  BY BreakerAssumption DEF AttemptsInv, SlotInv, CallInv, Requests, BreakerTypeOK
<1> QED  BY <1>1, <1>2, AttemptsStep, PTL DEF BreakerSpec

-----------------------------------------------------------------------------
\* A request that is given up adds no failure the server has not answered with,
\* in either language, and nothing at all in Go (Do, classify).
THEOREM GivingUp == BreakerSpec => GivingUpProvesNothing
<1> DEFINE Counted(c) ==
      /\ client = "ts" /\ call[c].state = "waiting" /\ call[c].answer # "error"
      /\ outcomes' \in {<<>>, Append(outcomes, [age |-> 0, failed |-> call[c].answer = "500"])}
<1>1. ASSUME BreakerTypeOK, NEW c \in Callers, GiveUp(c)
      PROVE  (outcomes' = outcomes /\ (open' => open)) \/ Counted(c)
  <2>1. Record(GivenUp(c))
    BY <1>1 DEF GiveUp, Return
  <2>2. ASSUME GivenUp(c) = "ignore"
        PROVE  outcomes' = outcomes /\ (open' => open)
    BY <2>1, <2>2 DEF Record
  <2>3. ASSUME GivenUp(c) # "ignore"
        PROVE  Counted(c)
    <3>1. /\ client = "ts" /\ call[c].state = "waiting" /\ call[c].answer # "error"
          /\ GivenUp(c) = Classify(call[c].answer)
      BY <2>3 DEF GivenUp
    <3>2. GivenUp(c) = "unwell" <=> call[c].answer = "500"
      BY <1>1, <2>3, <3>1 DEF BreakerTypeOK, Answers, Classify
    <3>3. outcomes' \in {<<>>, Append(outcomes, [age |-> 0, failed |-> GivenUp(c) = "unwell"])}
      BY <2>1, <2>3 DEF Record
    <3>4. (GivenUp(c) = "unwell") = (call[c].answer = "500")
      BY <3>2
    <3>5. QED
      BY <3>1, <3>3, <3>4
  <2>4. QED
    BY <2>2, <2>3
<1>2. BreakerTypeOK =>
        \A c \in Callers :
          GiveUp(c) =>
            \/ outcomes' = outcomes /\ (open' => open)
            \/ /\ client = "ts" /\ call[c].state = "waiting" /\ call[c].answer # "error"
               /\ outcomes' \in {<<>>, Append(outcomes, [age |-> 0, failed |-> call[c].answer = "500"])}
  BY <1>1
<1>3. QED
  BY <1>2, AttemptsEnd, PTL DEF GivingUpProvesNothing

-----------------------------------------------------------------------------
\* The inductive invariant, in parts.

\* The position and the page are ids, and what is stable is still listed.
WalkTypes ==
    /\ dex \in Dexes
    /\ at \in {"fetch", "yield"} \cup Over
    /\ cursor \in Nat
    /\ page \in [items : SUBSET (Nat \ {0}), next : Nat]
    /\ yielded \subseteq Nat
    /\ stable \subseteq Matching(dex)

\* Behind the cursor lies what was yielded, and of what is stable nothing else.
BehindCursor ==
    at \in {"fetch", "yield"} =>
        /\ \A id \in yielded : id <= cursor
        /\ \A id \in stable : id <= cursor => id \in yielded
        /\ \A c \in seen : c \in Nat /\ c <= cursor

\* The page lies ahead of the cursor and reaches its own next cursor, or the
\* end, without a gap in what is stable.
PageAhead ==
    at = "yield" =>
        /\ \A id \in page.items : cursor < id
        /\ IF page.next = NoCursor
           THEN stable \subseteq yielded \cup page.items
           ELSE /\ page.next \in page.items
                /\ \A id \in page.items : id <= page.next
                /\ \A id \in stable : id <= page.next => id \in yielded \cup page.items

WalkInv == WalkTypes /\ BehindCursor /\ PageAhead /\ WalkIsWhole

-----------------------------------------------------------------------------
\* Every id a dex lists is a positive number.
LEMMA IdsArePositive ==
    ASSUME NEW d \in Dexes
    PROVE  Matching(d) \subseteq Nat \ {0}
BY PagingAssumption DEF Matching

\* A walk starts with nothing yielded and nothing owed.
LEMMA WalkStarts == Init => WalkInv
<1> SUFFICES ASSUME Init PROVE WalkInv
    OBVIOUS
<1>1. stable \subseteq Nat \ {0}
    BY IdsArePositive DEF Init
<1> QED
    BY <1>1 DEF Init, WalkInv, WalkTypes, BehindCursor, PageAhead, WalkIsWhole,
                NoPage, NoCursor, Over

\* The page Listed allows has no gap before its next cursor (pokedex.list).
LEMMA FetchKeeps ==
    ASSUME WalkInv, Fetch
    PROVE  WalkInv'
<1> USE DEF NoCursor
<1>1. Matching(dex) \subseteq Nat \ {0}
    BY IdsArePositive DEF WalkInv, WalkTypes
<1>2. PICK items \in SUBSET After(dex, cursor) : \E next \in items \cup {NoCursor} :
          /\ Listed(dex, cursor, items, next)
          /\ page' = [items |-> items, next |-> next]
    BY DEF Fetch
<1>3. PICK next \in items \cup {NoCursor} :
          /\ Listed(dex, cursor, items, next)
          /\ page' = [items |-> items, next |-> next]
    BY <1>2
<1>4. /\ at = "fetch" /\ at' = "yield"
      /\ UNCHANGED <<dex, cursor, seen, yielded, stable>>
    BY DEF Fetch
<1>5. /\ items \subseteq Nat \ {0} /\ next \in Nat
      /\ \A id \in items : cursor < id
    BY <1>1, <1>3 DEF After, WalkInv, WalkTypes
<1>6. WalkTypes'
    BY <1>3, <1>4, <1>5 DEF WalkInv, WalkTypes, Matching
<1>7. BehindCursor'
    BY <1>4 DEF WalkInv, BehindCursor
<1>8. PageAhead'
  <2>1. \A id \in stable : id \in yielded \/ id \in After(dex, cursor)
      BY <1>1, <1>4 DEF WalkInv, WalkTypes, BehindCursor, After
  <2>2. CASE items = After(dex, cursor)
      BY <2>1, <2>2, <1>3, <1>4, <1>5 DEF Listed, PageAhead
  <2>3. CASE items # After(dex, cursor)
    <3>1. next \in items /\ \A id \in items : id <= next
        BY <2>3, <1>3 DEF Listed
    <3>2. \A id \in After(dex, cursor) \ items : next < id
        BY <3>1, <1>3 DEF Listed
    <3>3. \A id \in stable : id <= next => id \in yielded \cup items
        BY <2>1, <3>2, <1>1, <1>5 DEF After, WalkInv, WalkTypes
    <3> QED
        BY <3>1, <3>3, <1>3, <1>4, <1>5 DEF PageAhead
  <2> QED
      BY <2>2, <2>3
<1>9. WalkIsWhole'
    BY <1>4 DEF WalkIsWhole
<1> QED
    BY <1>6, <1>7, <1>8, <1>9 DEF WalkInv

\* Yielding a page moves the cursor to its last id; the cursor that a server
\* may have repeated is never one of this service's (Paged).
LEMMA YieldKeeps ==
    ASSUME WalkInv, Yield
    PROVE  WalkInv'
<1> USE DEF NoCursor
<1>1. /\ at = "yield" /\ UNCHANGED <<dex, stable>>
      /\ yielded' = yielded \cup page.items
      /\ page' = NoPage
    BY DEF Yield
<1>2. stable \subseteq Nat \ {0}
    BY IdsArePositive DEF WalkInv, WalkTypes
<1>3. page.next # NoCursor => page.next \notin seen
    BY <1>1 DEF WalkInv, WalkTypes, BehindCursor, PageAhead
<1>4. CASE page.next = NoCursor
  <2>1. at' = "ended" /\ UNCHANGED <<cursor, seen>>
      BY <1>4 DEF Yield
  <2>2. stable \subseteq yielded'
      BY <1>1, <1>4 DEF WalkInv, PageAhead
  <2> QED
      BY <2>1, <2>2, <1>1 DEF WalkInv, WalkTypes, BehindCursor, PageAhead, WalkIsWhole,
                              NoPage, Over, Matching
<1>5. CASE page.next # NoCursor
  <2>1. at' = "fetch" /\ cursor' = page.next /\ seen' = seen \cup {page.next}
      BY <1>3, <1>5 DEF Yield
  <2>2. WalkTypes'
      BY <2>1, <1>1 DEF WalkInv, WalkTypes, NoPage, Matching
  <2>3. cursor < page.next /\ page.next \in Nat /\ cursor \in Nat
      BY <1>1, <1>5 DEF WalkInv, WalkTypes, PageAhead
  <2>4. \A id \in yielded' : id <= cursor'
      BY <2>1, <2>3, <1>1, <1>5 DEF WalkInv, WalkTypes, BehindCursor, PageAhead
  <2>5. \A id \in stable' : id <= cursor' => id \in yielded'
      BY <2>1, <1>1, <1>5 DEF WalkInv, PageAhead
  <2>6. \A c \in seen' : c \in Nat /\ c <= cursor'
      BY <2>1, <2>3, <1>1 DEF WalkInv, BehindCursor
  <2> QED
      BY <2>1, <2>2, <2>4, <2>5, <2>6 DEF WalkInv, BehindCursor, PageAhead, WalkIsWhole
<1> QED
    BY <1>4, <1>5

\* Another dex can only take from what is stable.
LEMMA RedeployKeeps ==
    ASSUME WalkInv, Redeploy
    PROVE  WalkInv'
<1>1. /\ dex' \in Dexes /\ stable' \subseteq stable /\ stable' \subseteq Matching(dex')
      /\ UNCHANGED <<at, cursor, page, seen, yielded>>
    BY DEF Redeploy
<1>2. WalkTypes'
    BY <1>1 DEF WalkInv, WalkTypes, Matching
<1>3. BehindCursor'
    BY <1>1 DEF WalkInv, BehindCursor
<1>4. PageAhead'
    BY <1>1 DEF WalkInv, PageAhead
<1>5. WalkIsWhole'
    BY <1>1 DEF WalkInv, WalkIsWhole
<1> QED
    BY <1>2, <1>3, <1>4, <1>5 DEF WalkInv

\* A walk that is broken off owes nothing.
LEMMA StopKeeps ==
    ASSUME WalkInv, Fail \/ Break
    PROVE  WalkInv'
<1>1. at' \in {"failed", "stopped"} /\ UNCHANGED <<dex, cursor, page, seen, stable>>
    BY DEF Fail, Break
<1>2. yielded' \subseteq Nat
    BY DEF Fail, Break, WalkInv, WalkTypes
<1> QED
    BY <1>1, <1>2 DEF WalkInv, WalkTypes, BehindCursor, PageAhead, WalkIsWhole, Over, Matching

\* The invariant is inductive.
LEMMA WalkStep == WalkInv /\ [Next]_vars => WalkInv'
<1> SUFFICES ASSUME WalkInv, [Next]_vars PROVE WalkInv'
    OBVIOUS
<1>1. CASE UNCHANGED vars
    BY <1>1 DEF vars, WalkInv, WalkTypes, BehindCursor, PageAhead, WalkIsWhole, Matching
<1> QED
    BY <1>1, FetchKeeps, YieldKeeps, RedeployKeeps, StopKeeps DEF Next

\* The invariant of a walk holds throughout it.
THEOREM WalkInvariant == Spec => []WalkInv
<1> QED
    BY WalkStarts, WalkStep, PTL DEF Spec

\* A walk that ends has listed every Pokemon that was in every dex served
\* meanwhile, whatever the page size and wherever the deploys fall.
THEOREM EndedIsWhole == Spec => []WalkIsWhole
<1>1. WalkInv => WalkIsWhole
    BY DEF WalkInv
<1> QED
    BY <1>1, WalkInvariant, PTL

\* No page brings a Pokemon the caller has been given.
THEOREM NeverTwice == Spec => []NothingTwice
<1>1. WalkInv => NothingTwice
  <2> SUFFICES ASSUME WalkInv, at = "yield", NEW id \in page.items, id \in yielded
               PROVE  FALSE
      BY DEF NothingTwice
  <2>1. id \in Nat /\ cursor \in Nat /\ id <= cursor /\ cursor < id
      BY DEF WalkInv, WalkTypes, BehindCursor, PageAhead
  <2> QED
      BY <2>1
<1> QED
    BY <1>1, WalkInvariant, PTL
=============================================================================
