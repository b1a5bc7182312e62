------------------------------ MODULE Purchase ------------------------------
(***************************************************************************)
(* One demo purchase, end to end: the route of the web application         *)
(* reserves an attempt and runs the consumer agent as a child with a       *)
(* timeout; the agent calls a paid data route of the API, checks the       *)
(* requirements of the 402 it gets, signs one payment and calls again; the *)
(* API checks that the dataset is live, has the facilitator verify the     *)
(* payment, reads the page, has the payment settled and answers.           *)
(*                                                                         *)
(* Each of the three may be gone while the next still works: the child is  *)
(* killed, the connection breaks, the API restarts with other terms, the   *)
(* facilitator settles but its answer is lost.  The x402 middleware and    *)
(* client and the facilitator are external.                                *)
(***************************************************************************)
EXTENDS Integers, FiniteSetsExt

CONSTANTS Browsers,
          Requests,       \* POSTs to the route; a request also names the UUID it may draw
          Goods,          \* slug and resource
          Posts,          \* headers and bodies the browsers send
          Offers,         \* requirements the API may be configured with; None: no gate
          MaxAmount,      \* X402_MAX_AMOUNT of the agent
          DemoEnabled,    \* DEMO_PURCHASE_ENABLED
          Configurable,   \* values of DEMO_PURCHASE_MAX_PER_PROCESS
          Cooldown,
          MaxClock,       \* bound: ticks
          MaxRestarts,    \* bound: restarts of the API
          None

Requirement == [terms : {"expected", "other"}, feePayer : BOOLEAN, amount : Nat]
Post == [origin : {"none", "same", "other"}, loopback : BOOLEAN, operator : BOOLEAN,
         wellFormed : BOOLEAN]

\* boundedInteger: anything but a number in range is ignored.
BoundedInteger(value, fallback, min, max) ==
  IF value \in min..max THEN value ELSE fallback

ASSUME PurchaseAssumption ==
  /\ Posts \subseteq Post
  /\ Offers \subseteq Requirement \cup {None}
  /\ {MaxAmount, Cooldown, MaxClock, MaxRestarts} \subseteq Nat
  /\ DemoEnabled \in BOOLEAN
  /\ None \notin Requests \cup Requirement \cup Nat

\* What is spent in all is a sum over them.
ASSUME FiniteRequests == IsFiniteSet(Requests)

VARIABLES
  clock,
  maxAttempts,  \* of the process, never changed
  attempts,     \* DemoPurchaseLimiter.attempts
  last,      \* lastAttemptByKey: session and goods to the time of the last attempt
  cookie,    \* the session cookie of each browser
  web,       \* the POST of each request
  agent,     \* the child of each request
  call,      \* the call the agent has sent to the API last
  live,      \* the datasets are LIVE with a cursor
  offer,     \* what the API asks for
  paid,      \* the ledger: the amount settled for each request
  restarts,
  served,    \* history: requests whose paid call has read its page
  fault      \* history: requests met by a timeout, a lost answer or a restart

webVars == <<maxAttempts, attempts, last, cookie, web>>
vars == <<clock, webVars, agent, call, live, offer, paid, restarts, served, fault>>

NoPost == [pc |-> "idle", browser |-> None, session |-> None, goods |-> None,
           at |-> None, status |-> 0]
NoCall == [pc |-> "none", payment |-> None, status |-> 0, terms |-> None, data |-> "none"]

Init ==
  /\ clock = 0
  /\ maxAttempts \in {BoundedInteger(n, 25, 1, 100) : n \in Configurable}
  /\ attempts = 0
  /\ last = [k \in Requests \X Goods |-> None]
  /\ cookie = [b \in Browsers |-> None]
  /\ web = [r \in Requests |-> NoPost]
  /\ agent = [r \in Requests |-> "none"]
  /\ call = [r \in Requests |-> NoCall]
  /\ live \in BOOLEAN
  /\ offer \in Offers
  /\ paid = [r \in Requests |-> 0]
  /\ restarts = 0
  /\ served = {}
  /\ fault = {}
-----------------------------------------------------------------------------
(* The route of the web application.                                       *)

\* demoPurchaseAllowed: a loopback origin, or an operator where the demo is enabled.
DemoPurchaseAllowed(post) ==
  (post.origin # "none" /\ post.loopback) \/ (DemoEnabled /\ post.operator)

\* The status of a POST that is refused before the limiter, None if it is not.
Refusal(post) ==
  IF ~DemoPurchaseAllowed(post) \/ post.origin # "same" THEN 403
  ELSE IF ~post.wellFormed THEN 400 ELSE None

\* Mutant: one attempt too many.
OneMore(session, goods) == attempts <= maxAttempts
\* reserve: the limit of the process first, then the cooldown of the session.
Reservable(session, goods) ==
  /\ attempts < maxAttempts
  /\ last[<<session, goods>>] # None => clock - last[<<session, goods>>] >= Cooldown

\* Mutant: the time of the attempt is not kept.
CountOnly(session, goods) == attempts' = attempts + 1 /\ UNCHANGED last
Record(session, goods) ==
  /\ attempts' = attempts + 1
  /\ last' = [last EXCEPT ![<<session, goods>>] = clock]

\* POST: refused, or reserved and the child started.
Buy(b, r, goods, post) ==
  LET session == IF cookie[b] = None THEN r ELSE cookie[b]
      w == [pc |-> "done", browser |-> b, session |-> session, goods |-> goods,
            at |-> None, status |-> 0]
  IN
  /\ web[r].pc = "idle"
  /\ IF Refusal(post) # None
     THEN /\ web' = [web EXCEPT ![r] = [w EXCEPT !.status = Refusal(post)]]
          /\ UNCHANGED <<attempts, last, agent>>
     ELSE IF Reservable(session, goods)
     THEN /\ Record(session, goods)
          /\ web' = [web EXCEPT ![r] = [w EXCEPT !.pc = "run", !.at = clock]]
          /\ agent' = [agent EXCEPT ![r] = "start"]
     ELSE /\ web' = [web EXCEPT ![r] = [w EXCEPT !.status = 429]]
          /\ UNCHANGED <<attempts, last, agent>>
  /\ UNCHANGED <<clock, maxAttempts, cookie, call, live, offer, paid, restarts, served, fault>>

\* The child has exited: its result is the answer and the session gets its cookie, or the
\* answer is 502 and a session drawn for this request is forgotten.
Answer(r) ==
  LET good == agent[r] = "printed" IN
  /\ web[r].pc = "run"
  /\ agent[r] \in {"printed", "exited"}
  /\ web' = [web EXCEPT ![r].pc = "done", ![r].status = IF good THEN 200 ELSE 502]
  /\ cookie' = IF good THEN [cookie EXCEPT ![web[r].browser] = web[r].session] ELSE cookie
  /\ UNCHANGED <<clock, maxAttempts, attempts, last, agent, call, live, offer, paid, restarts,
                 served, fault>>

\* Mutant: the child may take as long as it likes.
NoTimeout(r) == FALSE /\ UNCHANGED vars
\* execFile kills the child; what the child has sent to the API goes on.
Timeout(r) ==
  /\ agent[r] \in {"start", "asked", "paying"}
  /\ agent' = [agent EXCEPT ![r] = "exited"]
  /\ fault' = fault \cup {r}
  /\ UNCHANGED <<clock, webVars, call, live, offer, paid, restarts, served>>

Tick ==
  /\ clock < MaxClock
  /\ clock' = clock + 1
  /\ UNCHANGED <<webVars, agent, call, live, offer, paid, restarts, served, fault>>
-----------------------------------------------------------------------------
(* The consumer agent.                                                     *)

\* Mutant: whoever the recipient is.
AnyRecipient(q) == q.feePayer /\ q.amount \in 1..MaxAmount
\* createRequirementPolicy and the spend controls.
AllowedRequirement(q) == q.terms = "expected" /\ q.feePayer /\ q.amount \in 1..MaxAmount

Send(r, payment) ==
  call' = [call EXCEPT ![r] = [NoCall EXCEPT !.pc = "live", !.payment = payment]]

\* requestPaidDataset: the first call has no payment.
Ask(r) ==
  /\ agent[r] = "start"
  /\ agent' = [agent EXCEPT ![r] = "asked"]
  /\ Send(r, None)
  /\ UNCHANGED <<clock, webVars, live, offer, paid, restarts, served, fault>>

\* A 402 with requirements the policy accepts is paid, once; others end the agent.
Pay(r) ==
  /\ agent[r] = "asked"
  /\ call[r].pc = "answered"
  /\ call[r].status = 402
  /\ IF AllowedRequirement(call[r].terms)
     THEN Send(r, call[r].terms) /\ agent' = [agent EXCEPT ![r] = "paying"]
     ELSE agent' = [agent EXCEPT ![r] = "exited"] /\ UNCHANGED call
  /\ UNCHANGED <<clock, webVars, live, offer, paid, restarts, served, fault>>

\* Mutant: an answer without a receipt will do.
OkIsEnough(c) == c.status = 200
\* The answer is printed and the route accepts it: 200, a receipt, and a LIVE page.
Accepted(c) == c.status = 200 /\ c.terms # None /\ c.data = "LIVE"

Finish(r) ==
  /\ agent[r] \in {"asked", "paying"}
  /\ call[r].pc = "answered"
  /\ agent[r] = "asked" => call[r].status # 402
  /\ agent' = [agent EXCEPT ![r] = IF Accepted(call[r]) THEN "printed" ELSE "exited"]
  /\ UNCHANGED <<clock, webVars, call, live, offer, paid, restarts, served, fault>>

\* The connection breaks and fetch rejects; a handler at work in the API goes on.
Disconnect(r) ==
  /\ agent[r] \in {"asked", "paying"}
  /\ agent' = [agent EXCEPT ![r] = "exited"]
  /\ fault' = fault \cup {r}
  /\ UNCHANGED <<clock, webVars, call, live, offer, paid, restarts, served>>
-----------------------------------------------------------------------------
(* A paid data route of the API.                                           *)

Respond(r, status, terms, data) ==
  call' = [call EXCEPT ![r] = [@ EXCEPT !.pc = "answered", !.status = status,
                                        !.terms = terms, !.data = data]]
Proceed(r, pc) == call' = [call EXCEPT ![r].pc = pc]

\* requireLiveDataset, before anything is asked for.
CheckLive(r) ==
  /\ call[r].pc = "live"
  /\ IF live THEN Proceed(r, IF offer = None THEN "free" ELSE "gate")
     ELSE Respond(r, 503, None, "none")
  /\ UNCHANGED <<clock, webVars, agent, live, offer, paid, restarts, served, fault>>

\* The middleware: 402 for a call without payment, or with one the facilitator refuses or
\* that was signed for other terms.
Gate(r) ==
  /\ call[r].pc = "gate"
  /\ \/ call[r].payment = offer /\ Proceed(r, "page")
     \/ Respond(r, 402, offer, "none")
  /\ UNCHANGED <<clock, webVars, agent, live, offer, paid, restarts, served, fault>>

\* Mutant: an error is sent as a page of its own.
AlwaysOk == 200
\* The status of an unexpected error.
FailureStatus == 500

\* Mutant: the state of the pipeline once the page is read.
StateNow == IF live THEN "LIVE" ELSE "SYNCING"
\* The page says LIVE: the dataset was when the call came in.
PageState == "LIVE"

\* The page is read; a status below 400 goes on to settlement, where there is a gate.
ReadPage(r) ==
  LET gated == call[r].pc = "page" IN
  /\ call[r].pc \in {"free", "page"}
  /\ \/ /\ IF gated THEN call' = [call EXCEPT ![r].pc = "settle", ![r].data = PageState]
           ELSE Respond(r, 200, None, PageState)
        /\ served' = IF gated THEN served \cup {r} ELSE served
     \/ /\ IF gated /\ FailureStatus < 400 THEN Proceed(r, "settle")
           ELSE Respond(r, FailureStatus, None, "none")
        /\ UNCHANGED served
  /\ UNCHANGED <<clock, webVars, agent, live, offer, paid, restarts, fault>>

\* The facilitator settles and the page goes out with its receipt, or it does not and the
\* answer is 402; or it does and its answer does not arrive in time.
Settle(r) ==
  /\ call[r].pc = "settle"
  /\ \/ /\ paid' = [paid EXCEPT ![r] = @ + call[r].payment.amount]
        /\ Respond(r, 200, call[r].payment, call[r].data)
        /\ UNCHANGED fault
     \/ /\ paid' = [paid EXCEPT ![r] = @ + call[r].payment.amount]
        /\ Respond(r, 402, None, "none")
        /\ fault' = fault \cup {r}
     \/ Respond(r, 402, None, "none") /\ UNCHANGED <<paid, fault>>
  /\ UNCHANGED <<clock, webVars, agent, live, offer, restarts, served>>

\* The API stops, and comes back with the offer of its configuration.  Calls are lost.
ApiRestarts(q) ==
  LET open == {r \in Requests : call[r].pc \notin {"none", "answered", "lost"}} IN
  /\ restarts < MaxRestarts
  /\ restarts' = restarts + 1
  /\ offer' = q
  /\ call' = [r \in Requests |-> IF r \in open THEN [NoCall EXCEPT !.pc = "lost"] ELSE call[r]]
  /\ agent' = [r \in Requests |->
       IF r \in open /\ agent[r] \in {"asked", "paying"} THEN "exited" ELSE agent[r]]
  /\ fault' = fault \cup open
  /\ UNCHANGED <<clock, webVars, live, paid, served>>

\* The datasets go live, or stop being it.
LiveChanges ==
  /\ live' = ~live
  /\ UNCHANGED <<clock, webVars, agent, call, offer, paid, restarts, served, fault>>
-----------------------------------------------------------------------------
AgentStep(r) == Ask(r) \/ Pay(r) \/ Finish(r) \/ Disconnect(r)
ApiStep(r) == CheckLive(r) \/ Gate(r) \/ ReadPage(r) \/ Settle(r)

Next ==
  \/ \E b \in Browsers, r \in Requests, g \in Goods, post \in Posts : Buy(b, r, g, post)
  \/ \E r \in Requests : Answer(r) \/ Timeout(r) \/ AgentStep(r) \/ ApiStep(r)
  \/ \E q \in Offers : ApiRestarts(q)
  \/ Tick \/ LiveChanges

Spec == Init /\ [][Next]_vars

\* The timer of the child fires and its end is seen; neither the API nor the facilitator is
\* assumed to answer.
FairSpec == Spec /\ \A r \in Requests : WF_vars(Timeout(r)) /\ WF_vars(Answer(r))
-----------------------------------------------------------------------------
(* Properties.                                                             *)

WebRecord ==
  [pc : {"idle", "run", "done"}, browser : Browsers \cup {None},
   session : Requests \cup {None}, goods : Goods \cup {None}, at : (0..MaxClock) \cup {None},
   status : {0, 200, 400, 403, 429, 502}]
CallRecord ==
  [pc : {"none", "live", "gate", "free", "page", "settle", "answered", "lost"},
   payment : Offers \cup {None}, status : {0, 200, 402, 500, 503},
   terms : Offers \cup {None}, data : {"none", "LIVE"}]

TypeOK ==
  /\ clock \in 0..MaxClock
  /\ maxAttempts \in 1..100
  /\ attempts \in 0..maxAttempts
  /\ last \in [Requests \X Goods -> (0..MaxClock) \cup {None}]
  /\ cookie \in [Browsers -> Requests \cup {None}]
  /\ web \in [Requests -> WebRecord]
  /\ agent \in [Requests -> {"none", "start", "asked", "paying", "printed", "exited"}]
  /\ call \in [Requests -> CallRecord]
  /\ live \in BOOLEAN
  /\ offer \in Offers
  /\ paid \in [Requests -> Nat]
  /\ restarts \in 0..MaxRestarts
  /\ served \in SUBSET Requests
  /\ fault \in SUBSET Requests

\* The demo payer never loses more than the limit of the process times the largest amount
\* of the agent, whatever the API asks for, how often it restarts and how purchases overlap.
SpendingIsBounded == MapThenSumSet(LAMBDA r : paid[r], Requests) <= maxAttempts * MaxAmount

\* Money goes only to the configured recipient, once and within the limit of the agent: what
\* is settled is the payment the agent signed, for an offer its policy accepts, although the
\* API may come back with other terms between the 402 and the paid call.
Payable == {q \in Offers \ {None} : q.terms = "expected" /\ q.feePayer /\ q.amount <= MaxAmount}
PaysOnlyExpected ==
  \A r \in Requests : paid[r] > 0 =>
    call[r].payment \in Payable /\ paid[r] = call[r].payment.amount

\* A charge is for a page read in the same call, never for an error of the route (500, 503)
\* or a refused payment: the answer carries the page and the receipt of the very payment, or
\* the facilitator settled without its answer arriving, and the buyer is left with a 402.
ChargedForAPage ==
  \A r \in Requests : paid[r] > 0 =>
    /\ r \in served
    /\ \/ /\ call[r].status = 200 /\ call[r].data = "LIVE"
          /\ call[r].terms = call[r].payment
       \/ call[r].status = 402 /\ r \in fault

\* A purchase that is shown as one was settled.
SuccessIsPaid == \A r \in Requests : web[r].status = 200 => paid[r] > 0

\* A purchase that was settled is shown as one, even if the dataset is retired while it is
\* under way; it is reported as failed only after a timeout or a fault.
PaidIsShown ==
  \A r \in Requests :
    paid[r] > 0 /\ web[r].pc = "done" /\ r \notin fault => web[r].status = 200

\* "a ten-second per-session/resource cooldown": of a session, which a browser keeps from
\* its first success on.
CooldownIsKept ==
  \A r, s \in Requests :
    /\ r # s
    /\ web[r].at # None /\ web[s].at # None
    /\ web[r].session = web[s].session /\ web[r].goods = web[s].goods
    => web[r].at - web[s].at >= Cooldown \/ web[s].at - web[r].at >= Cooldown

\* Why these hold, as an inductive invariant.  A POST that is let through has one child,
\* whose end is the answer; ...
AnswerFollowsChild(r) ==
  LET w == web[r] IN
  /\ agent[r] = "none" <=> w.at = None
  /\ w.pc = "idle" => agent[r] = "none" /\ w.status = 0
  /\ w.pc = "run" => agent[r] # "none" /\ w.status = 0
  /\ w.pc = "done" =>
       \/ agent[r] = "none" /\ w.status \in {400, 403, 429}
       \/ agent[r] = "printed" /\ w.status = 200
       \/ agent[r] = "exited" /\ w.status = 502

\* ... the child calls once without payment and once with one the policy allows, and an open
\* call has cost nothing yet; ...
CallFollowsChild(r) ==
  LET c == call[r] IN
  /\ agent[r] \in {"none", "start"} => c = NoCall
  /\ agent[r] = "asked" => c.payment = None
  /\ c.payment # None => AllowedRequirement(c.payment)
  /\ c.payment = None => c.pc \notin {"page", "settle"} /\ paid[r] = 0
  /\ c.pc = "gate" => offer # None
  /\ c.pc = "settle" => c.data = "LIVE" /\ r \in served
  /\ c.pc # "answered" => c.status = 0 /\ paid[r] = 0

\* ... what is settled is the payment of the call, for a page that was read, and only a
\* fault keeps it from the agent; ...
LedgerFollowsCall(r) ==
  LET c == call[r] IN
  /\ paid[r] > 0 =>
       /\ paid[r] = c.payment.amount /\ r \in served
       /\ \/ c.status = 200 /\ c.data = "LIVE" /\ c.terms = c.payment
          \/ c.status = 402 /\ r \in fault
  /\ c.status = 200 /\ c.terms # None => paid[r] > 0
  /\ agent[r] = "printed" => paid[r] > 0
  /\ agent[r] = "exited" /\ r \notin fault => paid[r] = 0 /\ c.pc = "answered"

\* ... and the limiter has seen every attempt, none later than the last it remembers.
Attempted == {r \in Requests : web[r].at # None}
AttemptIsRemembered(r) ==
  LET w == web[r] IN
  w.at # None =>
    /\ w.session \in Requests /\ w.goods \in Goods
    /\ last[<<w.session, w.goods>>] # None
    /\ w.at <= last[<<w.session, w.goods>>]
LimiterInv ==
  /\ \A r \in Requests : AttemptIsRemembered(r)
  /\ \A k \in Requests \X Goods : last[k] # None => last[k] <= clock
  /\ IsFiniteSet(Attempted) /\ Cardinality(Attempted) = attempts

\* The inductive invariant of a purchase: limiter, child, call and ledger fit together.
PurchaseInv ==
  /\ \A r \in Requests : AnswerFollowsChild(r) /\ CallFollowsChild(r) /\ LedgerFollowsCall(r)
  /\ LimiterInv
  /\ CooldownIsKept

\* Every POST is answered, even if the API or the facilitator never is.
PostIsAnswered == \A r \in Requests : (web[r].pc = "run") ~> (web[r].pc = "done")

=============================================================================
