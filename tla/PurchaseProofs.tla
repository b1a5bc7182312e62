--------------------------- MODULE PurchaseProofs ---------------------------
(***************************************************************************)
(* Proofs about the demo purchase for every number of browsers and POSTs,  *)
(* whatever the API asks for and how often it restarts: the inductive      *)
(* invariant PurchaseInv, and what it says about money and cooldown.       *)
(***************************************************************************)
EXTENDS Purchase, NaturalLemmas

AnswerStatus == {200, 402, 500, 503}
PageData == {"none", "LIVE"}
AgentPc == {"none", "start", "asked", "paying", "printed", "exited"}
RequestInv(r) == AnswerFollowsChild(r) /\ CallFollowsChild(r) /\ LedgerFollowsCall(r)

-----------------------------------------------------------------------------
(* Calls and children.                                                     *)

LEMMA StoreCall ==
  ASSUME call \in [Requests -> CallRecord], NEW r \in Requests, NEW c \in CallRecord,
         call' = [call EXCEPT ![r] = c]
  PROVE  /\ call' \in [Requests -> CallRecord]
         /\ call'[r] = c
         /\ \A q \in Requests \ {r} : call'[q] = call[q]
OBVIOUS

LEMMA StoreAgent ==
  ASSUME agent \in [Requests -> AgentPc], NEW r \in Requests, NEW pc \in AgentPc,
         agent' = [agent EXCEPT ![r] = pc]
  PROVE  /\ agent' \in [Requests -> AgentPc]
         /\ agent'[r] = pc
         /\ \A q \in Requests \ {r} : agent'[q] = agent[q]
OBVIOUS

LEMMA SendTyped ==
  ASSUME call \in [Requests -> CallRecord], NEW r \in Requests, NEW payment \in Offers \cup {None},
         Send(r, payment)
  PROVE  /\ call' \in [Requests -> CallRecord]
         /\ \A q \in Requests \ {r} : call'[q] = call[q]
         /\ call'[r].pc = "live" /\ call'[r].payment = payment /\ call'[r].status = 0
         /\ call'[r].terms = None /\ call'[r].data = "none"
<1> DEFINE c == [pc |-> "live", payment |-> payment, status |-> 0, terms |-> None, data |-> "none"]
<1>1. c \in CallRecord
  BY DEF CallRecord
<1>2. [NoCall EXCEPT !.pc = "live", !.payment = payment] = c
  <2> DEFINE g == [NoCall EXCEPT !.pc = "live"]
  <2>1. g = [pc |-> "live", payment |-> None, status |-> 0, terms |-> None, data |-> "none"]
    BY DEF NoCall
  <2>2. [NoCall EXCEPT !.pc = "live", !.payment = payment] = [g EXCEPT !.payment = payment]
    OBVIOUS
  <2> HIDE DEF g
  <2> QED BY <2>1, <2>2
<1>3. call' = [call EXCEPT ![r] = c]
  BY <1>2 DEF Send
<1>4. call'[r] = c /\ call' \in [Requests -> CallRecord]
      /\ \A q \in Requests \ {r} : call'[q] = call[q]
  <2> HIDE DEF c
  <2> QED BY <1>1, <1>3, StoreCall
<1> QED BY <1>4

LEMMA ProceedTyped ==
  ASSUME call \in [Requests -> CallRecord], NEW r \in Requests,
         NEW pc \in {"gate", "free", "page", "settle"}, Proceed(r, pc)
  PROVE  /\ call' \in [Requests -> CallRecord]
         /\ \A q \in Requests \ {r} : call'[q] = call[q]
         /\ call'[r].pc = pc /\ call'[r].payment = call[r].payment
         /\ call'[r].status = call[r].status /\ call'[r].terms = call[r].terms
         /\ call'[r].data = call[r].data
BY DEF Proceed, CallRecord

\* The provers need a record written in several fields field by field.
Answered(c, status, terms, data) ==
  [c EXCEPT !.pc = "answered", !.status = status, !.terms = terms, !.data = data]

LEMMA AnsweredCall ==
  ASSUME NEW c \in CallRecord, NEW status \in AnswerStatus,
         NEW terms \in Offers \cup {None}, NEW data \in PageData
  PROVE  LET d == Answered(c, status, terms, data) IN
         /\ d \in CallRecord
         /\ d.pc = "answered" /\ d.payment = c.payment /\ d.status = status
         /\ d.terms = terms /\ d.data = data
<1> DEFINE d == [pc |-> "answered", payment |-> c.payment, status |-> status,
                 terms |-> terms, data |-> data]
           c1 == [c EXCEPT !.pc = "answered"]
           c2 == [c1 EXCEPT !.status = status]
           c3 == [c2 EXCEPT !.terms = terms]
<1>1. d \in CallRecord
  <2>1. /\ c.payment \in Offers \cup {None} /\ status \in {0, 200, 402, 500, 503}
        /\ data \in {"none", "LIVE"}
    BY DEF CallRecord, AnswerStatus, PageData
  <2> QED BY <2>1 DEF CallRecord
<1>2. Answered(c, status, terms, data) = [c3 EXCEPT !.data = data]
  BY DEF Answered
<1>3. c1 = [pc |-> "answered", payment |-> c.payment, status |-> c.status, terms |-> c.terms,
            data |-> c.data]
  BY DEF CallRecord
<1> HIDE DEF c1
<1>4. c2 = [pc |-> "answered", payment |-> c.payment, status |-> status, terms |-> c.terms,
            data |-> c.data]
  BY <1>3
<1> HIDE DEF c2
<1>5. c3 = [pc |-> "answered", payment |-> c.payment, status |-> status, terms |-> terms,
            data |-> c.data]
  BY <1>4
<1> HIDE DEF c3
<1>6. [c3 EXCEPT !.data = data] = d
  BY <1>5
<1>7. d.pc = "answered" /\ d.payment = c.payment /\ d.status = status
      /\ d.terms = terms /\ d.data = data
  OBVIOUS
<1> HIDE DEF d
<1> QED BY <1>1, <1>2, <1>6, <1>7

LEMMA RespondTyped ==
  ASSUME call \in [Requests -> CallRecord], NEW r \in Requests, NEW status \in AnswerStatus,
         NEW terms \in Offers \cup {None}, NEW data \in PageData,
         Respond(r, status, terms, data)
  PROVE  /\ call' \in [Requests -> CallRecord]
         /\ \A q \in Requests \ {r} : call'[q] = call[q]
         /\ call'[r].pc = "answered" /\ call'[r].payment = call[r].payment
         /\ call'[r].status = status /\ call'[r].terms = terms /\ call'[r].data = data
<1> DEFINE c == Answered(call[r], status, terms, data)
<1>1. call[r] \in CallRecord
  OBVIOUS
<1>2. call' = [call EXCEPT ![r] = c]
  BY DEF Respond, Answered
<1>3. c \in CallRecord
  BY <1>1, AnsweredCall
<1>4. c.pc = "answered" /\ c.payment = call[r].payment /\ c.status = status
  BY <1>1, AnsweredCall
<1>5. c.terms = terms /\ c.data = data
  BY <1>1, AnsweredCall
<1> HIDE DEF c
<1> QED BY <1>2, <1>3, <1>4, <1>5, StoreCall

-----------------------------------------------------------------------------
(* What a step leaves alone.                                               *)

\* The limiter and the cooldown look at the clock and at what a POST reserved.
LEMMA LimiterKept ==
  ASSUME TypeOK, LimiterInv, CooldownIsKept, UNCHANGED <<clock, attempts, last>>,
         \A r \in Requests :
           /\ web'[r].at = web[r].at /\ web'[r].session = web[r].session
           /\ web'[r].goods = web[r].goods
  PROVE  LimiterInv' /\ CooldownIsKept'
<1>1. Attempted' = Attempted
  BY DEF Attempted
<1>2. LimiterInv'
  BY <1>1 DEF LimiterInv, AttemptIsRemembered
<1>3. CooldownIsKept'
  BY DEF CooldownIsKept
<1> QED BY <1>2, <1>3

\* A step of one child or of its call.
OnlyOf(r) ==
  /\ agent' \in [Requests -> AgentPc] /\ call' \in [Requests -> CallRecord]
  /\ paid' \in [Requests -> Nat]
  /\ served' \in {served, served \cup {r}} /\ fault' \in {fault, fault \cup {r}}
  /\ \A q \in Requests \ {r} :
       agent'[q] = agent[q] /\ call'[q] = call[q] /\ paid'[q] = paid[q]

LEMMA OneCall ==
  ASSUME TypeOK, PurchaseInv, NEW r \in Requests, OnlyOf(r), RequestInv(r)',
         UNCHANGED <<clock, webVars, live, offer, restarts>>
  PROVE  TypeOK' /\ PurchaseInv'
<1>1. TypeOK'
  BY DEF TypeOK, OnlyOf, webVars, AgentPc
<1>2. LimiterInv' /\ CooldownIsKept'
  BY LimiterKept DEF PurchaseInv, webVars
<1>3. ASSUME NEW q \in Requests PROVE RequestInv(q)'
  <2>1. CASE q = r
    BY <2>1
  <2>2. CASE q # r
    <3>1. RequestInv(q)
      BY DEF PurchaseInv, RequestInv
    <3>2. /\ agent'[q] = agent[q] /\ call'[q] = call[q] /\ paid'[q] = paid[q] /\ web'[q] = web[q]
          /\ (q \in served' <=> q \in served) /\ (q \in fault' <=> q \in fault)
          /\ offer' = offer
      BY <2>2 DEF OnlyOf, webVars
    <3> QED BY <3>1, <3>2
        DEF RequestInv, AnswerFollowsChild, CallFollowsChild, LedgerFollowsCall
  <2> QED BY <2>1, <2>2
<1> QED BY <1>1, <1>2, <1>3 DEF PurchaseInv, RequestInv

-----------------------------------------------------------------------------
(* Steps of the consumer agent.                                            *)

\* The child ends, by a fault.
LEMMA ChildEnds ==
  ASSUME TypeOK, PurchaseInv, NEW r \in Requests, Timeout(r) \/ Disconnect(r)
  PROVE  TypeOK' /\ PurchaseInv'
<1> USE DEF RequestInv, AnswerFollowsChild, CallFollowsChild, LedgerFollowsCall
<1>0. RequestInv(r) /\ agent \in [Requests -> AgentPc] /\ web[r].pc \in {"idle", "run", "done"}
  BY DEF PurchaseInv, TypeOK, AgentPc, WebRecord
<1>1. /\ agent[r] \in {"start", "asked", "paying"} /\ agent' = [agent EXCEPT ![r] = "exited"]
      /\ fault' = fault \cup {r}
      /\ UNCHANGED <<clock, webVars, call, live, offer, paid, restarts, served>>
  BY DEF Timeout, Disconnect
<1>2. /\ agent' \in [Requests -> AgentPc] /\ agent'[r] = "exited"
      /\ \A q \in Requests \ {r} : agent'[q] = agent[q]
  BY <1>0, <1>1, StoreAgent DEF AgentPc
<1>3. OnlyOf(r)
  BY <1>1, <1>2 DEF OnlyOf, TypeOK
<1>4. RequestInv(r)'
  BY <1>0, <1>1, <1>2 DEF webVars
<1> QED BY <1>1, <1>3, <1>4, OneCall

LEMMA AskInv ==
  ASSUME TypeOK, PurchaseInv, NEW r \in Requests, Ask(r)
  PROVE  TypeOK' /\ PurchaseInv'
<1> USE DEF RequestInv, AnswerFollowsChild, CallFollowsChild, LedgerFollowsCall
<1>0. /\ RequestInv(r) /\ agent \in [Requests -> AgentPc] /\ call \in [Requests -> CallRecord]
      /\ paid[r] \in Nat /\ web[r].pc \in {"idle", "run", "done"}
  BY DEF PurchaseInv, TypeOK, AgentPc, WebRecord
<1>1. agent[r] = "start" /\ UNCHANGED <<clock, webVars, live, offer, paid, restarts, served, fault>>
  BY DEF Ask
<1>2. /\ agent' \in [Requests -> AgentPc] /\ agent'[r] = "asked"
      /\ \A q \in Requests \ {r} : agent'[q] = agent[q]
  BY <1>0, StoreAgent DEF Ask, AgentPc
<1>3. /\ call' \in [Requests -> CallRecord] /\ \A q \in Requests \ {r} : call'[q] = call[q]
      /\ call'[r].pc = "live" /\ call'[r].payment = None /\ call'[r].status = 0
  BY <1>0, SendTyped DEF Ask
<1>4. paid[r] = 0
  BY <1>0, <1>1 DEF NoCall
<1>5. OnlyOf(r)
  BY <1>1, <1>2, <1>3 DEF OnlyOf, TypeOK
<1>6. RequestInv(r)'
  BY <1>0, <1>1, <1>2, <1>3, <1>4 DEF webVars
<1> QED BY <1>1, <1>5, <1>6, OneCall

\* One payment, signed for terms the policy allows.
LEMMA PayInv ==
  ASSUME TypeOK, PurchaseInv, NEW r \in Requests, Pay(r)
  PROVE  TypeOK' /\ PurchaseInv'
<1> USE DEF RequestInv, AnswerFollowsChild, CallFollowsChild, LedgerFollowsCall
<1>0. /\ RequestInv(r) /\ agent \in [Requests -> AgentPc] /\ call \in [Requests -> CallRecord]
      /\ paid[r] \in Nat /\ web[r].pc \in {"idle", "run", "done"}
      /\ call[r].terms \in Offers \cup {None}
  BY DEF PurchaseInv, TypeOK, AgentPc, WebRecord, CallRecord
<1>1. /\ agent[r] = "asked" /\ call[r].pc = "answered" /\ paid[r] = 0
      /\ UNCHANGED <<clock, webVars, live, offer, paid, restarts, served, fault>>
  BY <1>0 DEF Pay
<1>2. CASE AllowedRequirement(call[r].terms)
  <2>1. /\ agent' \in [Requests -> AgentPc] /\ agent'[r] = "paying"
        /\ \A q \in Requests \ {r} : agent'[q] = agent[q]
    BY <1>0, <1>2, StoreAgent DEF Pay, AgentPc
  <2>2. /\ call' \in [Requests -> CallRecord] /\ \A q \in Requests \ {r} : call'[q] = call[q]
        /\ call'[r].pc = "live" /\ call'[r].payment = call[r].terms /\ call'[r].status = 0
    BY <1>0, <1>2, SendTyped DEF Pay
  <2>3. OnlyOf(r)
    BY <1>1, <2>1, <2>2 DEF OnlyOf, TypeOK
  <2>4. RequestInv(r)'
    BY <1>0, <1>1, <1>2, <2>1, <2>2 DEF webVars
  <2> QED BY <1>1, <2>3, <2>4, OneCall
<1>3. CASE ~AllowedRequirement(call[r].terms)
  <2>1. /\ agent' \in [Requests -> AgentPc] /\ agent'[r] = "exited" /\ call' = call
        /\ \A q \in Requests \ {r} : agent'[q] = agent[q]
    BY <1>0, <1>3, StoreAgent DEF Pay, AgentPc
  <2>3. OnlyOf(r)
    BY <1>1, <2>1 DEF OnlyOf, TypeOK
  <2>4. RequestInv(r)'
    BY <1>0, <1>1, <2>1 DEF webVars
  <2> QED BY <1>1, <2>3, <2>4, OneCall
<1> QED BY <1>2, <1>3

\* The answer is accepted only if it was paid for, and one that was is accepted.
LEMMA FinishInv ==
  ASSUME TypeOK, PurchaseInv, NEW r \in Requests, Finish(r)
  PROVE  TypeOK' /\ PurchaseInv'
<1> USE DEF RequestInv, AnswerFollowsChild, CallFollowsChild, LedgerFollowsCall
<1> DEFINE pc == IF Accepted(call[r]) THEN "printed" ELSE "exited"
<1>0. /\ RequestInv(r) /\ agent \in [Requests -> AgentPc] /\ call \in [Requests -> CallRecord]
      /\ paid[r] \in Nat /\ web[r].pc \in {"idle", "run", "done"}
  BY DEF PurchaseInv, TypeOK, AgentPc, WebRecord
<1>1. /\ agent[r] \in {"asked", "paying"} /\ call[r].pc = "answered"
      /\ UNCHANGED <<clock, webVars, call, live, offer, paid, restarts, served, fault>>
  BY DEF Finish
<1>2. agent' \in [Requests -> AgentPc] /\ agent'[r] = pc
      /\ \A q \in Requests \ {r} : agent'[q] = agent[q]
  <2>1. pc \in AgentPc /\ agent' = [agent EXCEPT ![r] = pc]
    BY DEF Finish, AgentPc
  <2> HIDE DEF pc
  <2> QED BY <1>0, <2>1, StoreAgent
<1>3. OnlyOf(r)
  BY <1>1, <1>2 DEF OnlyOf, TypeOK
<1>4. RequestInv(r)'
  BY <1>0, <1>1, <1>2 DEF webVars, Accepted
<1> QED BY <1>1, <1>3, <1>4, OneCall

-----------------------------------------------------------------------------
(* Steps of the paid route.                                                *)

\* A call at work in the API has been answered nothing and has cost nothing.
LEMMA CallIsOpen ==
  ASSUME TypeOK, PurchaseInv, NEW r \in Requests, call[r].pc \notin {"none", "answered", "lost"}
  PROVE  /\ RequestInv(r) /\ paid[r] = 0 /\ call[r].status = 0
         /\ agent \in [Requests -> AgentPc] /\ call \in [Requests -> CallRecord]
         /\ agent[r] \notin {"none", "start", "printed"}
         /\ agent[r] = "exited" => r \in fault
         /\ web[r].pc \in {"idle", "run", "done"}
         /\ call[r].payment \in Offers \cup {None}
<1>1. RequestInv(r)
  BY DEF PurchaseInv, RequestInv
<1>2. /\ agent \in [Requests -> AgentPc] /\ call \in [Requests -> CallRecord]
      /\ call[r].payment \in Offers \cup {None} /\ web[r].pc \in {"idle", "run", "done"}
      /\ paid[r] \in Nat
  BY DEF TypeOK, AgentPc, CallRecord, WebRecord
<1>3. paid[r] = 0 /\ call[r].status = 0
  BY <1>1, <1>2 DEF RequestInv, CallFollowsChild
<1>4. agent[r] \notin {"none", "start", "printed"}
  BY <1>1, <1>3 DEF RequestInv, CallFollowsChild, LedgerFollowsCall, NoCall
<1>5. agent[r] = "exited" => r \in fault
  BY <1>1 DEF RequestInv, LedgerFollowsCall
<1> QED BY <1>1, <1>2, <1>3, <1>4, <1>5

\* An answer other than a page with its receipt.
LEMMA AnsweredForNothing ==
  ASSUME TypeOK, PurchaseInv, NEW r \in Requests, call[r].pc \notin {"none", "answered", "lost"},
         NEW status \in AnswerStatus, NEW terms \in Offers \cup {None}, NEW data \in PageData,
         status = 200 => terms = None, Respond(r, status, terms, data),
         UNCHANGED <<clock, webVars, live, offer, restarts, agent, paid, served, fault>>
  PROVE  TypeOK' /\ PurchaseInv'
<1>1. /\ RequestInv(r) /\ paid[r] = 0 /\ call[r].status = 0
      /\ agent \in [Requests -> AgentPc] /\ call \in [Requests -> CallRecord]
      /\ agent[r] \notin {"none", "start", "printed"}
      /\ agent[r] = "exited" => r \in fault
      /\ web[r].pc \in {"idle", "run", "done"}
  BY CallIsOpen
<1>2. /\ call' \in [Requests -> CallRecord] /\ \A q \in Requests \ {r} : call'[q] = call[q]
      /\ call'[r].pc = "answered" /\ call'[r].payment = call[r].payment
      /\ call'[r].status = status /\ call'[r].terms = terms
  BY <1>1, RespondTyped
<1>3. OnlyOf(r)
  BY <1>1, <1>2 DEF OnlyOf, TypeOK
<1>4. RequestInv(r)'
  BY <1>1, <1>2
  DEF RequestInv, AnswerFollowsChild, CallFollowsChild, LedgerFollowsCall, webVars
<1> QED BY <1>3, <1>4, OneCall

\* The call goes on to the gate, or past it with a payment for what is asked.
LEMMA CallGoesOn ==
  ASSUME TypeOK, PurchaseInv, NEW r \in Requests, call[r].pc \notin {"none", "answered", "lost"},
         NEW pc \in {"gate", "free", "page"}, Proceed(r, pc),
         pc = "gate" => offer # None, pc = "page" => call[r].payment # None,
         UNCHANGED <<clock, webVars, live, offer, restarts, agent, paid, served, fault>>
  PROVE  TypeOK' /\ PurchaseInv'
<1>1. /\ RequestInv(r) /\ paid[r] = 0 /\ call[r].status = 0
      /\ agent \in [Requests -> AgentPc] /\ call \in [Requests -> CallRecord]
      /\ agent[r] \notin {"none", "start", "printed"}
      /\ agent[r] = "exited" => r \in fault
      /\ web[r].pc \in {"idle", "run", "done"}
  BY CallIsOpen
<1>2. /\ call' \in [Requests -> CallRecord] /\ \A q \in Requests \ {r} : call'[q] = call[q]
      /\ call'[r].pc = pc /\ call'[r].payment = call[r].payment
      /\ call'[r].status = call[r].status /\ call'[r].terms = call[r].terms
  BY <1>1, ProceedTyped
<1>3. OnlyOf(r)
  BY <1>1, <1>2 DEF OnlyOf, TypeOK
<1>4. RequestInv(r)'
  BY <1>1, <1>2
  DEF RequestInv, AnswerFollowsChild, CallFollowsChild, LedgerFollowsCall, webVars
<1> QED BY <1>3, <1>4, OneCall

LEMMA CheckLiveInv ==
  ASSUME TypeOK, PurchaseInv, NEW r \in Requests, CheckLive(r)
  PROVE  TypeOK' /\ PurchaseInv'
<1>1. /\ call[r].pc \notin {"none", "answered", "lost"}
      /\ UNCHANGED <<clock, webVars, agent, live, offer, paid, restarts, served, fault>>
  BY DEF CheckLive
<1>2. CASE live
  <2> DEFINE pc == IF offer = None THEN "free" ELSE "gate"
  <2>1. /\ pc \in {"gate", "free", "page"} /\ Proceed(r, pc)
        /\ (pc = "gate" => offer # None) /\ pc # "page"
    BY <1>2 DEF CheckLive
  <2> HIDE DEF pc
  <2> QED BY <1>1, <2>1, CallGoesOn
<1>3. CASE ~live
  <2>1. Respond(r, 503, None, "none") /\ 503 \in AnswerStatus /\ "none" \in PageData
        /\ None \in Offers \cup {None}
    BY <1>3 DEF CheckLive, AnswerStatus, PageData
  <2> QED BY <1>1, <2>1, AnsweredForNothing
<1> QED BY <1>2, <1>3

\* A payment that passes the gate is one for the present offer.
LEMMA GateInv ==
  ASSUME TypeOK, PurchaseInv, NEW r \in Requests, Gate(r)
  PROVE  TypeOK' /\ PurchaseInv'
<1>1. /\ call[r].pc \notin {"none", "answered", "lost"} /\ call[r].pc = "gate"
      /\ UNCHANGED <<clock, webVars, agent, live, offer, paid, restarts, served, fault>>
  BY DEF Gate
<1>2. CASE call[r].payment = offer /\ Proceed(r, "page")
  <2>1. offer # None
    BY <1>1 DEF PurchaseInv, CallFollowsChild
  <2> QED BY <1>1, <1>2, <2>1, CallGoesOn
<1>3. CASE Respond(r, 402, offer, "none")
  <2>1. 402 \in AnswerStatus /\ "none" \in PageData /\ offer \in Offers \cup {None}
    BY DEF AnswerStatus, PageData, TypeOK
  <2> QED BY <1>1, <1>3, <2>1, AnsweredForNothing
<1> QED BY <1>2, <1>3 DEF Gate

\* Only a page that was read goes on to settlement: an error is no status below 400.
LEMMA ReadPageInv ==
  ASSUME TypeOK, PurchaseInv, NEW r \in Requests, ReadPage(r)
  PROVE  TypeOK' /\ PurchaseInv'
<1>1. /\ call[r].pc \notin {"none", "answered", "lost"} /\ call[r].pc \in {"free", "page"}
      /\ UNCHANGED <<clock, webVars, agent, live, offer, paid, restarts, fault>>
  BY DEF ReadPage
<1>2. 500 \in AnswerStatus /\ 200 \in AnswerStatus /\ {"none", "LIVE"} = PageData
      /\ None \in Offers \cup {None}
  BY DEF AnswerStatus, PageData
<1>3. CASE Respond(r, 500, None, "none") /\ UNCHANGED served
  BY <1>1, <1>2, <1>3, AnsweredForNothing
<1>4. CASE Respond(r, 200, None, "LIVE") /\ UNCHANGED served
  BY <1>1, <1>2, <1>4, AnsweredForNothing
<1>5. CASE /\ call[r].pc = "page" /\ served' = served \cup {r}
           /\ call' = [call EXCEPT ![r].pc = "settle", ![r].data = "LIVE"]
  <2>1. /\ RequestInv(r) /\ paid[r] = 0 /\ call[r].status = 0
        /\ agent \in [Requests -> AgentPc] /\ call \in [Requests -> CallRecord]
        /\ agent[r] \notin {"none", "start", "printed"}
        /\ agent[r] = "exited" => r \in fault
        /\ web[r].pc \in {"idle", "run", "done"}
    BY <1>1, CallIsOpen
  <2>2. /\ call' \in [Requests -> CallRecord] /\ \A q \in Requests \ {r} : call'[q] = call[q]
        /\ call'[r].pc = "settle" /\ call'[r].payment = call[r].payment
        /\ call'[r].status = call[r].status /\ call'[r].terms = call[r].terms
        /\ call'[r].data = "LIVE"
    <3> DEFINE f == [call EXCEPT ![r].pc = "settle"]
    <3>1. call' = [f EXCEPT ![r].data = "LIVE"]
      BY <1>5
    <3>2. /\ f \in [Requests -> CallRecord] /\ \A q \in Requests \ {r} : f[q] = call[q]
          /\ f[r].pc = "settle" /\ f[r].payment = call[r].payment
          /\ f[r].status = call[r].status /\ f[r].terms = call[r].terms
      BY <2>1 DEF CallRecord
    <3> HIDE DEF f
    <3> QED BY <3>1, <3>2 DEF CallRecord
  <2>3. OnlyOf(r)
    BY <1>1, <1>5, <2>1, <2>2 DEF OnlyOf, TypeOK
  <2>4. RequestInv(r)'
    BY <1>1, <1>5, <2>1, <2>2
    DEF RequestInv, AnswerFollowsChild, CallFollowsChild, LedgerFollowsCall, webVars
  <2> QED BY <1>1, <2>3, <2>4, OneCall
<1> QED BY <1>3, <1>4, <1>5 DEF ReadPage, PageState, FailureStatus

\* What is settled is the payment of this call, once.
LEMMA SettleInv ==
  ASSUME TypeOK, PurchaseInv, NEW r \in Requests, Settle(r)
  PROVE  TypeOK' /\ PurchaseInv'
<1> DEFINE q == call[r].payment
<1>1. /\ call[r].pc \notin {"none", "answered", "lost"} /\ call[r].pc = "settle"
      /\ UNCHANGED <<clock, webVars, agent, live, offer, restarts, served>>
  BY DEF Settle
<1>2. /\ RequestInv(r) /\ paid[r] = 0 /\ call[r].status = 0
      /\ agent \in [Requests -> AgentPc] /\ call \in [Requests -> CallRecord]
      /\ agent[r] \notin {"none", "start", "printed"}
      /\ agent[r] = "exited" => r \in fault
      /\ web[r].pc \in {"idle", "run", "done"}
      /\ q \in Offers \cup {None}
  BY <1>1, CallIsOpen
<1>3. q # None /\ q.amount \in Nat /\ q.amount > 0 /\ call[r].data = "LIVE" /\ r \in served
  BY <1>1, <1>2, PurchaseAssumption DEF RequestInv, CallFollowsChild, AllowedRequirement
<1>4. 402 \in AnswerStatus /\ 200 \in AnswerStatus /\ "none" \in PageData
      /\ "LIVE" \in PageData /\ None \in Offers \cup {None}
  BY DEF AnswerStatus, PageData
<1>5. CASE Respond(r, 402, None, "none") /\ UNCHANGED <<paid, fault>>
  BY <1>1, <1>4, <1>5, AnsweredForNothing
<1>6. CASE /\ paid' = [paid EXCEPT ![r] = @ + q.amount]
           /\ Respond(r, 200, q, call[r].data) /\ UNCHANGED fault
  <2>1. /\ call' \in [Requests -> CallRecord] /\ \A s \in Requests \ {r} : call'[s] = call[s]
        /\ call'[r].pc = "answered" /\ call'[r].payment = q
        /\ call'[r].status = 200 /\ call'[r].terms = q /\ call'[r].data = "LIVE"
    BY <1>2, <1>3, <1>4, <1>6, RespondTyped
  <2>2. /\ paid' \in [Requests -> Nat] /\ paid'[r] = q.amount
        /\ \A s \in Requests \ {r} : paid'[s] = paid[s]
    <3> HIDE DEF q
    <3> QED BY <1>2, <1>3, <1>6 DEF TypeOK
  <2> HIDE DEF q
  <2>3. OnlyOf(r)
    BY <1>1, <1>2, <1>6, <2>1, <2>2 DEF OnlyOf, TypeOK
  <2>4. RequestInv(r)'
    BY <1>1, <1>2, <1>3, <1>6, <2>1, <2>2
    DEF RequestInv, AnswerFollowsChild, CallFollowsChild, LedgerFollowsCall, webVars, q
  <2> QED BY <1>1, <2>3, <2>4, OneCall
<1>7. CASE /\ paid' = [paid EXCEPT ![r] = @ + q.amount]
           /\ Respond(r, 402, None, "none") /\ fault' = fault \cup {r}
  <2>1. /\ call' \in [Requests -> CallRecord] /\ \A s \in Requests \ {r} : call'[s] = call[s]
        /\ call'[r].pc = "answered" /\ call'[r].payment = q
        /\ call'[r].status = 402 /\ call'[r].terms = None
    <3> DEFINE status == 402
               terms == None
               data == "none"
    <3>1. Respond(r, status, terms, data) /\ status \in AnswerStatus
          /\ terms \in Offers \cup {None} /\ data \in PageData
      BY <1>4, <1>7
    <3> HIDE DEF status, terms, data
    <3>2. /\ call' \in [Requests -> CallRecord] /\ \A s \in Requests \ {r} : call'[s] = call[s]
          /\ call'[r].pc = "answered" /\ call'[r].payment = q
          /\ call'[r].status = status /\ call'[r].terms = terms
      BY <1>2, <3>1, RespondTyped
    <3> QED BY <3>2 DEF status, terms
  <2>2. /\ paid' \in [Requests -> Nat] /\ paid'[r] = q.amount
        /\ \A s \in Requests \ {r} : paid'[s] = paid[s]
    <3> HIDE DEF q
    <3> QED BY <1>2, <1>3, <1>7 DEF TypeOK
  <2> HIDE DEF q
  <2>3. OnlyOf(r)
    BY <1>1, <1>2, <1>7, <2>1, <2>2 DEF OnlyOf, TypeOK
  <2>4. RequestInv(r)'
    BY <1>1, <1>2, <1>3, <1>7, <2>1, <2>2
    DEF RequestInv, AnswerFollowsChild, CallFollowsChild, LedgerFollowsCall, webVars, q
  <2> QED BY <1>1, <2>3, <2>4, OneCall
<1> QED BY <1>5, <1>6, <1>7 DEF Settle

-----------------------------------------------------------------------------
(* Steps of the route of the web application.                              *)

\* The answer is 200 for a child that printed, and nothing else changes but the cookie.
LEMMA AnswerInv ==
  ASSUME TypeOK, PurchaseInv, NEW r \in Requests, Answer(r)
  PROVE  TypeOK' /\ PurchaseInv'
<1> DEFINE status == IF agent[r] = "printed" THEN 200 ELSE 502
<1>1. /\ web[r].pc = "run" /\ agent[r] \in {"printed", "exited"}
      /\ UNCHANGED <<clock, maxAttempts, attempts, last, agent, call, live, offer, paid, restarts,
                     served, fault>>
  BY DEF Answer
<1>2. web \in [Requests -> WebRecord] /\ cookie \in [Browsers -> Requests \cup {None}]
      /\ RequestInv(r)
  BY DEF TypeOK, PurchaseInv, RequestInv
<1>3. /\ web' \in [Requests -> WebRecord] /\ web'[r].pc = "done" /\ web'[r].status = status
      /\ web'[r].at = web[r].at /\ web'[r].session = web[r].session
      /\ web'[r].goods = web[r].goods
      /\ \A q \in Requests \ {r} : web'[q] = web[q]
  <2> DEFINE f == [web EXCEPT ![r].pc = "done"]
  <2>1. web' = [f EXCEPT ![r].status = status]
    BY DEF Answer
  <2>2. status \in {0, 200, 400, 403, 429, 502}
    OBVIOUS
  <2>3. /\ f \in [Requests -> WebRecord] /\ f[r].pc = "done"
        /\ f[r].at = web[r].at /\ f[r].session = web[r].session /\ f[r].goods = web[r].goods
        /\ \A q \in Requests \ {r} : f[q] = web[q]
    BY <1>2 DEF WebRecord
  <2> HIDE DEF f, status
  <2> QED BY <2>1, <2>2, <2>3 DEF WebRecord
<1>4. cookie' \in [Browsers -> Requests \cup {None}]
  <2>1. web[r].session \in Requests \cup {None}
    BY <1>2 DEF WebRecord
  <2> QED BY <1>2, <2>1 DEF Answer
<1>5. TypeOK'
  BY <1>1, <1>3, <1>4 DEF TypeOK
<1>6. LimiterInv' /\ CooldownIsKept'
  BY <1>1, <1>3, LimiterKept DEF PurchaseInv
<1>7. ASSUME NEW q \in Requests PROVE RequestInv(q)'
  <2>1. CASE q = r
    BY <1>1, <1>2, <1>3, <2>1
    DEF RequestInv, AnswerFollowsChild, CallFollowsChild, LedgerFollowsCall
  <2>2. CASE q # r
    BY <1>1, <1>3, <2>2
    DEF PurchaseInv, RequestInv, AnswerFollowsChild, CallFollowsChild, LedgerFollowsCall
  <2> QED BY <2>1, <2>2
<1> QED BY <1>5, <1>6, <1>7 DEF PurchaseInv, RequestInv

\* A POST that is refused reserves nothing.
LEMMA RefusedInv ==
  ASSUME TypeOK, PurchaseInv, NEW r \in Requests, web[r].pc = "idle", NEW w \in WebRecord,
         w.pc = "done", w.at = None, w.status \in {400, 403, 429},
         web' = [web EXCEPT ![r] = w],
         UNCHANGED <<clock, maxAttempts, attempts, last, agent, cookie, call, live, offer, paid,
                     restarts, served, fault>>
  PROVE  TypeOK' /\ PurchaseInv'
<1>1. /\ web' \in [Requests -> WebRecord] /\ web'[r] = w
      /\ \A q \in Requests \ {r} : web'[q] = web[q]
  BY DEF TypeOK
<1>2. TypeOK'
  BY <1>1 DEF TypeOK
<1>3. RequestInv(r) /\ agent[r] = "none" /\ web[r].at = None
  BY DEF PurchaseInv, RequestInv, AnswerFollowsChild
<1>4. \A q \in Requests : web'[q].at # None => q # r /\ web'[q] = web[q] /\ web[q].at # None
  BY <1>1
<1>5. LimiterInv'
  <2>1. Attempted' = Attempted
    BY <1>1, <1>3 DEF Attempted
  <2>2. ASSUME NEW q \in Requests PROVE AttemptIsRemembered(q)'
    <3>1. AttemptIsRemembered(q)
      BY DEF PurchaseInv, LimiterInv
    <3> QED BY <1>4, <3>1 DEF AttemptIsRemembered
  <2> QED BY <2>1, <2>2 DEF PurchaseInv, LimiterInv
<1>6. CooldownIsKept'
  BY <1>4 DEF PurchaseInv, CooldownIsKept
<1>7. ASSUME NEW q \in Requests PROVE RequestInv(q)'
  <2>1. CASE q = r
    BY <1>1, <1>3, <2>1
    DEF RequestInv, AnswerFollowsChild, CallFollowsChild, LedgerFollowsCall
  <2>2. CASE q # r
    BY <1>1, <2>2
    DEF PurchaseInv, RequestInv, AnswerFollowsChild, CallFollowsChild, LedgerFollowsCall
  <2> QED BY <2>1, <2>2
<1> QED BY <1>2, <1>5, <1>6, <1>7 DEF PurchaseInv, RequestInv

\* A POST that is let through is a new attempt, a cooldown after all that share its session
\* and goods.
LEMMA ReservedInv ==
  ASSUME TypeOK, PurchaseInv, NEW r \in Requests, web[r].pc = "idle", NEW w \in WebRecord,
         w.pc = "run", w.at = clock, w.status = 0, w.session \in Requests, w.goods \in Goods,
         Reservable(w.session, w.goods), Record(w.session, w.goods),
         web' = [web EXCEPT ![r] = w], agent' = [agent EXCEPT ![r] = "start"],
         UNCHANGED <<clock, maxAttempts, cookie, call, live, offer, paid, restarts, served, fault>>
  PROVE  TypeOK' /\ PurchaseInv'
<1> DEFINE k == <<w.session, w.goods>>
<1>1. /\ web' \in [Requests -> WebRecord] /\ web'[r] = w
      /\ \A q \in Requests \ {r} : web'[q] = web[q]
  BY DEF TypeOK
<1>2. /\ agent' \in [Requests -> AgentPc] /\ agent'[r] = "start"
      /\ \A q \in Requests \ {r} : agent'[q] = agent[q]
  <2>1. agent \in [Requests -> AgentPc] /\ "start" \in AgentPc
    BY DEF TypeOK, AgentPc
  <2> QED BY <2>1, StoreAgent
<1>3. RequestInv(r) /\ agent[r] = "none" /\ web[r].at = None
  BY DEF PurchaseInv, RequestInv, AnswerFollowsChild
<1>4. clock \in 0..MaxClock /\ clock \in Nat /\ attempts \in 0..maxAttempts /\ maxAttempts \in Nat
      /\ clock # None /\ Cooldown \in Nat
  BY PurchaseAssumption DEF TypeOK
<1>5. k \in Requests \X Goods /\ last \in [Requests \X Goods -> (0..MaxClock) \cup {None}]
  BY DEF TypeOK
<1>6. /\ last' \in [Requests \X Goods -> (0..MaxClock) \cup {None}]
      /\ last'[k] = clock
      /\ \A j \in Requests \X Goods : j # k => last'[j] = last[j]
  <2>1. last' = [last EXCEPT ![k] = clock]
    BY DEF Record
  <2> HIDE DEF k
  <2> QED BY <1>4, <1>5, <2>1
<1>7. attempts' = attempts + 1 /\ attempts' \in 0..maxAttempts
  BY <1>4 DEF Record, Reservable
<1>8. TypeOK'
  BY <1>1, <1>2, <1>6, <1>7 DEF TypeOK, AgentPc
<1>9. last[k] # None => clock - last[k] >= Cooldown
  BY DEF Reservable
<1> HIDE DEF k
<1>10. ASSUME NEW q \in Requests, web[q].at # None
       PROVE  /\ <<web[q].session, web[q].goods>> \in Requests \X Goods
              /\ web[q].session \in Requests /\ web[q].goods \in Goods
              /\ last[<<web[q].session, web[q].goods>>] # None
              /\ web[q].at <= last[<<web[q].session, web[q].goods>>]
              /\ last[<<web[q].session, web[q].goods>>] <= clock
              /\ web[q].at \in Nat /\ last[<<web[q].session, web[q].goods>>] \in Nat
  <2>1. AttemptIsRemembered(q)
    BY DEF PurchaseInv, LimiterInv
  <2>2. web[q].at \in (0..MaxClock) \cup {None}
    BY DEF TypeOK, WebRecord
  <2>3. web[q].session \in Requests /\ web[q].goods \in Goods
        /\ last[<<web[q].session, web[q].goods>>] # None
        /\ web[q].at <= last[<<web[q].session, web[q].goods>>]
    BY <1>10, <2>1 DEF AttemptIsRemembered
  <2>4. last[<<web[q].session, web[q].goods>>] \in (0..MaxClock) \cup {None}
    BY <1>5, <2>3
  <2>5. last[<<web[q].session, web[q].goods>>] <= clock
    BY <2>3 DEF PurchaseInv, LimiterInv
  <2> QED BY <1>10, <2>2, <2>3, <2>4, <2>5
<1>11. LimiterInv'
  <2>1. ASSUME NEW q \in Requests PROVE AttemptIsRemembered(q)'
    <3>1. CASE q = r
      BY <1>1, <1>4, <1>6, <3>1 DEF AttemptIsRemembered, k
    <3>2. CASE q # r /\ web[q].at # None
      <4> DEFINE j == <<web[q].session, web[q].goods>>
      <4>1. j \in Requests \X Goods /\ web[q].at <= last[j] /\ last[j] <= clock
            /\ web[q].at \in Nat /\ last[j] \in Nat /\ last[j] # None
        BY <1>10, <3>2
      <4> HIDE DEF j
      <4>2. last'[j] # None /\ web[q].at <= last'[j]
        BY <1>4, <1>6, <4>1
      <4> QED BY <1>1, <1>10, <3>2, <4>2 DEF AttemptIsRemembered, j
    <3>3. CASE q # r /\ web[q].at = None
      BY <1>1, <3>3 DEF AttemptIsRemembered
    <3> QED BY <3>1, <3>2, <3>3
  <2>2. \A j \in Requests \X Goods : last'[j] # None => last'[j] <= clock'
    BY <1>4, <1>6 DEF PurchaseInv, LimiterInv
  <2>3. IsFiniteSet(Attempted') /\ Cardinality(Attempted') = attempts'
    <3>1. Attempted' = Attempted \cup {r} /\ r \notin Attempted
      BY <1>1, <1>3, <1>4 DEF Attempted
    <3>2. IsFiniteSet(Attempted) /\ Cardinality(Attempted) = attempts
      BY DEF PurchaseInv, LimiterInv
    <3> QED BY <1>7, <3>1, <3>2, FS_AddElement
  <2> QED BY <2>1, <2>2, <2>3 DEF LimiterInv
<1>12. CooldownIsKept'
  <2>1. ASSUME NEW q \in Requests \ {r}, web[q].at # None,
               web[q].session = w.session, web[q].goods = w.goods
        PROVE  clock - web[q].at >= Cooldown
    <3>1. /\ web[q].at <= last[k] /\ last[k] # None /\ last[k] <= clock
          /\ web[q].at \in Nat /\ last[k] \in Nat
      BY <1>10, <2>1 DEF k
    <3> QED BY <1>4, <1>9, <3>1
  <2>2. ASSUME NEW q \in Requests, NEW s \in Requests, q # s,
               web'[q].at # None, web'[s].at # None,
               web'[q].session = web'[s].session, web'[q].goods = web'[s].goods
        PROVE  web'[q].at - web'[s].at >= Cooldown \/ web'[s].at - web'[q].at >= Cooldown
    <3>1. CASE q = r
      BY <1>1, <2>1, <2>2, <3>1
    <3>2. CASE s = r
      BY <1>1, <2>1, <2>2, <3>2
    <3>3. CASE q # r /\ s # r
      BY <1>1, <2>2, <3>3 DEF PurchaseInv, CooldownIsKept
    <3> QED BY <3>1, <3>2, <3>3
  <2> QED BY <2>2 DEF CooldownIsKept
<1>13. ASSUME NEW q \in Requests PROVE RequestInv(q)'
  <2>1. CASE q = r
    BY <1>1, <1>2, <1>3, <1>4, <2>1
    DEF RequestInv, AnswerFollowsChild, CallFollowsChild, LedgerFollowsCall
  <2>2. CASE q # r
    BY <1>1, <1>2, <2>2
    DEF PurchaseInv, RequestInv, AnswerFollowsChild, CallFollowsChild, LedgerFollowsCall
  <2> QED BY <2>1, <2>2
<1> QED BY <1>8, <1>11, <1>12, <1>13 DEF PurchaseInv, RequestInv

LEMMA BuyInv ==
  ASSUME TypeOK, PurchaseInv, NEW b \in Browsers, NEW r \in Requests, NEW goods \in Goods,
         NEW post \in Posts, Buy(b, r, goods, post)
  PROVE  TypeOK' /\ PurchaseInv'
<1> DEFINE session == IF cookie[b] = None THEN r ELSE cookie[b]
           w == [pc |-> "done", browser |-> b, session |-> session, goods |-> goods,
                 at |-> None, status |-> 0]
<1>1. session \in Requests
  BY DEF TypeOK
<1>2. web[r].pc = "idle"
      /\ UNCHANGED <<clock, maxAttempts, cookie, call, live, offer, paid, restarts, served, fault>>
  BY DEF Buy
<1>3. Refusal(post) # None => Refusal(post) \in {400, 403}
  BY DEF Refusal
<1>4. ASSUME NEW status \in {400, 403, 429}, web' = [web EXCEPT ![r] = [w EXCEPT !.status = status]],
             UNCHANGED <<attempts, last, agent>>
      PROVE  TypeOK' /\ PurchaseInv'
  <2> DEFINE x == [w EXCEPT !.status = status]
  <2>1. x = [pc |-> "done", browser |-> b, session |-> session, goods |-> goods,
             at |-> None, status |-> status]
    OBVIOUS
  <2> HIDE DEF session, x
  <2>2. x \in WebRecord /\ x.pc = "done" /\ x.at = None /\ x.status = status
    BY <1>1, <2>1 DEF WebRecord
  <2> QED BY <1>2, <1>4, <2>2, RefusedInv DEF x
<1>5. CASE Refusal(post) # None
  BY <1>3, <1>4, <1>5 DEF Buy
<1>6. CASE Refusal(post) = None /\ Reservable(session, goods)
  <2> DEFINE w1 == [w EXCEPT !.pc = "run"]
             x == [w1 EXCEPT !.at = clock]
  <2>1. w1 = [pc |-> "run", browser |-> b, session |-> session, goods |-> goods,
              at |-> None, status |-> 0]
    OBVIOUS
  <2>2. /\ web' = [web EXCEPT ![r] = x] /\ Record(session, goods)
        /\ agent' = [agent EXCEPT ![r] = "start"]
    BY <1>6 DEF Buy
  <2> HIDE DEF session, w1
  <2>3. x = [pc |-> "run", browser |-> b, session |-> session, goods |-> goods,
             at |-> clock, status |-> 0]
    BY <2>1
  <2> HIDE DEF x
  <2>4. clock \in 0..MaxClock
    BY DEF TypeOK
  <2>5. x \in WebRecord /\ x.pc = "run" /\ x.at = clock /\ x.status = 0
        /\ x.session = session /\ x.goods = goods
    BY <1>1, <2>3, <2>4 DEF WebRecord
  <2> QED BY <1>1, <1>2, <1>6, <2>2, <2>5, ReservedInv
<1>7. CASE Refusal(post) = None /\ ~Reservable(session, goods)
  BY <1>4, <1>7 DEF Buy
<1> QED BY <1>5, <1>6, <1>7

-----------------------------------------------------------------------------
(* Restarts, time, and the invariant.                                      *)

\* A restart loses the calls at work, before any of them is settled.
LEMMA ApiRestartsInv ==
  ASSUME TypeOK, PurchaseInv, NEW o \in Offers, ApiRestarts(o)
  PROVE  TypeOK' /\ PurchaseInv'
<1> DEFINE open == {r \in Requests : call[r].pc \notin {"none", "answered", "lost"}}
           gone == [NoCall EXCEPT !.pc = "lost"]
<1>1. /\ call' = [r \in Requests |-> IF r \in open THEN gone ELSE call[r]]
      /\ agent' = [r \in Requests |->
           IF r \in open /\ agent[r] \in {"asked", "paying"} THEN "exited" ELSE agent[r]]
      /\ fault' = fault \cup open /\ offer' = o /\ restarts' = restarts + 1
      /\ restarts < MaxRestarts
      /\ UNCHANGED <<clock, webVars, live, paid, served>>
  BY DEF ApiRestarts
<1>2. gone = [pc |-> "lost", payment |-> None, status |-> 0, terms |-> None, data |-> "none"]
  BY DEF NoCall
<1> HIDE DEF gone
<1>3. gone \in CallRecord /\ gone.pc = "lost" /\ gone.payment = None /\ gone.status = 0
      /\ gone.terms = None
  BY <1>2 DEF CallRecord
<1>4. ASSUME NEW r \in Requests, r \in open
      PROVE  RequestInv(r)'
  <2>1. /\ RequestInv(r) /\ paid[r] = 0 /\ call[r].status = 0
        /\ agent \in [Requests -> AgentPc] /\ agent[r] \notin {"none", "start", "printed"}
        /\ agent[r] = "exited" => r \in fault
        /\ web[r].pc \in {"idle", "run", "done"}
    BY <1>4, CallIsOpen
  <2>2. agent'[r] = "exited" /\ call'[r] = gone /\ r \in fault'
    BY <1>1, <1>4, <2>1 DEF AgentPc
  <2>3. web' = web /\ paid' = paid /\ served' = served
    BY <1>1 DEF webVars
  <2> QED BY <1>3, <2>1, <2>2, <2>3
      DEF RequestInv, AnswerFollowsChild, CallFollowsChild, LedgerFollowsCall
<1>5. ASSUME NEW r \in Requests, r \notin open
      PROVE  RequestInv(r)'
  <2>1. RequestInv(r)
    BY DEF PurchaseInv, RequestInv
  <2>2. /\ agent'[r] = agent[r] /\ call'[r] = call[r] /\ (r \in fault' <=> r \in fault)
        /\ web' = web /\ paid' = paid /\ served' = served
    BY <1>1, <1>5 DEF webVars
  <2>3. call[r].pc \in {"none", "answered", "lost"}
    BY <1>5
  <2> QED BY <2>1, <2>2, <2>3
      DEF RequestInv, AnswerFollowsChild, CallFollowsChild, LedgerFollowsCall
<1>6. call' \in [Requests -> CallRecord] /\ agent' \in [Requests -> AgentPc]
  BY <1>1, <1>3 DEF TypeOK, AgentPc
<1>7. restarts' \in 0..MaxRestarts /\ fault' \in SUBSET Requests /\ offer' \in Offers
  BY <1>1, PurchaseAssumption DEF TypeOK
<1>8. TypeOK'
  BY <1>1, <1>6, <1>7 DEF TypeOK, AgentPc, webVars
<1>9. LimiterInv' /\ CooldownIsKept'
  BY <1>1, LimiterKept DEF PurchaseInv, webVars
<1> QED BY <1>4, <1>5, <1>8, <1>9 DEF PurchaseInv, RequestInv

\* Time goes on and datasets come and go; neither touches a purchase.
LEMMA WorldInv ==
  ASSUME TypeOK, PurchaseInv, Tick \/ LiveChanges
  PROVE  TypeOK' /\ PurchaseInv'
<1>1. UNCHANGED <<webVars, agent, call, offer, paid, restarts, served, fault>>
  BY DEF Tick, LiveChanges
<1>2. clock' \in 0..MaxClock /\ clock <= clock' /\ live' \in BOOLEAN
  <2>1. MaxClock \in Nat /\ clock \in 0..MaxClock /\ live \in BOOLEAN
    BY PurchaseAssumption DEF TypeOK
  <2>2. CASE Tick
    BY <2>1, <2>2 DEF Tick
  <2>3. CASE LiveChanges
    BY <2>1, <2>3 DEF LiveChanges
  <2> QED BY <2>2, <2>3
<1>3. TypeOK'
  BY <1>1, <1>2 DEF TypeOK, webVars
<1>4. ASSUME NEW r \in Requests PROVE RequestInv(r)'
  BY <1>1 DEF PurchaseInv, RequestInv, AnswerFollowsChild, CallFollowsChild, LedgerFollowsCall,
              webVars
<1>5. LimiterInv'
  <2>1. \A r \in Requests : AttemptIsRemembered(r)'
    BY <1>1 DEF PurchaseInv, LimiterInv, AttemptIsRemembered, webVars
  <2>2. ASSUME NEW k \in Requests \X Goods, last[k] # None PROVE last[k] <= clock'
    <3>1. last[k] \in 0..MaxClock /\ clock \in 0..MaxClock /\ MaxClock \in Nat
      BY <2>2, PurchaseAssumption DEF TypeOK
    <3>2. last[k] <= clock
      BY <2>2 DEF PurchaseInv, LimiterInv
    <3> QED BY <1>2, <3>1, <3>2
  <2>3. Attempted' = Attempted /\ attempts' = attempts /\ last' = last
    BY <1>1 DEF Attempted, webVars
  <2> QED BY <2>1, <2>2, <2>3 DEF PurchaseInv, LimiterInv
<1>6. CooldownIsKept'
  BY <1>1 DEF PurchaseInv, CooldownIsKept, webVars
<1> QED BY <1>3, <1>4, <1>5, <1>6 DEF PurchaseInv, RequestInv

LEMMA InitInv ==
  ASSUME Init
  PROVE  TypeOK /\ PurchaseInv
<1>1. NoPost \in WebRecord /\ NoPost.pc = "idle" /\ NoPost.at = None /\ NoPost.status = 0
  BY DEF NoPost, WebRecord
<1>2. /\ NoCall \in CallRecord /\ NoCall.pc = "none" /\ NoCall.payment = None
      /\ NoCall.status = 0 /\ NoCall.terms = None
  BY DEF NoCall, CallRecord
<1>3. maxAttempts \in 1..100
  BY DEF Init, BoundedInteger
<1>4. TypeOK
  <2>1. /\ clock = 0 /\ attempts = 0 /\ restarts = 0
        /\ 0 \in 0..MaxClock /\ 0 \in 0..maxAttempts /\ 0 \in 0..MaxRestarts
    BY <1>3, PurchaseAssumption DEF Init
  <2>2. /\ web \in [Requests -> WebRecord] /\ call \in [Requests -> CallRecord]
        /\ last \in [Requests \X Goods -> (0..MaxClock) \cup {None}]
        /\ cookie \in [Browsers -> Requests \cup {None}]
        /\ agent \in [Requests -> AgentPc] /\ paid \in [Requests -> Nat]
    BY <1>1, <1>2 DEF Init, AgentPc
  <2>3. live \in BOOLEAN /\ offer \in Offers /\ served = {} /\ fault = {}
    BY DEF Init
  <2> QED BY <1>3, <2>1, <2>2, <2>3 DEF TypeOK, AgentPc
<1>5. ASSUME NEW r \in Requests PROVE RequestInv(r)
  BY <1>1, <1>2 DEF Init, RequestInv, AnswerFollowsChild, CallFollowsChild, LedgerFollowsCall
<1>6. LimiterInv
  <2>1. Attempted = {}
    BY <1>1 DEF Init, Attempted
  <2>2. \A r \in Requests : AttemptIsRemembered(r)
    BY <1>1 DEF Init, AttemptIsRemembered
  <2> QED BY <2>1, <2>2, FS_EmptySet DEF Init, LimiterInv
<1>7. CooldownIsKept
  BY <1>1 DEF Init, CooldownIsKept
<1> QED BY <1>4, <1>5, <1>6, <1>7 DEF PurchaseInv, RequestInv

LEMMA NextInv ==
  ASSUME TypeOK, PurchaseInv, [Next]_vars
  PROVE  TypeOK' /\ PurchaseInv'
<1>1. ASSUME NEW r \in Requests, Answer(r) \/ Timeout(r) \/ AgentStep(r) \/ ApiStep(r)
      PROVE  TypeOK' /\ PurchaseInv'
  BY <1>1, AnswerInv, ChildEnds, AskInv, PayInv, FinishInv, CheckLiveInv, GateInv, ReadPageInv,
     SettleInv DEF AgentStep, ApiStep
<1>2. CASE UNCHANGED vars
  BY <1>2 DEF vars, webVars, TypeOK, PurchaseInv, AnswerFollowsChild, CallFollowsChild,
              LedgerFollowsCall, LimiterInv, AttemptIsRemembered, Attempted, CooldownIsKept
<1> QED BY <1>1, <1>2, BuyInv, ApiRestartsInv, WorldInv DEF Next

\* Limiter, child, call and ledger fit together, as PurchaseInv says (demo-purchase.ts, the
\* consumer agent and the paid routes).
THEOREM PurchaseFitsTogether == Spec => [](TypeOK /\ PurchaseInv)
<1>1. Init => TypeOK /\ PurchaseInv
  BY InitInv
<1>2. TypeOK /\ PurchaseInv /\ [Next]_vars => TypeOK' /\ PurchaseInv'
  BY NextInv
<1> QED BY <1>1, <1>2, PTL DEF Spec

\* Every variable of a purchase keeps its type, and attempts never exceed their limit.
THEOREM PurchaseTypeCorrect == Spec => []TypeOK
BY PurchaseFitsTogether, PTL

\* Money goes to the configured recipient, once and within the limit of the agent.
THEOREM PaymentsAreExpected == Spec => []PaysOnlyExpected
<1>1. TypeOK /\ PurchaseInv => PaysOnlyExpected
  <2> SUFFICES ASSUME TypeOK, PurchaseInv, NEW r \in Requests, paid[r] > 0
               PROVE  call[r].payment \in Payable /\ paid[r] = call[r].payment.amount
    BY DEF PaysOnlyExpected
  <2>1. CallFollowsChild(r) /\ LedgerFollowsCall(r)
    BY DEF PurchaseInv
  <2>2. call[r].payment \in Offers \cup {None}
    BY DEF TypeOK, CallRecord
  <2>3. call[r].payment # None /\ paid[r] = call[r].payment.amount
    BY <2>1 DEF CallFollowsChild, LedgerFollowsCall
  <2>4. AllowedRequirement(call[r].payment)
    BY <2>1, <2>3 DEF CallFollowsChild
  <2> QED BY <2>2, <2>3, <2>4, PurchaseAssumption DEF AllowedRequirement, Payable
<1> QED BY <1>1, PurchaseFitsTogether, PTL

\* A charge is for a page read in the same call, and its answer carries page and receipt or
\* the facilitator's answer was lost.
THEOREM ChargesAreForPages == Spec => []ChargedForAPage
<1>1. TypeOK /\ PurchaseInv => ChargedForAPage
  BY DEF ChargedForAPage, PurchaseInv, LedgerFollowsCall
<1> QED BY <1>1, PurchaseFitsTogether, PTL

\* A purchase shown as one was settled.
THEOREM ShownIsPaid == Spec => []SuccessIsPaid
<1>1. TypeOK /\ PurchaseInv => SuccessIsPaid
  <2> SUFFICES ASSUME TypeOK, PurchaseInv, NEW r \in Requests, web[r].status = 200
               PROVE  paid[r] > 0
    BY DEF SuccessIsPaid
  <2>1. web[r].pc \in {"idle", "run", "done"}
    BY DEF TypeOK, WebRecord
  <2> QED BY <2>1 DEF PurchaseInv, AnswerFollowsChild, LedgerFollowsCall
<1> QED BY <1>1, PurchaseFitsTogether, PTL

\* A settled purchase is shown as one, unless a timeout or a fault met it.
THEOREM SettledIsShown == Spec => []PaidIsShown
<1>1. TypeOK /\ PurchaseInv => PaidIsShown
  <2> SUFFICES ASSUME TypeOK, PurchaseInv, NEW r \in Requests,
                      paid[r] > 0, web[r].pc = "done", r \notin fault
               PROVE  web[r].status = 200
    BY DEF PaidIsShown
  <2>1. paid[r] \in Nat /\ AnswerFollowsChild(r) /\ CallFollowsChild(r) /\ LedgerFollowsCall(r)
    BY DEF TypeOK, PurchaseInv
  <2>2. agent[r] # "none"
    BY <2>1 DEF CallFollowsChild, NoCall
  <2>3. agent[r] # "exited"
    BY <2>1 DEF LedgerFollowsCall
  <2> QED BY <2>1, <2>2, <2>3 DEF AnswerFollowsChild
<1> QED BY <1>1, PurchaseFitsTogether, PTL

\* Two attempts of a session at the same goods are a cooldown apart.
THEOREM AttemptsAreApart == Spec => []CooldownIsKept
<1>1. TypeOK /\ PurchaseInv => CooldownIsKept
  BY DEF PurchaseInv
<1> QED BY <1>1, PurchaseFitsTogether, PTL

\* No more requests are charged than the process lets through, and none more than once or
\* for more than the agent pays.
LEMMA ChargesStayBounded ==
  ASSUME TypeOK, PurchaseInv
  PROVE  /\ Attempted \in SUBSET Requests /\ IsFiniteSet(Attempted)
         /\ Cardinality(Attempted) <= maxAttempts
         /\ \A r \in Requests : paid[r] <= MaxAmount
         /\ \A r \in Requests \ Attempted : paid[r] = 0
<1>1. ASSUME NEW r \in Requests
      PROVE  paid[r] <= MaxAmount /\ (paid[r] # 0 => r \in Attempted)
  <2>1. paid[r] \in Nat /\ AnswerFollowsChild(r) /\ CallFollowsChild(r) /\ LedgerFollowsCall(r)
    BY DEF TypeOK, PurchaseInv
  <2>2. CASE paid[r] = 0
    BY <2>2, PurchaseAssumption
  <2>3. CASE paid[r] > 0
    <3>1. call[r].payment # None /\ paid[r] = call[r].payment.amount
      BY <2>1, <2>3 DEF CallFollowsChild, LedgerFollowsCall
    <3>2. paid[r] <= MaxAmount
      BY <2>1, <3>1, PurchaseAssumption DEF CallFollowsChild, AllowedRequirement
    <3>3. agent[r] # "none"
      BY <2>1, <3>1 DEF CallFollowsChild, NoCall
    <3> QED BY <2>1, <3>2, <3>3 DEF AnswerFollowsChild, Attempted
  <2> QED BY <2>1, <2>2, <2>3
<1>2. Attempted \in SUBSET Requests /\ IsFiniteSet(Attempted)
      /\ Cardinality(Attempted) <= maxAttempts
  BY DEF Attempted, PurchaseInv, LimiterInv, TypeOK
<1> QED BY <1>1, <1>2

\* The demo payer loses at most the attempts of the process times the largest amount of the
\* agent, for every limit, amount and number of POSTs.
THEOREM SpendingStaysBounded == Spec => []SpendingIsBounded
<1>1. TypeOK /\ PurchaseInv => SpendingIsBounded
  <2> SUFFICES ASSUME TypeOK, PurchaseInv PROVE SpendingIsBounded
    OBVIOUS
  <2>1. MapThenSumSet(LAMBDA r : paid[r], Requests) = SumOver(paid, Requests)
    BY DEF MapThenSumSet, MapThenFoldSet, SumOver, Sums, Rep
  <2>2. paid \in [Requests -> Nat] /\ maxAttempts \in Nat /\ MaxAmount \in Nat
    BY PurchaseAssumption DEF TypeOK
  <2>3. SumOver(paid, Requests) <= maxAttempts * MaxAmount
    BY <2>2, ChargesStayBounded, FiniteRequests, BoundedSum
  <2> QED BY <2>1, <2>3 DEF SpendingIsBounded
<1> QED BY <1>1, PurchaseFitsTogether, PTL

=============================================================================
