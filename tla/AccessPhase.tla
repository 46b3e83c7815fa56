----------------------------- MODULE AccessPhase -----------------------------
(* What a location answers, quotes, forwards and counts:                     *)
(* l402_access_handler_wrapper, handle_dry_run_passthrough and the           *)
(* functions that send a 402 (src/src/lib.rs), over the counters of          *)
(* src/src/metrics.rs and the prices an operator keeps in Redis.             *)
(*                                                                           *)
(* The counters are one block in shared memory: every worker adds to them,   *)
(* one relaxed fetch_add at a time, and a scrape may fall between any two.   *)
(* Each increment is therefore a step of its own.  The verdict of the        *)
(* handler itself (modules PreimageGate and CashuGate) is any of the         *)
(* outcomes it has for the credential, with the payment method it leaves in  *)
(* LAST_PAYMENT_METHOD; only the comparison of a Cashu token with the price  *)
(* is made here.                                                             *)
EXTENDS Integers, FiniteSets, Functions

CONSTANTS
  Worker,
  Locations,    \* the locations of the configuration, as Location records
  MsatPerSat,   \* MSAT_PER_SAT, scaled down
  Offers,       \* prices the operator may keep in Redis; 0: none
  Faults,       \* "crash": a worker dies; "panic": building a challenge panics
  MaxRequests,  \* bound: requests that arrive at a paid location
  MaxChanges,   \* bound: price changes and Redis outages
  MaxDeaths     \* bound: workers that die

Http == {"GET", "HEAD"}

(* The directives the handler reads, merged (module LocationMerge); `price'  *)
(* is l402_amount_msat_default and `timeout' l402_macaroon_timeout.          *)
Location ==
  [on : BOOLEAN, exempt : SUBSET Http, price : Int, timeout : Int,
   mode : {"enforce", "dryRun"}, auto : BOOLEAN, limited : BOOLEAN]

ASSUME PhaseAssumption ==
  /\ IsFiniteSet(Worker)
  /\ Locations \subseteq Location
  /\ MsatPerSat \in Nat \ {0}
  /\ Offers \subseteq Int
  /\ Faults \subseteq {"crash", "panic"}
  /\ MaxRequests \in Nat /\ MaxChanges \in Nat /\ MaxDeaths \in Nat

Metric ==
  {"Requests", "ChallengesIssued", "PaymentsValid", "PaymentsLightning",
   "PaymentsCashu", "PaymentsInvalid", "PaymentsMissing", "InvoicesGenerated",
   "InvoicesErrors", "RateLimited", "DryRunRequests", "DryRunWouldBlock",
   "DryRunWouldAllow", "DryRunErrors", "DryRunRateLimited"}

Mode == {"enforce", "dryRun"}
Status == {"declined", "400", "401", "402", "429", "500", "503", "broken"}

(* What a request carries: nothing (or another scheme's credential), an L402 *)
(* token with its preimage or without, a Cashu token in Authorization or in  *)
(* X-Cashu, or the Cashu token that the last quote asked for.                *)
Kind == {"none", "l402", "bare", "cashu", "quoted"}

Places ==
  {"arrived", "handle", "count", "method", "limit", "invoice", "send",
   "shadow", "shadowCount", "shadowLimited", "shadowChallenge"}

Idle == [at |-> "idle"]
NoQuote == [version |-> 0]

VARIABLES
  counter,      \* the shared counters
  request,      \* request[w]: the one request the worker is in, or Idle
  lastMethod,   \* LAST_PAYMENT_METHOD of the worker's thread
  answered,     \* answered[mode][status]: the answers nginx got so far
  lost,         \* lost[place]: requests whose worker died there
  arrivals,     \* requests that arrived at a paid location
  redis,        \* the price key and whether Redis answers; version: changes so far
  quote,        \* the last quote a client was sent
  forwarded     \* <<why, sent>> of the upstream's requests of paid locations (history)

clients == <<arrivals, redis, quote>>
vars == <<counter, request, lastMethod, answered, lost, clients, forwarded>>

Inc(m) == counter' = [counter EXCEPT ![m] = @ + 1]
At(place) == Cardinality({w \in Worker : request[w].at = place})
Reached(place) == At(place) + lost[place]
GoTo(w, place) == request' = [request EXCEPT ![w].at = place]

Init ==
  /\ counter = [m \in Metric |-> 0]
  /\ request = [w \in Worker |-> Idle]
  /\ lastMethod = [w \in Worker |-> "None"]
  /\ answered = [mode \in Mode |-> [s \in Status |-> 0]]
  /\ lost = [p \in Places |-> 0]
  /\ arrivals = 0
  /\ redis \in [up : BOOLEAN, price : Offers, version : {1}]
  /\ quote = NoQuote
  /\ forwarded = {}

-----------------------------------------------------------------------------
(* Answers. *)

(* By what right a request reaches the upstream. *)
Why(w) ==
  IF request[w].loc.mode = "dryRun" THEN "shadow"
  ELSE IF request[w].result = "declined" THEN "paid" ELSE "unpaid"

(* What nginx makes of the handler's return value: NGX_DECLINED, and the     *)
(* NGX_OK no path may return, let the request through to the upstream;       *)
(* NGX_DONE means it is answered, and a status is answered now.              *)
Return(w, status, sent) ==
  /\ answered' = [answered EXCEPT ![request[w].loc.mode][status] = @ + 1]
  /\ forwarded' = IF status = "declined"
                  THEN forwarded \cup {<<Why(w), sent>>} ELSE forwarded
  /\ request' = [request EXCEPT ![w] = Idle]

Answer(w, status) == Return(w, status, FALSE)

-----------------------------------------------------------------------------
(* Every request. *)

Free(loc, http) == ~loc.on \/ http \in loc.exempt
Misconfigured(loc) == loc.price <= 0 \/ loc.timeout < 0

(* The location is off or the method exempt: NGX_DECLINED, and nothing of    *)
(* this module has changed.                                                  *)
PassFree(w) ==
  /\ request[w] = Idle
  /\ \E loc \in Locations, http \in Http : Free(loc, http)
  /\ UNCHANGED vars

(* No price or a negative timeout: 500, and nothing is counted. *)
RefuseMisconfigured(w) ==
  /\ request[w] = Idle
  /\ \E loc \in Locations, http \in Http : ~Free(loc, http) /\ Misconfigured(loc)
  /\ UNCHANGED vars

(* needs_dynamic_config: any L402 credential goes by the static price. *)
NeedsDynamicConfig(kind) == kind \notin {"l402", "bare"}

(* get_dynamic_config: no pool, no answer or no key is a price of 0. *)
DynamicPrice == IF redis.up THEN redis.price ELSE 0

(* final_amount. *)
Price(loc, kind) ==
  IF NeedsDynamicConfig(kind) /\ DynamicPrice > 0 THEN DynamicPrice ELSE loc.price

(* Whether a quote asked for just this token, with nothing it rests on       *)
(* changed since, and whether Redis was read for that quote (history).       *)
Asked(kind) ==
  IF kind # "quoted" \/ quote.version # redis.version THEN "no"
  ELSE IF quote.read THEN "priced" ELSE "unpriced"

(* The wrapper up to the price.  `sat' is what the token is worth net of the *)
(* mint's input fee.                                                         *)
Arrive(w) ==
  /\ request[w] = Idle
  /\ arrivals < MaxRequests
  /\ arrivals' = arrivals + 1
  /\ \E loc \in Locations, http \in Http, kind \in Kind :
        /\ ~Free(loc, http) /\ ~Misconfigured(loc)
        /\ kind = "quoted" => quote # NoQuote /\ quote.loc = loc
        /\ request' = [request EXCEPT ![w] =
             [at |-> "arrived", loc |-> loc, kind |-> kind,
              price |-> Price(loc, kind),
              read |-> NeedsDynamicConfig(kind), version |-> redis.version,
              sat |-> IF kind = "quoted" THEN quote.sat ELSE 0,
              asked |-> Asked(kind),
              result |-> "402", short |-> FALSE]]
  /\ UNCHANGED <<counter, lastMethod, answered, lost, redis, quote, forwarded>>

(* RequestsTotal, counted for both modes. *)
CountRequest(w) ==
  /\ request[w].at = "arrived"
  /\ Inc("Requests")
  /\ GoTo(w, "handle")
  /\ UNCHANGED <<lastMethod, answered, lost, clients, forwarded>>

(* The verdicts of l402_access_handler: the method is set once a macaroon    *)
(* has verified, before its preimage is claimed, so a lost claim (401) and a *)
(* Redis error (503) leave it behind.  A token without preimage is looked up *)
(* at the node where auto-detect is on, and cannot be parsed elsewhere.      *)
Refused(statuses) == [result : statuses, method : {"None"}]
Verified == [result : {"declined", "401", "503"}, method : {"Lightning"}]
Accepted == [result |-> "declined", method |-> "Cashu"]

Verdict(w) ==
  CASE request[w].kind = "none" -> Refused({"402"})
    [] request[w].kind = "l402" -> Refused({"401"}) \cup Verified
    [] request[w].kind = "bare" ->
         IF request[w].loc.auto THEN Refused({"401", "402", "500"}) \cup Verified
         ELSE Refused({"401"})
    [] OTHER -> Refused({"400", "401", "500"}) \cup {Accepted}

(* "Insufficient amount": decided before the token is checked further. *)
Short(w) == request[w].kind = "quoted" /\ request[w].sat * MsatPerSat < request[w].price

(* Where the wrapper goes with the handler's result; the credential is not   *)
(* read again.                                                               *)
Dispatch(w, verdict) ==
  /\ lastMethod' = [lastMethod EXCEPT ![w] = verdict.method]
  /\ request' = [request EXCEPT
       ![w].result = verdict.result,
       ![w].short = Short(w), ![w].kind = "none", ![w].sat = 0,
       ![w].at = IF request[w].loc.mode = "dryRun" THEN "shadow" ELSE "count"]
  /\ UNCHANGED <<counter, answered, lost, clients, forwarded>>

(* The slip of counting a valid payment whose path never sets its method. *)
HandleForgettingMethod(w) ==
  /\ request[w].at = "handle"
  /\ \E v \in Verdict(w) :
        Dispatch(w, IF v.method = "Cashu" THEN v ELSE [v EXCEPT !.method = "None"])

(* l402_access_handler: it resets the method, then decides. *)
Handle(w) ==
  /\ request[w].at = "handle"
  /\ \E v \in Verdict(w) :
        /\ Short(w) => v.result \in {"400", "401"}
        /\ Dispatch(w, v)

-----------------------------------------------------------------------------
(* Enforce mode. *)

CountValid(w) ==
  /\ request[w].at = "count"
  /\ request[w].result = "declined"
  /\ Inc("PaymentsValid")
  /\ GoTo(w, "method")
  /\ UNCHANGED <<lastMethod, answered, lost, clients, forwarded>>

(* LAST_PAYMENT_METHOD.take() and the counter of the method found. *)
CountMethod(w) ==
  /\ request[w].at = "method"
  /\ CASE lastMethod[w] = "Lightning" -> Inc("PaymentsLightning")
       [] lastMethod[w] = "Cashu"     -> Inc("PaymentsCashu")
       [] OTHER                       -> UNCHANGED counter
  /\ lastMethod' = [lastMethod EXCEPT ![w] = "None"]
  /\ Answer(w, "declined")
  /\ UNCHANGED <<lost, clients>>

(* The slip of leaving the 400 of NUT-24 out. *)
CountInvalidOnly401(w) ==
  /\ request[w].at = "count"
  /\ request[w].result \in {"400", "401"}
  /\ IF request[w].result = "401" THEN Inc("PaymentsInvalid") ELSE UNCHANGED counter
  /\ Answer(w, request[w].result)
  /\ UNCHANGED <<lastMethod, lost, clients>>

CountInvalid(w) ==
  /\ request[w].at = "count"
  /\ request[w].result \in {"400", "401"}
  /\ Inc("PaymentsInvalid")
  /\ Answer(w, request[w].result)
  /\ UNCHANGED <<lastMethod, lost, clients>>

CountMissing(w) ==
  /\ request[w].at = "count"
  /\ request[w].result = "402"
  /\ Inc("PaymentsMissing")
  /\ GoTo(w, "limit")
  /\ UNCHANGED <<lastMethod, answered, lost, clients, forwarded>>

(* A 500 or 503 of the handler is counted nowhere. *)
PassError(w) ==
  /\ request[w].at = "count"
  /\ request[w].result \in {"500", "503"}
  /\ Answer(w, request[w].result)
  /\ UNCHANGED <<counter, lastMethod, lost, clients>>

(* check_invoice_rate_limit said no. *)
RateLimited(w) ==
  /\ request[w].at = "limit"
  /\ request[w].loc.limited
  /\ Inc("RateLimited")
  /\ Answer(w, "429")
  /\ UNCHANGED <<lastMethod, lost, clients>>

(* "Only count as issued once we're past the rate-limit gate." *)
Issue(w) ==
  /\ request[w].at = "limit"
  /\ Inc("ChallengesIssued")
  /\ GoTo(w, "invoice")
  /\ UNCHANGED <<lastMethod, answered, lost, clients, forwarded>>

InvoiceMade(w) ==
  /\ request[w].at = "invoice"
  /\ Inc("InvoicesGenerated")
  /\ GoTo(w, "send")
  /\ UNCHANGED <<lastMethod, answered, lost, clients, forwarded>>

(* The slip of returning the 500 of a panic before the counters. *)
InvoiceFailsUncounted(w) ==
  /\ request[w].at = "invoice"
  /\ Answer(w, "500")
  /\ UNCHANGED <<counter, lastMethod, lost, clients>>

(* No invoice: the backend failed, panicked (caught) or took over 25 s. *)
InvoiceFails(w) ==
  /\ request[w].at = "invoice"
  /\ Inc("InvoicesErrors")
  /\ Answer(w, "500")
  /\ UNCHANGED <<lastMethod, lost, clients>>

(* The slip of advertising whole sats only. *)
QuotedSatFloor(price) == price \div MsatPerSat

(* generate_payment_request rounds the price up to whole sats. *)
QuotedSat(price) == (price + MsatPerSat - 1) \div MsatPerSat

(* The challenge as the client has it: X-Cashu quotes the price. *)
Quote(w) ==
  quote' = [loc |-> request[w].loc, sat |-> QuotedSat(request[w].price),
            version |-> request[w].version, read |-> request[w].read]

(* The slip of passing the NGX_OK of the output filter on. *)
SendPageReturnsOk(w) ==
  /\ request[w].at = "send"
  /\ Quote(w)
  /\ Return(w, "declined", TRUE)
  /\ UNCHANGED <<counter, lastMethod, lost, arrivals, redis>>

(* send_html_response writes the payment page, finalizes the request and     *)
(* returns NGX_DONE.                                                         *)
SendPage(w) ==
  /\ request[w].at = "send"
  /\ Quote(w)
  /\ Return(w, "402", TRUE)
  /\ UNCHANGED <<counter, lastMethod, lost, arrivals, redis>>

(* send_empty_response, where l402_payment_html is off, does so without a    *)
(* body.                                                                     *)
SendEmpty(w) ==
  /\ request[w].at = "send"
  /\ Quote(w)
  /\ Return(w, "402", TRUE)
  /\ UNCHANGED <<counter, lastMethod, lost, arrivals, redis>>

(* Reading the body away, a buffer for the page or the header fails: its     *)
(* error goes back to nginx.                                                 *)
SendFails(w) ==
  /\ request[w].at = "send"
  /\ Answer(w, "broken")
  /\ UNCHANGED <<counter, lastMethod, lost, clients>>

-----------------------------------------------------------------------------
(* Shadow mode: handle_dry_run_passthrough. *)

(* DryRunRequests, and then the rate limiter, asked only when an invoice     *)
(* would be issued.                                                          *)
Shadow(w) ==
  /\ request[w].at = "shadow"
  /\ Inc("DryRunRequests")
  /\ GoTo(w, "shadowCount")
  /\ UNCHANGED <<lastMethod, answered, lost, clients, forwarded>>

ShadowCount(w) ==
  /\ request[w].at = "shadowCount"
  /\ CASE request[w].result = "declined"              -> Inc("DryRunWouldAllow")
       [] request[w].result \in {"400", "401", "402"} -> Inc("DryRunWouldBlock")
       [] OTHER                                       -> UNCHANGED counter
  /\ IF request[w].result = "402"
     THEN /\ \E refused \in {FALSE, request[w].loc.limited} :
               GoTo(w, IF refused THEN "shadowLimited" ELSE "shadowChallenge")
          /\ UNCHANGED <<answered, forwarded>>
     ELSE Answer(w, "declined")
  /\ UNCHANGED <<lastMethod, lost, clients>>

(* The slip of answering what enforce mode would. *)
ShadowLimitedEnforced(w) ==
  /\ request[w].at = "shadowLimited"
  /\ Inc("DryRunRateLimited")
  /\ Answer(w, "429")
  /\ UNCHANGED <<lastMethod, lost, clients>>

ShadowLimited(w) ==
  /\ request[w].at = "shadowLimited"
  /\ Inc("DryRunRateLimited")
  /\ Answer(w, "declined")
  /\ UNCHANGED <<lastMethod, lost, clients>>

(* The challenge headers, or an error or 5 s without an answer: either way   *)
(* the request goes on to the upstream.  No X-Cashu quote is made.           *)
ShadowChallenge(w) ==
  /\ request[w].at = "shadowChallenge"
  /\ \E made \in BOOLEAN : IF made THEN UNCHANGED counter ELSE Inc("DryRunErrors")
  /\ Answer(w, "declined")
  /\ UNCHANGED <<lastMethod, lost, clients>>

-----------------------------------------------------------------------------
(* The surroundings. *)

(* The worker process dies with the request it is in, and is forked again. *)
Die(w) ==
  /\ FoldFunction(+, 0, lost) < MaxDeaths
  /\ lost' = [lost EXCEPT ![request[w].at] = @ + 1]
  /\ request' = [request EXCEPT ![w] = Idle]
  /\ lastMethod' = [lastMethod EXCEPT ![w] = "None"]
  /\ UNCHANGED <<counter, answered, clients, forwarded>>

(* Shadow mode builds the challenge outside catch_unwind, and a panic may    *)
(* not leave an extern "C" function: the process aborts.                     *)
ShadowChallengePanics(w) ==
  /\ "panic" \in Faults
  /\ request[w].at = "shadowChallenge"
  /\ Die(w)

Crash(w) ==
  /\ "crash" \in Faults
  /\ request[w] # Idle
  /\ Die(w)

(* The operator sets or deletes the path's price; Redis goes or comes back. *)
ChangeRedis ==
  /\ redis.version <= MaxChanges
  /\ \E up \in BOOLEAN, price \in Offers :
        /\ <<up, price>> # <<redis.up, redis.price>>
        /\ redis' = [up |-> up, price |-> price, version |-> redis.version + 1]
  /\ UNCHANGED <<counter, request, lastMethod, answered, lost, arrivals, quote, forwarded>>

-----------------------------------------------------------------------------
Front(w) ==
  PassFree(w) \/ RefuseMisconfigured(w) \/ Arrive(w) \/ CountRequest(w) \/ Handle(w)

EnforceStep(w) ==
  \/ CountValid(w) \/ CountMethod(w) \/ CountInvalid(w) \/ CountMissing(w)
  \/ PassError(w) \/ RateLimited(w) \/ Issue(w) \/ InvoiceMade(w) \/ InvoiceFails(w)
  \/ SendPage(w) \/ SendEmpty(w) \/ SendFails(w)

ShadowStep(w) ==
  \/ Shadow(w) \/ ShadowCount(w) \/ ShadowLimited(w) \/ ShadowChallenge(w)
  \/ ShadowChallengePanics(w)

Next ==
  \/ \E w \in Worker : Front(w) \/ EnforceStep(w) \/ ShadowStep(w) \/ Crash(w)
  \/ ChangeRedis

Spec == Init /\ [][Next]_vars

-----------------------------------------------------------------------------
(* The properties hold between any two increments, which is when a scrape    *)
(* reads the block: what a counter is behind by is exactly what is in        *)
(* flight, or was when its worker died.                                      *)

Answered(status) == answered["enforce"][status]

(* Every request is counted under one outcome: valid, invalid, missing, an   *)
(* error of the handler (the answers 500 and 503), or shadow; and an outcome *)
(* under one of its parts: "the invariant valid = lightning + cashu", a      *)
(* request without payment rate-limited or challenged, a challenge an        *)
(* invoice or an error.                                                      *)
EveryRequestHasOneOutcome ==
  /\ counter["Requests"] =
       counter["PaymentsValid"] + counter["PaymentsInvalid"] + counter["PaymentsMissing"]
         + Answered("503") + (Answered("500") - counter["InvoicesErrors"])
         + counter["DryRunRequests"] + Reached("handle") + Reached("count") + Reached("shadow")
  /\ counter["PaymentsValid"] =
       counter["PaymentsLightning"] + counter["PaymentsCashu"] + Reached("method")
  /\ counter["PaymentsMissing"] =
       counter["RateLimited"] + counter["ChallengesIssued"] + Reached("limit")
  /\ counter["ChallengesIssued"] =
       counter["InvoicesGenerated"] + counter["InvoicesErrors"] + Reached("invoice")

(* The enforce-mode counters say what enforce-mode clients were answered,    *)
(* and shadow traffic ticks none of them.                                    *)
CountersMatchAnswers ==
  /\ counter["PaymentsValid"] = Answered("declined") + Reached("method")
  /\ counter["PaymentsInvalid"] = Answered("400") + Answered("401")
  /\ counter["RateLimited"] = Answered("429")
  /\ counter["InvoicesGenerated"] =
       Answered("402") + Answered("broken") + Reached("send")

(* "a paywall fail-open": the upstream gets a request only for a reason, and *)
(* never one that has been sent a response.  "No client ever sees 401 or     *)
(* 402" of a shadow location, whatever the verdict, the limiter and the      *)
(* backend say.                                                              *)
ForwardedByRight ==
  /\ \A why \in {"paid", "shadow", "unpaid"}, sent \in BOOLEAN :
        <<why, sent>> \in forwarded => why # "unpaid" /\ ~sent
  /\ \A s \in Status \ {"declined"} : answered["dryRun"][s] = 0

(* "advertising the floor of a sub-sat price would reject the very token the *)
(* client was asked for": a Cashu token worth what the last 402 quoted is    *)
(* not refused for its amount while the price and Redis stay as they were.   *)
(* The quote is one for which Redis was read; auto-detect makes others.      *)
QuoteHonoured ==
  \A w \in Worker :
     request[w] # Idle /\ request[w].asked = "priced" => ~request[w].short

(* "every path that ends in a 402 challenge needs them to quote the price":  *)
(* the same of every quote.                                                  *)
EveryQuoteHonoured ==
  \A w \in Worker :
     request[w] # Idle /\ request[w].asked # "no" => ~request[w].short
=============================================================================
