------------------------------ MODULE ProviderCall ------------------------------
(***************************************************************************)
(* A step's call of a provider: the envelope the executor issues for it    *)
(* (capability-envelope.mjs), the token-capacity gate (token-capacity.mjs) *)
(* and the MCP adapter behind it (adapters.mjs), which several runs of one *)
(* process share.  One action per await; time passes and the provider's    *)
(* window resets between any two.                                          *)
(*                                                                         *)
(* The adapter pins a server and its client lists tools.  The account's    *)
(* reader and its atomic reservation are the host's, and are external.     *)
(* Tokens, times and windows are small numbers.                            *)
(***************************************************************************)
EXTENDS Naturals

CONSTANTS Callers,       \* the invocations under way
          Errands,       \* what the step of each may be: [effect, keyed]
          Prompt,        \* the bytes of each one's prompt
          MaxOutput,     \* maxOutputTokens
          ReserveTokens, \* reserveTokens
          CharsPerToken, \* policy.charsPerToken
          MarginTenths,  \* policy.safetyMarginRatio, in tenths
          Headroom,      \* policy.minimumHeadroomTokens
          MaxAge,        \* policy.maxObservationAgeMs
          Ttl,           \* the life of an envelope
          WindowTokens,  \* what a window of the account holds
          WindowLength,  \* how long it lasts
          Ceiling,       \* the cost units reserved for a call
          MaxClock       \* bound: the clock

ASSUME RatesAssumption ==
    CharsPerToken \in Nat \ {0} /\ MaxOutput \in Nat \ {0} /\ WindowLength \in Nat \ {0} /\ Ttl \in Nat
ASSUME TokensAssumption ==
    /\ Prompt \in [Callers -> Nat] /\ ReserveTokens \in Nat /\ MarginTenths \in Nat /\ Headroom \in Nat
    /\ MaxAge \in Nat /\ WindowTokens \in Nat /\ Ceiling \in Nat /\ MaxClock \in Nat
ASSUME ErrandsAssumption ==
    \A c \in Callers : Errands[c] \subseteq [effect : {"read", "local", "external"}, keyed : BOOLEAN]

VARIABLES
    clock,
    left,       \* the tokens that are left of the current window
    callPc,     \* the await at which each call stands
    envelope,   \* its capability envelope
    seen,       \* the availability its gate has read
    reserved,   \* the window it holds a reservation in, or NoWindow
    pinned,     \* the adapter has found the server's identity to be the expected one
    listed,     \* the adapter has found the tool among the server's
    sent,       \* the calls that reached the provider, with what they had then
    result      \* what has come of each call

callVars == <<clock, left, callPc, envelope, seen, reserved, pinned, listed, sent, result>>

Window(t) == t \div WindowLength
ResetsAt(t) == (Window(t) + 1) * WindowLength
NoWindow  == MaxClock + 1
Unknown   == WindowTokens + 1
Malformed == WindowTokens + 2
NoEnvelope == [effect |-> "none", keyed |-> FALSE, maxEffects |-> 0, expiresAt |-> 0]
NotSeen   == [remaining |-> Unknown, observedAt |-> 0, resetsAt |-> 0]
Pending   == [status |-> "pending", cost |-> 0]
Rejected  == [status |-> "rejected", cost |-> 0]

CallInit ==
    /\ clock = 0
    /\ left = WindowTokens
    /\ callPc = [c \in Callers |-> "new"]
    /\ envelope = [c \in Callers |-> NoEnvelope]
    /\ seen = [c \in Callers |-> NotSeen]
    /\ reserved = [c \in Callers |-> NoWindow]
    /\ pinned = FALSE
    /\ listed = FALSE
    /\ sent = {}
    /\ result = [c \in Callers |-> Pending]

CallGoto(c, p) == callPc' = [callPc EXCEPT ![c] = p]
Reject(c) == callPc' = [callPc EXCEPT ![c] = "over"] /\ result' = [result EXCEPT ![c] = Rejected]

----------------------------------------------------------------------------
\* estimateTokenCount and estimateTokenRequest.
RoundUp(n, d)       == (n + d - 1) \div d
PromptTokens(c)     == RoundUp(RoundUp(Prompt[c], CharsPerToken) * (10 + MarginTenths), 10)
RequiredTokens(c)   == PromptTokens(c) + MaxOutput + ReserveTokens

\* validateAvailability.
AvailabilityValid(c) == seen[c].remaining # Malformed

\* evaluateTokenCapacity: the code of the error, or none.
CapacityError(c, now) ==
    IF now > seen[c].observedAt + MaxAge THEN "TOKEN_CAPACITY_STALE"
    ELSE IF seen[c].resetsAt <= now THEN "TOKEN_CAPACITY_REFRESH_REQUIRED"
    ELSE IF seen[c].remaining = Unknown THEN "TOKEN_CAPACITY_UNKNOWN"
    ELSE IF seen[c].remaining < RequiredTokens(c) THEN "TOKEN_CAPACITY_INSUFFICIENT"
    ELSE IF seen[c].remaining < RequiredTokens(c) + Headroom THEN "TOKEN_HEADROOM_INSUFFICIENT"
    ELSE "none"

\* buildCapabilityEnvelope, of a step and the instant at which it expires.
Envelope(errand, at) ==
    [effect |-> errand.effect, keyed |-> errand.keyed,
     maxEffects |-> IF errand.effect = "read" THEN 0 ELSE 1, expiresAt |-> at]

\* Mutant of EnvelopeValid: an envelope is taken to last.
EnvelopeValid_Lasting(c) == envelope[c].effect = "external" => envelope[c].keyed

\* validateCapabilityEnvelope.
EnvelopeValid(c) ==
    /\ envelope[c].expiresAt > clock
    /\ envelope[c].effect = "read" => envelope[c].maxEffects = 0
    /\ envelope[c].effect = "external" => envelope[c].keyed

----------------------------------------------------------------------------
\* The executor builds the envelope of a step, which need not have come from
\* the compiler, and invokes the adapter.
Request(c) ==
    /\ callPc[c] = "new"
    /\ \E errand \in Errands[c] : envelope' = [envelope EXCEPT ![c] = Envelope(errand, clock + Ttl)]
    /\ CallGoto(c, "read")
    /\ UNCHANGED <<clock, left, seen, reserved, pinned, listed, sent, result>>

\* readCapacity answers, with the account as it is, without what remains or
\* with something else, or rejects.  The request is then built, which the gate awaits too.
ReadCapacity(c) ==
    /\ callPc[c] = "read"
    /\ \/ /\ \E remaining \in {left, Unknown, Malformed} :
                 seen' = [seen EXCEPT ![c] = [remaining  |-> remaining,
                                              observedAt |-> clock, resetsAt |-> ResetsAt(clock)]]
          /\ CallGoto(c, "evaluate")
          /\ UNCHANGED result
       \/ Reject(c) /\ UNCHANGED seen
    /\ UNCHANGED <<clock, left, envelope, reserved, pinned, listed, sent>>

Evaluate(c) ==
    /\ callPc[c] = "evaluate"
    /\ IF AvailabilityValid(c) /\ CapacityError(c, clock) = "none"
       THEN CallGoto(c, "reserve") /\ UNCHANGED result ELSE Reject(c)
    /\ UNCHANGED <<clock, left, envelope, seen, reserved, pinned, listed, sent>>

\* What the adapter, shared by all, still has to find out before it calls.
NextCheck(known, has) == IF ~known THEN "identify" ELSE IF ~has THEN "list" ELSE "call"

\* reserveCapacity takes the tokens from the window of the moment, if it has them.
Reserve(c) ==
    /\ callPc[c] = "reserve"
    /\ \/ /\ RequiredTokens(c) <= left
          /\ left' = left - RequiredTokens(c)
          /\ reserved' = [reserved EXCEPT ![c] = Window(clock)]
          /\ CallGoto(c, NextCheck(pinned, listed))
          /\ UNCHANGED result
       \/ Reject(c) /\ UNCHANGED <<left, reserved>>
    /\ UNCHANGED <<clock, envelope, seen, pinned, listed, sent>>

\* getServerInfo answers and is what was expected, or is not, or rejects.
Identify(c) ==
    /\ callPc[c] = "identify"
    /\ \/ pinned' = TRUE /\ CallGoto(c, NextCheck(TRUE, listed)) /\ UNCHANGED result
       \/ Reject(c) /\ UNCHANGED pinned
    /\ UNCHANGED <<clock, left, envelope, seen, reserved, listed, sent>>

\* The server's tools are listed, and the tool is one of them, or not.
ListTools(c) ==
    /\ callPc[c] = "list"
    /\ \/ listed' = TRUE /\ CallGoto(c, "call") /\ UNCHANGED result
       \/ Reject(c) /\ UNCHANGED listed
    /\ UNCHANGED <<clock, left, envelope, seen, reserved, pinned, sent>>

\* The envelope is validated in the argument of callTool, which is then sent.
CallTool(c) ==
    /\ callPc[c] = "call"
    /\ IF EnvelopeValid(c)
       THEN /\ sent' = sent \cup {[by |-> c, at |-> clock, pinned |-> pinned, listed |-> listed]}
            /\ CallGoto(c, "answer")
            /\ UNCHANGED result
       ELSE Reject(c) /\ UNCHANGED sent
    /\ UNCHANGED <<clock, left, envelope, seen, reserved, pinned, listed>>

\* The provider answers with what it says it cost, or without saying, which is
\* taken as all that was reserved; or it is an error, unstructured, or no count.
CallAnswered(c) ==
    /\ callPc[c] = "answer"
    /\ \/ /\ \E cost \in 0..(Ceiling + 1) :
                 result' = [result EXCEPT ![c] = [status |-> "provider-reported", cost |-> cost]]
          /\ CallGoto(c, "over")
       \/ /\ result' = [result EXCEPT ![c] = [status |-> "reserved-ceiling", cost |-> Ceiling]]
          /\ CallGoto(c, "over")
       \/ Reject(c)
    /\ UNCHANGED <<clock, left, envelope, seen, reserved, pinned, listed, sent>>

\* Time passes, and with it the account's window.
PassTime ==
    /\ clock < MaxClock
    /\ clock' = clock + 1
    /\ left' = IF Window(clock + 1) # Window(clock) THEN WindowTokens ELSE left
    /\ UNCHANGED <<callPc, envelope, seen, reserved, pinned, listed, sent, result>>

CallNext ==
    \/ PassTime
    \/ \E c \in Callers : \/ Request(c) \/ ReadCapacity(c) \/ Evaluate(c) \/ Reserve(c) \/ Identify(c)
                          \/ ListTools(c) \/ CallTool(c) \/ CallAnswered(c)

CallSpec == CallInit /\ [][CallNext]_callVars

----------------------------------------------------------------------------
CallTypeOK ==
    /\ clock \in 0..MaxClock /\ left \in 0..WindowTokens
    /\ callPc \in [Callers -> {"new", "read", "evaluate", "reserve", "identify", "list", "call", "answer", "over"}]
    /\ envelope \in [Callers -> [effect : {"none", "read", "local", "external"}, keyed : BOOLEAN,
                                 maxEffects : 0..1, expiresAt : 0..(MaxClock + Ttl)]]
    /\ seen \in [Callers -> [remaining : 0..Malformed, observedAt : 0..MaxClock,
                             resetsAt : 0..(MaxClock + WindowLength)]]
    /\ reserved \in [Callers -> 0..NoWindow]
    /\ pinned \in BOOLEAN /\ listed \in BOOLEAN
    /\ sent \subseteq [by : Callers, at : 0..MaxClock, pinned : BOOLEAN, listed : BOOLEAN]
    /\ result \in [Callers -> [status : {"pending", "rejected", "provider-reported", "reserved-ceiling"},
                               cost : 0..(Ceiling + 1)]]

\* README.md: the gate fails closed, and an envelope is bounded in time.  Every
\* call that reaches the provider does so within its envelope, however long
\* the gate and the checks before it took, and with a key if its effect is
\* external, whatever workflow it came from; to a server that had been identified
\* and had advertised the tool; with a reservation, made on an account that was
\* known to leave the protected headroom beside it.
CallWithinGrant ==
    \A call \in sent :
        /\ call.at < envelope[call.by].expiresAt
        /\ envelope[call.by].effect = "external" => envelope[call.by].keyed
        /\ call.pinned /\ call.listed
        /\ reserved[call.by] # NoWindow
        /\ seen[call.by].remaining \in 0..WindowTokens
        /\ seen[call.by].remaining >= RequiredTokens(call.by) + Headroom
==============================================================================
