---------------------------- MODULE PayPalClient ------------------------------
(***************************************************************************)
(* The token cache of the PayPal REST client.  One client serves every     *)
(* handler of the process.  A caller of verify_webhook_signature takes the *)
(* cached OAuth token or fetches one under an asyncio.Lock, then uses it   *)
(* for one verification request; an answer 401 makes the client forget the *)
(* token it was given for.                                                 *)
(*                                                                         *)
(* Callers are coroutines: a step runs from one await to the next.  Time   *)
(* is the client's monotonic clock; PayPal counts the life of a token from *)
(* the moment it issues it, while the request is under way.                *)
(***************************************************************************)
EXTENDS Integers, Sequences

CONSTANTS
  Callers,    \* handlers that verify a webhook
  Lifetimes,  \* values of expires_in that PayPal may grant
  Margin,     \* TOKEN_REFRESH_MARGIN_SECONDS
  MaxTime,    \* bound: the clock
  MaxTokens,  \* bound: tokens that PayPal issues
  Nobody      \* the lock is free

\* _fetch_token refuses a lifetime that is not positive (or above a day).
ASSUME PayPalClientAssumption ==
  /\ Lifetimes \subseteq Nat \ {0}
  /\ Margin \in Nat /\ MaxTime \in Nat /\ MaxTokens \in Nat
  /\ Nobody \notin Callers

VARIABLES
  now,           \* the clock
  token,         \* the cached token: number and refresh_at
  lock,          \* owner of _token_lock
  waiters,       \* callers that wait for it, first come first served
  pc,            \* where each caller is
  using,         \* the token a caller has in hand
  asked,         \* its token request: when, and the lifetime granted
  expires,       \* at PayPal: when each token issued so far expires
  rejected       \* history: tokens that PayPal has answered 401

calls == <<pc, using, asked>>
mutex == <<lock, waiters>>
vars  == <<now, token, mutex, calls, expires, rejected>>

Labels == {"idle", "waiting", "fetch", "issued", "verify"}

NoToken == [value |-> 0, refresh_at |-> 0]
Issued  == DOMAIN expires

\* _valid_cached_token
Valid == token.value # 0 /\ now < token.refresh_at

NoRequest == [at |-> 0, life |-> 0]

Goto(c, label) == pc' = [pc EXCEPT ![c] = label]

Return(c) ==
  /\ Goto(c, "idle")
  /\ using' = [using EXCEPT ![c] = 0]
  /\ asked' = [asked EXCEPT ![c] = NoRequest]

\* get_access_token returns and the verification request is sent.
VerifyWith(c, value) ==
  /\ Goto(c, "verify")
  /\ using' = [using EXCEPT ![c] = value]
  /\ UNCHANGED asked

\* requested_at is read before the request is sent.
Request(c) ==
  /\ lock' = c
  /\ Goto(c, "fetch")
  /\ asked' = [asked EXCEPT ![c].at = now]
  /\ UNCHANGED using

-----------------------------------------------------------------------------

\* The cached token is good for another request: no await on the way.
ServeCached(c) ==
  /\ pc[c] = "idle"
  /\ Valid
  /\ VerifyWith(c, token.value)
  /\ UNCHANGED <<now, token, mutex, expires, rejected>>

\* An asyncio.Lock that nobody holds or waits for is taken without an await.
FetchAtOnce(c) ==
  /\ pc[c] = "idle"
  /\ ~Valid
  /\ lock = Nobody /\ waiters = <<>>
  /\ Request(c)
  /\ UNCHANGED <<now, token, waiters, expires, rejected>>

Wait(c) ==
  /\ pc[c] = "idle"
  /\ ~Valid
  /\ lock # Nobody \/ waiters # <<>>
  /\ Goto(c, "waiting")
  /\ waiters' = Append(waiters, c)
  /\ UNCHANGED <<now, token, lock, using, asked, expires, rejected>>

\* Mutated form of Acquire: the cache is not looked up again under the lock.
AcquireUnchecked(c) ==
  /\ lock = Nobody
  /\ waiters # <<>> /\ c = Head(waiters)
  /\ waiters' = Tail(waiters)
  /\ Request(c)
  /\ UNCHANGED <<now, token, expires, rejected>>

\* The first waiter gets the lock and looks the cache up again.
Acquire(c) ==
  /\ lock = Nobody
  /\ waiters # <<>> /\ c = Head(waiters)
  /\ waiters' = Tail(waiters)
  /\ \/ Valid /\ VerifyWith(c, token.value) /\ UNCHANGED lock
     \/ ~Valid /\ Request(c)
  /\ UNCHANGED <<now, token, expires, rejected>>

\* PayPal issues a token, one that it has not issued before; its answer is on the way.
Issue(c) ==
  /\ pc[c] = "fetch"
  /\ Len(expires) < MaxTokens
  /\ \E life \in Lifetimes :
       /\ asked' = [asked EXCEPT ![c].life = life]
       /\ expires' = Append(expires, now + life)
  /\ using' = [using EXCEPT ![c] = Len(expires) + 1]
  /\ Goto(c, "issued")
  /\ UNCHANGED <<now, token, mutex, rejected>>

\* Mutated form of Usable: a lifetime within the margin counts as negative.
UsableUnclamped(life) == life - Margin

\* max(expires_in - TOKEN_REFRESH_MARGIN_SECONDS, 0)
Usable(life) == IF life > Margin THEN life - Margin ELSE 0

\* Mutated form of RefreshAt: counted from the arrival of the answer.
RefreshFromArrival(c) == now + Usable(asked[c].life)

RefreshAt(c) == asked[c].at + Usable(asked[c].life)

\* The answer arrives: the token is cached, the lock released, the token used.
Fetched(c) ==
  /\ pc[c] = "issued"
  /\ token' = [value |-> using[c], refresh_at |-> RefreshAt(c)]
  /\ lock' = Nobody
  /\ Goto(c, "verify")
  /\ asked' = [asked EXCEPT ![c] = NoRequest]
  /\ UNCHANGED <<now, waiters, using, expires, rejected>>

\* Mutated form of FetchFails: the lock is not released.
FetchFailsLocked(c) ==
  /\ pc[c] \in {"fetch", "issued"}
  /\ Return(c)
  /\ UNCHANGED <<now, token, mutex, expires, rejected>>

\* Timeout, transport error, refused credentials or an unusable answer: the exception
\* leaves the lock free and the cache as it is.
FetchFails(c) ==
  /\ pc[c] \in {"fetch", "issued"}
  /\ lock' = Nobody
  /\ Return(c)
  /\ UNCHANGED <<now, token, waiters, expires, rejected>>

\* Any answer to the verification request but 401, or none in time.
Verified(c) ==
  /\ pc[c] = "verify"
  /\ Return(c)
  /\ UNCHANGED <<now, token, mutex, expires, rejected>>

\* Mutated form of Discard: the token is kept.
DiscardNothing(value) == token

\* _discard_token: only the token that was refused is forgotten.
Discard(value) == IF token.value = value THEN NoToken ELSE token

Unauthorized(c) ==
  /\ pc[c] = "verify"
  /\ token' = Discard(using[c])
  /\ rejected' = rejected \cup {using[c]}
  /\ Return(c)
  /\ UNCHANGED <<now, mutex, expires>>

Tick ==
  /\ now < MaxTime
  /\ now' = now + 1
  /\ UNCHANGED <<token, mutex, calls, expires, rejected>>

-----------------------------------------------------------------------------

Init ==
  /\ now = 0
  /\ token = NoToken
  /\ lock = Nobody
  /\ waiters = <<>>
  /\ pc = [c \in Callers |-> "idle"]
  /\ using = [c \in Callers |-> 0]
  /\ asked = [c \in Callers |-> NoRequest]
  /\ expires = <<>>
  /\ rejected = {}

Call(c) == ServeCached(c) \/ FetchAtOnce(c) \/ Wait(c)

\* What a call does once it has begun.
Proceed(c) ==
  \/ Acquire(c) \/ Issue(c) \/ Fetched(c) \/ FetchFails(c) \/ Verified(c) \/ Unauthorized(c)

Next == Tick \/ \E c \in Callers : Call(c) \/ Proceed(c)

Spec == Init /\ [][Next]_vars

-----------------------------------------------------------------------------
(* Properties *)

TokenTypeOK ==
  /\ token \in [value : Nat, refresh_at : Nat]
  /\ token.value # 0 => token.value \in Issued
  /\ expires \in Seq(Nat)
  /\ rejected \subseteq Issued

\* Clock, cache, lock and callers are of their kinds, and only issued tokens go round.
TypeOK ==
  /\ now \in Nat
  /\ TokenTypeOK
  /\ lock \in Callers \cup {Nobody}
  /\ waiters \in Seq(Callers)
  /\ pc \in [Callers -> Labels]
  /\ using \in [Callers -> Nat]
  /\ \A c \in Callers : pc[c] \in {"issued", "verify"} => using[c] \in Issued
  /\ asked \in [Callers -> [at : Nat, life : Nat]]

\* "Returns a cached access token, fetching a new one once it is within the refresh
\* margin": a caller fetches only while the cache has no usable token, and only one does,
\* however many find it empty at once.
FetchesShared ==
  \A c \in Callers : pc[c] \in {"fetch", "issued"} =>
    /\ ~Valid
    /\ \A o \in Callers : pc[o] \in {"fetch", "issued"} => o = c

\* TOKEN_REFRESH_MARGIN_SECONDS: a token served from the cache has more than the margin to
\* live at PayPal, however long its own fetch took.
ServedTokensLive == Valid => now + Margin < expires[token.value]

\* verify_webhook_signature discards the token on 401: it is not served again.
RejectedTokenGone == token.value \notin rejected

\* _discard_token: a late 401 for an old token does not cost the process its new one.
NewTokenKept ==
  [][token' = NoToken => token = NoToken \/ token.value \in rejected']_vars

\* Requests have timeouts, and the event loop runs what is ready.
FairSpec == Spec /\ \A c \in Callers : WF_vars(Proceed(c))

\* Whatever fails, nobody waits for the token lock for ever.
CallersAnswered == \A c \in Callers : pc[c] # "idle" ~> pc[c] = "idle"
==============================================================================
