------------------------- MODULE PayPalClientProofs ---------------------------
(***************************************************************************)
(* Proofs about PayPalClient for every number of callers, every margin and *)
(* every set of lifetimes.                                                 *)
(*                                                                         *)
(* IInv adds to the properties who holds the lock (LockInv), that    *)
(* the cache stays unusable during a fetch (FetchInv), that the token on   *)
(* its way is nobody's yet and not older than its request (NewTokenInv),   *)
(* and that a cached token is past its refresh time or refreshed early     *)
(* enough (CacheInv).                                                      *)
(***************************************************************************)
EXTENDS PayPalClient, TLAPS

Fetching == {"fetch", "issued"}

LockInv == \A c \in Callers : pc[c] \in Fetching <=> lock = c

FetchInv ==
  \A c \in Callers : pc[c] \in Fetching => ~Valid /\ asked[c].at <= now

\* The token that is on its way to a caller is nobody else's yet.
NewTokenInv ==
  \A c \in Callers : pc[c] = "issued" =>
    /\ asked[c].at + asked[c].life <= expires[using[c]]
    /\ using[c] \notin rejected
    /\ \A o \in Callers : pc[o] = "verify" => using[o] # using[c]

CacheInv ==
  token.value # 0 => \/ token.refresh_at <= now
                     \/ token.refresh_at + Margin <= expires[token.value]

IInv ==
  TypeOK /\ LockInv /\ FetchInv /\ NewTokenInv /\ CacheInv /\ RejectedTokenGone

USE PayPalClientAssumption

-----------------------------------------------------------------------------
(* What the steps rest on: sequences that grow, and the state's types one by one *)

LEMMA AppendFacts ==
  ASSUME NEW s \in Seq(Nat), NEW x \in Nat
  PROVE  /\ Append(s, x) \in Seq(Nat)
         /\ Len(s) \in Nat
         /\ DOMAIN s = 1..Len(s)
         /\ DOMAIN Append(s, x) = 1..(Len(s) + 1)
         /\ Append(s, x)[Len(s) + 1] = x
         /\ \A n \in DOMAIN s : Append(s, x)[n] = s[n]
  OBVIOUS

LEMMA QueueFacts ==
  ASSUME NEW s \in Seq(Callers), NEW c \in Callers
  PROVE  /\ Append(s, c) \in Seq(Callers)
         /\ s # <<>> => Tail(s) \in Seq(Callers) /\ Head(s) \in Callers
  OBVIOUS

LEMMA TypesOf ==
  ASSUME TypeOK
  PROVE  /\ now \in Nat /\ token \in [value : Nat, refresh_at : Nat]
         /\ lock \in Callers \cup {Nobody} /\ waiters \in Seq(Callers)
         /\ pc \in [Callers -> Labels] /\ using \in [Callers -> Nat]
         /\ asked \in [Callers -> [at : Nat, life : Nat]] /\ expires \in Seq(Nat)
         /\ rejected \subseteq Issued /\ (token.value # 0 => token.value \in Issued)
         /\ \A c \in Callers : pc[c] \in {"issued", "verify"} => using[c] \in Issued
  BY DEF TypeOK, TokenTypeOK

\* A token number is positive and its expiry a time.
LEMMA IssuedFacts ==
  ASSUME TypeOK
  PROVE  /\ 0 \notin Issued
         /\ \A n \in Issued : n \in Nat /\ expires[n] \in Nat
<1>1. expires \in Seq(Nat)
  BY TypesOf
<1> QED BY <1>1 DEF Issued

\* What PayPal's answer changes: one more token, all earlier ones as they were.
LEMMA IssueFacts ==
  ASSUME TypeOK, NEW c \in Callers, Issue(c)
  PROVE  /\ pc[c] = "fetch"
         /\ pc' = [pc EXCEPT ![c] = "issued"]
         /\ using' = [using EXCEPT ![c] = Len(expires) + 1]
         /\ expires' \in Seq(Nat)
         /\ Len(expires) \in Nat
         /\ Len(expires) + 1 \notin Issued
         /\ Len(expires) + 1 \in Issued'
         /\ Issued \subseteq Issued'
         /\ \A n \in Issued : expires'[n] = expires[n]
         /\ UNCHANGED <<now, token, lock, waiters, rejected>>
         /\ \E life \in Lifetimes :
              /\ life \in Nat
              /\ asked' = [asked EXCEPT ![c].life = life]
              /\ expires'[Len(expires) + 1] = now + life
<1>1. expires \in Seq(Nat) /\ now \in Nat
  BY TypesOf
<1>2. PICK life \in Lifetimes : /\ asked' = [asked EXCEPT ![c].life = life]
                                /\ expires' = Append(expires, now + life)
  BY DEF Issue
<1>3. life \in Nat /\ now + life \in Nat
  BY <1>1
<1>4. /\ expires' \in Seq(Nat) /\ Len(expires) \in Nat
      /\ Issued = 1..Len(expires) /\ Issued' = 1..(Len(expires) + 1)
      /\ expires'[Len(expires) + 1] = now + life
      /\ \A n \in Issued : expires'[n] = expires[n]
  BY <1>1, <1>2, <1>3, AppendFacts DEF Issued
<1>5. /\ Len(expires) + 1 \notin Issued /\ Len(expires) + 1 \in Issued'
      /\ Issued \subseteq Issued'
  BY <1>4
<1>6. /\ pc[c] = "fetch" /\ pc' = [pc EXCEPT ![c] = "issued"]
      /\ using' = [using EXCEPT ![c] = Len(expires) + 1]
      /\ UNCHANGED <<now, token, lock, waiters, rejected>>
  BY DEF Issue, Goto, mutex
<1> QED BY <1>2, <1>3, <1>4, <1>5, <1>6

LEMMA UsableBound ==
  ASSUME NEW life \in Nat
  PROVE  /\ Usable(life) \in Nat
         /\ Usable(life) = 0 \/ Usable(life) + Margin = life
  BY DEF Usable

LEMMA RefreshAtNat ==
  ASSUME TypeOK, NEW c \in Callers
  PROVE  RefreshAt(c) \in Nat
<1>1. asked[c].at \in Nat /\ asked[c].life \in Nat
  BY TypesOf
<1>2. Usable(asked[c].life) \in Nat
  BY <1>1, UsableBound
<1> QED BY <1>1, <1>2 DEF RefreshAt

\* What most steps do to the callers: one of them moves, the others stay.
LEMMA ReturnFacts ==
  ASSUME TypeOK, NEW c \in Callers, Return(c)
  PROVE  /\ pc' = [pc EXCEPT ![c] = "idle"]
         /\ using' = [using EXCEPT ![c] = 0]
         /\ asked' \in [Callers -> [at : Nat, life : Nat]]
<1>1. asked \in [Callers -> [at : Nat, life : Nat]]
  BY TypesOf
<1>2. NoRequest \in [at : Nat, life : Nat]
  BY DEF NoRequest
<1> QED BY <1>1, <1>2 DEF Return, Goto

LEMMA RequestFacts ==
  ASSUME TypeOK, NEW c \in Callers, Request(c)
  PROVE  /\ pc' = [pc EXCEPT ![c] = "fetch"]
         /\ lock' = c
         /\ using' = using
         /\ asked'[c].at = now
         /\ asked' \in [Callers -> [at : Nat, life : Nat]]
         /\ \A o \in Callers : o # c => asked'[o] = asked[o]
<1>1. asked \in [Callers -> [at : Nat, life : Nat]] /\ now \in Nat
  BY TypesOf
<1>2. asked' = [asked EXCEPT ![c].at = now]
  BY DEF Request
<1>3. asked'[c].at = now /\ asked' \in [Callers -> [at : Nat, life : Nat]]
      /\ \A o \in Callers : o # c => asked'[o] = asked[o]
  BY <1>1, <1>2
<1> QED BY <1>3 DEF Request, Goto

-----------------------------------------------------------------------------

LEMMA InitIInv == Init => IInv
<1> SUFFICES ASSUME Init PROVE IInv
  OBVIOUS
<1>1. TokenTypeOK
  BY DEF Init, TokenTypeOK, NoToken, Issued
<1>2. TypeOK
  BY <1>1 DEF Init, TypeOK, NoRequest, Labels
<1>3. LockInv /\ FetchInv /\ NewTokenInv
  BY DEF Init, LockInv, FetchInv, NewTokenInv, Fetching
<1>4. CacheInv /\ RejectedTokenGone
  BY DEF Init, CacheInv, RejectedTokenGone, NoToken
<1> QED BY <1>2, <1>3, <1>4 DEF IInv

\* The cache and the tokens stay of their types while no new token is issued or cached.
LEMMA TokenTypeKept ==
  ASSUME TypeOK, token' = token \/ token' = NoToken, expires' = expires,
         rejected' \subseteq Issued
  PROVE  TokenTypeOK'
<1>1. Issued' = Issued
  BY DEF Issued
<1>2. NoToken \in [value : Nat, refresh_at : Nat] /\ NoToken.value = 0
  BY DEF NoToken
<1> QED BY <1>1, <1>2 DEF TypeOK, TokenTypeOK

LEMMA TypeStep == IInv /\ [Next]_vars => TypeOK'
<1> SUFFICES ASSUME TypeOK, [Next]_vars PROVE TypeOK'
  BY DEF IInv
<1> USE DEF Labels
<1>0. /\ now \in Nat /\ lock \in Callers \cup {Nobody} /\ waiters \in Seq(Callers)
      /\ pc \in [Callers -> Labels] /\ using \in [Callers -> Nat]
      /\ asked \in [Callers -> [at : Nat, life : Nat]]
      /\ \A c \in Callers : pc[c] \in {"issued", "verify"} => using[c] \in Issued
      /\ rejected \subseteq Issued /\ token.value \in Nat
      /\ (token.value # 0 => token.value \in Issued)
  BY TypesOf
<1>1. CASE Tick
  <2>1. now' \in Nat /\ UNCHANGED <<token, lock, waiters, pc, using, asked, expires, rejected>>
    BY <1>0, <1>1 DEF Tick, mutex, calls
  <2>2. TokenTypeOK' /\ Issued' = Issued
    BY <1>0, <2>1, TokenTypeKept DEF Issued
  <2> QED BY <1>0, <2>1, <2>2 DEF TypeOK
<1>2. ASSUME NEW c \in Callers, ServeCached(c) PROVE TypeOK'
  <2>1. /\ UNCHANGED <<now, token, lock, waiters, asked, expires, rejected>>
        /\ pc' = [pc EXCEPT ![c] = "verify"] /\ using' = [using EXCEPT ![c] = token.value]
        /\ token.value \in Issued
    BY <1>0, <1>2 DEF ServeCached, VerifyWith, Goto, Valid, mutex
  <2>2. TokenTypeOK' /\ Issued' = Issued
    BY <1>0, <2>1, TokenTypeKept DEF Issued
  <2> QED BY <1>0, <2>1, <2>2 DEF TypeOK
<1>3. ASSUME NEW c \in Callers, FetchAtOnce(c) PROVE TypeOK'
  <2>1. UNCHANGED <<now, token, waiters, expires, rejected>> /\ Request(c)
    BY <1>3 DEF FetchAtOnce
  <2>2. TokenTypeOK' /\ Issued' = Issued
    BY <1>0, <2>1, TokenTypeKept DEF Issued
  <2> QED BY <1>0, <2>1, <2>2, RequestFacts DEF TypeOK
<1>4. ASSUME NEW c \in Callers, Wait(c) PROVE TypeOK'
  <2>1. /\ UNCHANGED <<now, token, lock, using, asked, expires, rejected>>
        /\ pc' = [pc EXCEPT ![c] = "waiting"] /\ waiters' \in Seq(Callers)
    BY <1>0, <1>4, QueueFacts DEF Wait, Goto
  <2>2. TokenTypeOK' /\ Issued' = Issued
    BY <1>0, <2>1, TokenTypeKept DEF Issued
  <2> QED BY <1>0, <2>1, <2>2 DEF TypeOK
<1>5. ASSUME NEW c \in Callers, Acquire(c) PROVE TypeOK'
  <2>1. waiters' \in Seq(Callers) /\ UNCHANGED <<now, token, expires, rejected>>
    BY <1>0, <1>5, QueueFacts DEF Acquire
  <2>2. TokenTypeOK' /\ Issued' = Issued
    BY <1>0, <2>1, TokenTypeKept DEF Issued
  <2>3. CASE Valid /\ VerifyWith(c, token.value) /\ UNCHANGED lock
    <3>1. /\ pc' = [pc EXCEPT ![c] = "verify"] /\ using' = [using EXCEPT ![c] = token.value]
          /\ asked' = asked /\ token.value \in Issued
      BY <1>0, <2>3 DEF VerifyWith, Goto, Valid
    <3> QED BY <1>0, <2>1, <2>2, <2>3, <3>1 DEF TypeOK
  <2>4. CASE ~Valid /\ Request(c)
    BY <1>0, <2>1, <2>2, <2>4, RequestFacts DEF TypeOK
  <2> QED BY <1>5, <2>3, <2>4 DEF Acquire
<1>6. ASSUME NEW c \in Callers, Issue(c) PROVE TypeOK'
  <2>1. asked' \in [Callers -> [at : Nat, life : Nat]]
    <3>1. PICK life \in Nat : asked' = [asked EXCEPT ![c].life = life]
      BY <1>6, IssueFacts
    <3> QED BY <1>0, <3>1
  <2>2. /\ pc' \in [Callers -> Labels] /\ using' \in [Callers -> Nat]
        /\ UNCHANGED <<now, lock, waiters>>
    <3>1. /\ pc' = [pc EXCEPT ![c] = "issued"] /\ Len(expires) \in Nat
          /\ using' = [using EXCEPT ![c] = Len(expires) + 1]
          /\ UNCHANGED <<now, lock, waiters>>
      BY <1>6, IssueFacts
    <3>2. Len(expires) + 1 \in Nat
      BY <3>1
    <3> QED BY <1>0, <3>1, <3>2
  <2>3. TokenTypeOK'
    <3>1. /\ Issued \subseteq Issued' /\ expires' \in Seq(Nat)
          /\ UNCHANGED <<token, rejected>>
      BY <1>6, IssueFacts
    <3> QED BY <3>1, TypesOf DEF TokenTypeOK
  <2>4. ASSUME NEW o \in Callers, pc'[o] \in {"issued", "verify"}
        PROVE  using'[o] \in Issued'
    <3>1. CASE o = c
      BY <1>0, <1>6, <3>1, IssueFacts
    <3>2. CASE o # c
      <4>1. pc'[o] = pc[o] /\ using'[o] = using[o] /\ Issued \subseteq Issued'
        BY <1>0, <1>6, <3>2, IssueFacts
      <4> QED BY <1>0, <2>4, <4>1
    <3> QED BY <3>1, <3>2
  <2> QED BY <1>0, <2>1, <2>2, <2>3, <2>4 DEF TypeOK
<1>7. ASSUME NEW c \in Callers, Fetched(c) PROVE TypeOK'
  <2>1. /\ UNCHANGED <<now, waiters, using, expires, rejected>> /\ lock' = Nobody
        /\ pc[c] = "issued" /\ pc' = [pc EXCEPT ![c] = "verify"]
        /\ token' = [value |-> using[c], refresh_at |-> RefreshAt(c)]
        /\ asked' = [asked EXCEPT ![c] = NoRequest]
    BY <1>7 DEF Fetched, Goto
  <2>2. Issued' = Issued /\ using[c] \in Issued /\ using[c] \in Nat
    BY <1>0, <2>1 DEF Issued
  <2>3. TokenTypeOK'
    BY <1>0, <2>1, <2>2, RefreshAtNat, TypesOf DEF TokenTypeOK
  <2>4. asked' \in [Callers -> [at : Nat, life : Nat]]
    BY <1>0, <2>1 DEF NoRequest
  <2> QED BY <1>0, <2>1, <2>2, <2>3, <2>4 DEF TypeOK
<1>8. ASSUME NEW c \in Callers, FetchFails(c) PROVE TypeOK'
  <2>1. UNCHANGED <<now, token, waiters, expires, rejected>> /\ lock' = Nobody /\ Return(c)
    BY <1>8 DEF FetchFails
  <2>2. TokenTypeOK' /\ Issued' = Issued
    BY <1>0, <2>1, TokenTypeKept DEF Issued
  <2>3. /\ pc' = [pc EXCEPT ![c] = "idle"] /\ using' = [using EXCEPT ![c] = 0]
        /\ asked' \in [Callers -> [at : Nat, life : Nat]]
    BY <2>1, ReturnFacts
  <2> QED BY <1>0, <2>1, <2>2, <2>3 DEF TypeOK
<1>9. ASSUME NEW c \in Callers, Verified(c) PROVE TypeOK'
  <2>1. UNCHANGED <<now, token, lock, waiters, expires, rejected>> /\ Return(c)
    BY <1>9 DEF Verified, mutex
  <2>2. TokenTypeOK' /\ Issued' = Issued
    BY <1>0, <2>1, TokenTypeKept DEF Issued
  <2>3. /\ pc' = [pc EXCEPT ![c] = "idle"] /\ using' = [using EXCEPT ![c] = 0]
        /\ asked' \in [Callers -> [at : Nat, life : Nat]]
    BY <2>1, ReturnFacts
  <2> QED BY <1>0, <2>1, <2>2, <2>3 DEF TypeOK
<1>10. ASSUME NEW c \in Callers, Unauthorized(c) PROVE TypeOK'
  <2>1. /\ UNCHANGED <<now, lock, waiters, expires>> /\ Return(c)
        /\ token' = token \/ token' = NoToken
        /\ pc[c] = "verify" /\ rejected' = rejected \cup {using[c]}
    BY <1>10 DEF Unauthorized, Discard, mutex
  <2>2. rejected' \subseteq Issued
    BY <1>0, <2>1
  <2>3. TokenTypeOK' /\ Issued' = Issued
    BY <2>1, <2>2, TokenTypeKept DEF Issued
  <2>4. /\ pc' = [pc EXCEPT ![c] = "idle"] /\ using' = [using EXCEPT ![c] = 0]
        /\ asked' \in [Callers -> [at : Nat, life : Nat]]
    BY <2>1, ReturnFacts
  <2> QED BY <1>0, <2>1, <2>3, <2>4 DEF TypeOK
<1>11. CASE UNCHANGED vars
  <2>1. UNCHANGED <<now, token, lock, waiters, pc, using, asked, expires, rejected>>
    BY <1>11 DEF vars, mutex, calls
  <2>2. TokenTypeOK' /\ Issued' = Issued
    BY <1>0, <2>1, TokenTypeKept DEF Issued
  <2> QED BY <1>0, <2>1, <2>2 DEF TypeOK
<1> QED BY <1>1, <1>2, <1>3, <1>4, <1>5, <1>6, <1>7, <1>8, <1>9, <1>10, <1>11
           DEF Next, Call, Proceed

LEMMA LockStep == IInv /\ [Next]_vars => LockInv'
<1> SUFFICES ASSUME TypeOK, LockInv, [Next]_vars, NEW d \in Callers
             PROVE  (pc[d] \in Fetching <=> lock = d)'
  BY DEF LockInv, IInv
<1> DEFINE Goal == (pc[d] \in Fetching <=> lock = d)'
<1> USE DEF Fetching
<1>0. pc \in [Callers -> Labels] /\ Nobody \notin Callers
      /\ \A c \in Callers : pc[c] \in Fetching <=> lock = c
  BY TypesOf DEF LockInv
<1>1. ASSUME UNCHANGED <<pc, lock>> PROVE Goal
  BY <1>0, <1>1
<1>2. ASSUME NEW c \in Callers, NEW label \in {"waiting", "verify", "idle"},
             pc[c] \notin Fetching, pc' = [pc EXCEPT ![c] = label], lock' = lock
      PROVE  Goal
  BY <1>0, <1>2
<1>3. ASSUME NEW c \in Callers, lock = Nobody, Request(c) PROVE Goal
  <2>1. lock' = c /\ pc' = [pc EXCEPT ![c] = "fetch"]
    BY <1>3 DEF Request, Goto
  <2> QED BY <1>0, <1>3, <2>1
<1>4. CASE Tick
  BY <1>1, <1>4 DEF Tick, mutex, calls
<1>5. ASSUME NEW c \in Callers, ServeCached(c) PROVE Goal
  BY <1>2, <1>5 DEF ServeCached, VerifyWith, Goto, mutex
<1>6. ASSUME NEW c \in Callers, FetchAtOnce(c) PROVE Goal
  BY <1>3, <1>6 DEF FetchAtOnce
<1>7. ASSUME NEW c \in Callers, Wait(c) PROVE Goal
  BY <1>2, <1>7 DEF Wait, Goto
<1>8. ASSUME NEW c \in Callers, Acquire(c) PROVE Goal
  <2>1. lock = Nobody /\ c \in Callers
    BY <1>8 DEF Acquire
  <2>2. CASE Valid /\ VerifyWith(c, token.value) /\ UNCHANGED lock
    BY <1>0, <1>2, <2>1, <2>2 DEF VerifyWith, Goto
  <2>3. CASE ~Valid /\ Request(c)
    BY <1>3, <2>1, <2>3
  <2> QED BY <1>8, <2>2, <2>3 DEF Acquire
<1>9. ASSUME NEW c \in Callers, Issue(c) PROVE Goal
  <2>1. pc[c] = "fetch" /\ pc' = [pc EXCEPT ![c] = "issued"] /\ lock' = lock
    BY <1>9 DEF Issue, Goto, mutex
  <2> QED BY <1>0, <2>1
<1>10. ASSUME NEW c \in Callers, Fetched(c) \/ FetchFails(c) PROVE Goal
  <2>1. /\ pc[c] \in Fetching /\ lock' = Nobody
        /\ \E label \in {"verify", "idle"} : pc' = [pc EXCEPT ![c] = label]
    BY <1>10 DEF Fetched, FetchFails, Return, Goto
  <2>2. \A o \in Callers : o # c => pc[o] \notin Fetching
    BY <1>0, <2>1
  <2> QED BY <1>0, <2>1, <2>2
<1>11. ASSUME NEW c \in Callers, Verified(c) \/ Unauthorized(c) PROVE Goal
  BY <1>2, <1>11 DEF Verified, Unauthorized, Return, Goto, mutex
<1>12. CASE UNCHANGED vars
  BY <1>1, <1>12 DEF vars, mutex, calls
<1> QED BY <1>4, <1>5, <1>6, <1>7, <1>8, <1>9, <1>10, <1>11, <1>12 DEF Next, Call, Proceed

LEMMA FetchStep == IInv /\ [Next]_vars => FetchInv'
<1> SUFFICES ASSUME TypeOK, LockInv, FetchInv, [Next]_vars,
                    NEW d \in Callers, pc'[d] \in Fetching
             PROVE  ~Valid' /\ asked'[d].at <= now'
  BY DEF FetchInv, IInv
<1> DEFINE Goal == ~Valid' /\ asked'[d].at <= now'
<1> USE DEF Fetching
<1>0. /\ pc \in [Callers -> Labels] /\ asked \in [Callers -> [at : Nat, life : Nat]]
      /\ now \in Nat /\ token \in [value : Nat, refresh_at : Nat]
  BY TypesOf
<1>1. ASSUME pc[d] \in Fetching, UNCHANGED <<token, now>>, asked'[d].at = asked[d].at
      PROVE  Goal
  BY <1>0, <1>1 DEF FetchInv, Valid
<1>2. ASSUME NEW c \in Callers, NEW label \in {"waiting", "verify", "idle"},
             pc' = [pc EXCEPT ![c] = label]
      PROVE  d # c /\ pc[d] \in Fetching
  BY <1>0, <1>2
<1>3. CASE Tick
  <2>1. pc[d] \in Fetching /\ asked' = asked /\ token' = token /\ now' = now + 1
    BY <1>3 DEF Tick, calls
  <2>2. ~Valid /\ asked[d].at <= now /\ asked[d].at \in Nat
    BY <1>0, <2>1 DEF FetchInv
  <2> QED BY <1>0, <2>1, <2>2 DEF Valid
<1>4. ASSUME NEW c \in Callers, ServeCached(c) \/ Wait(c) PROVE Goal
  <2>1. UNCHANGED <<token, now, asked>> /\ \E label \in {"waiting", "verify"} :
          pc' = [pc EXCEPT ![c] = label]
    BY <1>4 DEF ServeCached, Wait, VerifyWith, Goto
  <2> QED BY <1>1, <1>2, <2>1
<1>5. ASSUME NEW c \in Callers, lock = Nobody, ~Valid, Request(c), UNCHANGED <<now, token>>
      PROVE  Goal
  <2>1. c = d
    <3>1. pc[d] \notin Fetching
      BY <1>5, PayPalClientAssumption DEF LockInv
    <3>2. pc' = [pc EXCEPT ![c] = "fetch"]
      BY <1>5 DEF Request, Goto
    <3> QED BY <1>0, <3>1, <3>2
  <2>2. asked'[d].at = now
    BY <1>5, <2>1, RequestFacts
  <2> QED BY <1>0, <1>5, <2>2 DEF Valid
<1>6. ASSUME NEW c \in Callers, FetchAtOnce(c) PROVE Goal
  BY <1>5, <1>6 DEF FetchAtOnce
<1>7. ASSUME NEW c \in Callers, Acquire(c) PROVE Goal
  <2>1. lock = Nobody /\ UNCHANGED <<now, token>>
    BY <1>7 DEF Acquire
  <2>2. CASE VerifyWith(c, token.value)
    BY <1>1, <1>2, <2>1, <2>2 DEF VerifyWith, Goto
  <2>3. CASE ~Valid /\ Request(c)
    BY <1>5, <2>1, <2>3
  <2> QED BY <1>7, <2>2, <2>3 DEF Acquire
<1>8. ASSUME NEW c \in Callers, Issue(c) PROVE Goal
  <2>1. PICK life \in Nat : asked' = [asked EXCEPT ![c].life = life]
    BY <1>8, IssueFacts
  <2>2. asked'[d].at = asked[d].at
    BY <1>0, <2>1
  <2>3. pc[d] \in Fetching /\ UNCHANGED <<token, now>>
    BY <1>0, <1>8 DEF Issue, Goto
  <2> QED BY <1>1, <2>2, <2>3
<1>9. ASSUME NEW c \in Callers, Fetched(c) \/ FetchFails(c) PROVE Goal
  <2>1. pc[c] \in Fetching /\ \E label \in {"verify", "idle"} : pc' = [pc EXCEPT ![c] = label]
    BY <1>9 DEF Fetched, FetchFails, Return, Goto
  <2>2. d # c /\ pc[d] \in Fetching
    BY <1>2, <2>1
  <2> QED BY <2>1, <2>2 DEF LockInv
<1>10. ASSUME NEW c \in Callers, Verified(c) \/ Unauthorized(c) PROVE Goal
  <2>1. now' = now /\ token' \in {token, NoToken} /\ pc' = [pc EXCEPT ![c] = "idle"]
        /\ asked' = [asked EXCEPT ![c] = NoRequest]
    BY <1>10 DEF Verified, Unauthorized, Discard, Return, Goto
  <2>2. d # c /\ pc[d] \in Fetching
    BY <1>2, <2>1
  <2>3. asked'[d] = asked[d]
    BY <1>0, <2>1, <2>2
  <2>4. ~Valid /\ asked[d].at <= now
    BY <2>2 DEF FetchInv
  <2> QED BY <2>1, <2>3, <2>4 DEF Valid, NoToken
<1>11. CASE UNCHANGED vars
  BY <1>1, <1>11 DEF vars, calls
<1> QED BY <1>3, <1>4, <1>6, <1>7, <1>8, <1>9, <1>10, <1>11 DEF Next, Call, Proceed

LEMMA NewTokenStep == IInv /\ [Next]_vars => NewTokenInv'
<1> SUFFICES ASSUME TypeOK, LockInv, FetchInv, NewTokenInv, [Next]_vars,
                    NEW d \in Callers, pc'[d] = "issued"
             PROVE  /\ asked'[d].at + asked'[d].life <= expires'[using'[d]]
                    /\ using'[d] \notin rejected'
                    /\ \A o \in Callers : pc'[o] = "verify" => using'[o] # using'[d]
  BY DEF NewTokenInv, IInv
<1> DEFINE Goal == /\ asked'[d].at + asked'[d].life <= expires'[using'[d]]
                   /\ using'[d] \notin rejected'
                   /\ \A o \in Callers : pc'[o] = "verify" => using'[o] # using'[d]
<1> DEFINE OthersKept(c) == \A o \in Callers : o # c => using'[o] = using[o] /\ asked'[o] = asked[o]
           Rejected(c) == \/ rejected' = rejected
                          \/ pc[c] = "verify" /\ rejected' = rejected \cup {using[c]}
<1>0. /\ pc \in [Callers -> Labels] /\ using \in [Callers -> Nat]
      /\ asked \in [Callers -> [at : Nat, life : Nat]] /\ now \in Nat
      /\ rejected \subseteq Issued
      /\ \A c \in Callers : pc[c] \in {"issued", "verify"} => using[c] \in Issued
  BY TypesOf
<1>00. ASSUME pc[d] = "issued"
       PROVE  /\ lock = d
              /\ asked[d].at + asked[d].life <= expires[using[d]]
              /\ using[d] \notin rejected
              /\ \A o \in Callers : pc[o] = "verify" => using[o] # using[d]
  BY <1>00 DEF NewTokenInv, LockInv, Fetching
<1>1. ASSUME UNCHANGED <<pc, using, asked, expires, rejected>> PROVE Goal
  BY <1>00, <1>1
\* Another caller moves without getting a token.
<1>2. ASSUME NEW c \in Callers, NEW label \in {"waiting", "fetch", "idle"},
             pc' = [pc EXCEPT ![c] = label], UNCHANGED expires, OthersKept(c), Rejected(c)
      PROVE  Goal
  <2>1. d # c /\ pc[d] = "issued" /\ using'[d] = using[d] /\ asked'[d] = asked[d]
    BY <1>0, <1>2
  <2>2. using'[d] \notin rejected'
    BY <1>00, <1>2, <2>1
  <2>3. ASSUME NEW o \in Callers, pc'[o] = "verify" PROVE using'[o] # using'[d]
    <3>1. o # c /\ pc[o] = "verify" /\ using'[o] = using[o]
      BY <1>0, <1>2, <2>3
    <3> QED BY <1>00, <2>1, <3>1
  <2> QED BY <1>00, <1>2, <2>1, <2>2, <2>3
\* While a token is on its way the cache has none to serve.
<1>3. ASSUME NEW c \in Callers, Valid, VerifyWith(c, token.value) PROVE FALSE
  <2>1. pc' = [pc EXCEPT ![c] = "verify"]
    BY <1>3 DEF VerifyWith, Goto
  <2>2. pc[d] = "issued"
    BY <1>0, <2>1
  <2> QED BY <1>3, <2>2 DEF FetchInv, Fetching
<1> HIDE DEF OthersKept, Rejected
<1>4. CASE Tick
  BY <1>1, <1>4 DEF Tick, calls
<1>5. ASSUME NEW c \in Callers, ServeCached(c) PROVE Goal
  BY <1>3, <1>5 DEF ServeCached
<1>6. ASSUME NEW c \in Callers, Wait(c) PROVE Goal
  <2>1. pc' = [pc EXCEPT ![c] = "waiting"] /\ UNCHANGED <<using, asked, expires, rejected>>
    BY <1>6 DEF Wait, Goto
  <2>2. OthersKept(c) /\ Rejected(c)
    BY <2>1 DEF OthersKept, Rejected
  <2> QED BY <1>2, <2>1, <2>2
<1>7. ASSUME NEW c \in Callers, Request(c), UNCHANGED <<expires, rejected>> PROVE Goal
  <2>1. /\ pc' = [pc EXCEPT ![c] = "fetch"] /\ using' = using
        /\ \A o \in Callers : o # c => asked'[o] = asked[o]
    BY <1>7, RequestFacts
  <2>2. OthersKept(c) /\ Rejected(c)
    BY <1>7, <2>1 DEF OthersKept, Rejected
  <2> QED BY <1>2, <1>7, <2>1, <2>2
<1>8. ASSUME NEW c \in Callers, FetchAtOnce(c) PROVE Goal
  BY <1>7, <1>8 DEF FetchAtOnce
<1>9. ASSUME NEW c \in Callers, Acquire(c) PROVE Goal
  <2>1. UNCHANGED <<expires, rejected>>
    BY <1>9 DEF Acquire
  <2>2. (Valid /\ VerifyWith(c, token.value)) \/ Request(c)
    BY <1>9 DEF Acquire
  <2> QED BY <1>3, <1>7, <2>1, <2>2
<1>10. ASSUME NEW c \in Callers, Issue(c) PROVE Goal
  <2>1. /\ pc[c] = "fetch" /\ pc' = [pc EXCEPT ![c] = "issued"]
        /\ using' = [using EXCEPT ![c] = Len(expires) + 1]
        /\ Len(expires) + 1 \notin Issued /\ rejected' = rejected
    BY <1>10, IssueFacts
  <2>2. c = d
    <3>1. pc[c] \in Fetching /\ lock = c
      BY <2>1 DEF LockInv, Fetching
    <3>2. CASE c # d
      <4>1. pc[d] = "issued"
        BY <1>0, <2>1, <3>2
      <4> QED BY <1>00, <3>1, <3>2, <4>1
    <3> QED BY <3>2
  <2>3. PICK life \in Nat : /\ asked' = [asked EXCEPT ![d].life = life]
                            /\ expires'[Len(expires) + 1] = now + life
    BY <1>10, <2>2, IssueFacts
  <2>4. asked[d].at <= now /\ asked[d].at \in Nat
    BY <1>0, <2>1, <2>2 DEF FetchInv, Fetching
  <2>5. asked'[d].at = asked[d].at /\ asked'[d].life = life
    BY <1>0, <2>3
  <2>6. using'[d] = Len(expires) + 1
    BY <1>0, <2>1, <2>2
  <2>7. asked'[d].at + asked'[d].life <= expires'[using'[d]]
    <3>1. asked[d].at + life <= now + life
      BY <1>0, <2>4
    <3> QED BY <2>3, <2>5, <2>6, <3>1
  <2>8. using'[d] \notin rejected'
    BY <1>0, <2>1, <2>6
  <2>9. ASSUME NEW o \in Callers, pc'[o] = "verify" PROVE using'[o] # using'[d]
    <3>1. o # d /\ pc[o] = "verify" /\ using'[o] = using[o]
      BY <1>0, <2>1, <2>2, <2>9
    <3> QED BY <1>0, <2>1, <2>6, <3>1
  <2> QED BY <2>7, <2>8, <2>9
<1>11. ASSUME NEW c \in Callers, Fetched(c) PROVE Goal
  <2>1. pc[c] = "issued" /\ pc' = [pc EXCEPT ![c] = "verify"]
    BY <1>11 DEF Fetched, Goto
  <2>2. d # c /\ pc[d] = "issued"
    BY <1>0, <2>1
  <2> QED BY <1>00, <2>1, <2>2 DEF LockInv, Fetching
<1>12. ASSUME NEW c \in Callers, Return(c), UNCHANGED expires, Rejected(c) PROVE Goal
  <2>1. pc' = [pc EXCEPT ![c] = "idle"] /\ OthersKept(c)
    BY <1>0, <1>12 DEF Return, Goto, OthersKept
  <2> QED BY <1>2, <1>12, <2>1
<1>13. ASSUME NEW c \in Callers, FetchFails(c) \/ Verified(c) PROVE Goal
  BY <1>12, <1>13 DEF FetchFails, Verified, Rejected
<1>14. ASSUME NEW c \in Callers, Unauthorized(c) PROVE Goal
  BY <1>12, <1>14 DEF Unauthorized, Rejected
<1>15. CASE UNCHANGED vars
  BY <1>1, <1>15 DEF vars, calls
<1> QED BY <1>4, <1>5, <1>6, <1>8, <1>9, <1>10, <1>11, <1>13, <1>14, <1>15
        DEF Next, Call, Proceed

\* A fetched token is refreshed in time, because its life is counted from the request.
LEMMA RefreshedInTime ==
  ASSUME IInv, NEW c \in Callers, pc[c] = "issued"
  PROVE  RefreshAt(c) <= now \/ RefreshAt(c) + Margin <= expires[using[c]]
<1>1. asked[c].at \in Nat /\ asked[c].life \in Nat /\ now \in Nat /\ Margin \in Nat
      /\ asked[c].at <= now /\ asked[c].at + asked[c].life <= expires[using[c]]
  BY DEF IInv, TypeOK, FetchInv, NewTokenInv, Fetching
<1>2. Usable(asked[c].life) = 0 \/ Usable(asked[c].life) + Margin = asked[c].life
  BY <1>1, UsableBound
<1>3. Usable(asked[c].life) \in Nat
  BY <1>1, UsableBound
<1> QED BY <1>1, <1>2, <1>3 DEF RefreshAt

LEMMA CacheStep == IInv /\ [Next]_vars => CacheInv'
<1> SUFFICES ASSUME IInv, [Next]_vars, token'.value # 0
             PROVE  \/ token'.refresh_at <= now'
                    \/ token'.refresh_at + Margin <= expires'[token'.value]
  BY DEF CacheInv
<1> DEFINE Goal == \/ token'.refresh_at <= now'
                   \/ token'.refresh_at + Margin <= expires'[token'.value]
<1>1. now \in Nat /\ token \in [value : Nat, refresh_at : Nat]
      /\ (token.value # 0 => token.value \in Issued)
  BY TypesOf DEF IInv
<1>2. ASSUME UNCHANGED <<token, expires>>, now' = now \/ now' = now + 1 PROVE Goal
  <2>1. \/ token.refresh_at <= now \/ token.refresh_at + Margin <= expires[token.value]
    BY <1>2 DEF IInv, CacheInv
  <2> QED BY <1>1, <1>2, <2>1
<1>3. CASE Tick
  BY <1>2, <1>3 DEF Tick
<1>4. ASSUME NEW c \in Callers, Call(c) \/ Acquire(c) \/ FetchFails(c) \/ Verified(c)
      PROVE  Goal
  BY <1>2, <1>4 DEF Call, ServeCached, FetchAtOnce, Wait, Acquire, FetchFails, Verified
<1>5. ASSUME NEW c \in Callers, Issue(c) PROVE Goal
  <2>1. TypeOK /\ CacheInv
    BY DEF IInv
  <2>2. UNCHANGED <<now, token>> /\ \A n \in Issued : expires'[n] = expires[n]
    BY <1>5, <2>1, IssueFacts
  <2>3. token.value \in Issued
    BY <1>1, <2>2
  <2> QED BY <2>1, <2>2, <2>3 DEF CacheInv
<1>6. ASSUME NEW c \in Callers, Fetched(c) PROVE Goal
  BY <1>6, RefreshedInTime DEF Fetched
<1>7. ASSUME NEW c \in Callers, Unauthorized(c) PROVE Goal
  <2>1. token' = token
    BY <1>7 DEF Unauthorized, Discard, NoToken
  <2> QED BY <1>2, <1>7, <2>1 DEF Unauthorized
<1>8. CASE UNCHANGED vars
  BY <1>2, <1>8 DEF vars
<1> QED BY <1>3, <1>4, <1>5, <1>6, <1>7, <1>8 DEF Next, Proceed

LEMMA RejectedStep == IInv /\ [Next]_vars => RejectedTokenGone'
<1> SUFFICES ASSUME IInv, [Next]_vars PROVE token'.value \notin rejected'
  BY DEF RejectedTokenGone
<1>1. ASSUME UNCHANGED <<token, rejected>> PROVE token'.value \notin rejected'
  BY <1>1 DEF IInv, RejectedTokenGone
<1>2. CASE Tick
  BY <1>1, <1>2 DEF Tick
<1>3. ASSUME NEW c \in Callers,
             Call(c) \/ Acquire(c) \/ Issue(c) \/ FetchFails(c) \/ Verified(c)
      PROVE  token'.value \notin rejected'
  BY <1>1, <1>3 DEF Call, ServeCached, FetchAtOnce, Wait, Acquire, Issue, FetchFails, Verified
<1>4. ASSUME NEW c \in Callers, Fetched(c) PROVE token'.value \notin rejected'
  BY <1>4 DEF Fetched, IInv, NewTokenInv
<1>5. ASSUME NEW c \in Callers, Unauthorized(c) PROVE token'.value \notin rejected'
  <2>1. 0 \notin rejected \cup {using[c]}
    BY <1>5 DEF Unauthorized, IInv, TypeOK, TokenTypeOK, Issued
  <2>2. token.value \notin rejected
    BY DEF IInv, RejectedTokenGone
  <2>3. CASE token.value = using[c]
    BY <1>5, <2>1, <2>3 DEF Unauthorized, Discard, NoToken
  <2>4. CASE token.value # using[c]
    BY <1>5, <2>2, <2>4 DEF Unauthorized, Discard
  <2> QED BY <2>3, <2>4
<1>6. CASE UNCHANGED vars
  BY <1>1, <1>6 DEF vars
<1> QED BY <1>2, <1>3, <1>4, <1>5, <1>6 DEF Next, Proceed

-----------------------------------------------------------------------------

\* The strengthened invariant holds in every reachable state.
THEOREM Inductive == Spec => []IInv
<1>1. IInv /\ [Next]_vars => IInv'
  BY TypeStep, LockStep, FetchStep, NewTokenStep, CacheStep, RejectedStep DEF IInv
<1> QED BY InitIInv, <1>1, PTL DEF Spec

\* The state of the client stays of its types: tokens in circulation are PayPal's.
THEOREM TypeCorrect == Spec => []TypeOK
<1>1. IInv => TypeOK
  BY DEF IInv
<1> QED BY Inductive, <1>1, PTL

\* get_access_token: one fetch at a time, and none while a usable token is cached.
THEOREM FetchShared == Spec => []FetchesShared
<1>1. IInv => FetchesShared
  BY DEF IInv, LockInv, FetchInv, FetchesShared, Fetching
<1> QED BY Inductive, <1>1, PTL

\* A token taken from the cache outlives the refresh margin.
THEOREM ServedTokensAreLive == Spec => []ServedTokensLive
<1>1. ASSUME IInv, Valid PROVE now + Margin < expires[token.value]
  <2>1. now \in Nat /\ token.refresh_at \in Nat /\ expires[token.value] \in Nat
    BY <1>1 DEF IInv, TypeOK, TokenTypeOK, Valid, Issued
  <2> QED BY <1>1, <2>1 DEF IInv, CacheInv, Valid
<1>2. IInv => ServedTokensLive
  BY <1>1 DEF ServedTokensLive
<1> QED BY Inductive, <1>2, PTL

\* A token answered 401 is never served again, whenever the answer arrives.
THEOREM RejectedForgotten == Spec => []RejectedTokenGone
<1>1. IInv => RejectedTokenGone
  BY DEF IInv
<1> QED BY Inductive, <1>1, PTL

\* The cache loses a token only to a 401 for that very token.
THEOREM NewTokenIsKept == Spec => NewTokenKept
<1>1. ASSUME IInv, [Next]_vars, token' = NoToken
      PROVE  token = NoToken \/ token.value \in rejected'
  <2>1. CASE token' = token
    BY <1>1, <2>1
  <2>2. ASSUME NEW c \in Callers, Fetched(c) PROVE FALSE
    BY <1>1, <2>2 DEF Fetched, NoToken, IInv, TypeOK, TokenTypeOK, Issued
  <2>3. ASSUME NEW c \in Callers, Unauthorized(c) PROVE token' = token \/ token.value \in rejected'
    BY <2>3 DEF Unauthorized, Discard
  <2>4. ASSUME NEW c \in Callers,
               Call(c) \/ Acquire(c) \/ Issue(c) \/ FetchFails(c) \/ Verified(c)
        PROVE  token' = token
    BY <2>4 DEF Call, ServeCached, FetchAtOnce, Wait, Acquire, Issue, FetchFails, Verified
  <2> QED BY <1>1, <2>1, <2>2, <2>3, <2>4 DEF Next, Proceed, Tick, vars
<1>2. IInv /\ [Next]_vars =>
        [token' = NoToken => token = NoToken \/ token.value \in rejected']_vars
  BY <1>1
<1> QED BY Inductive, <1>2, PTL DEF Spec, NewTokenKept
=============================================================================
