--------------------------- MODULE LoopbackProofs ---------------------------
(***************************************************************************)
(* A signed request is let through at most once per process, for any       *)
(* number of requests, handlers and clock values, as long as the cache     *)
(* outlives two skews and one reading of a body.                           *)
(***************************************************************************)
EXTENDS Loopback, TLAPS

(* The date under which a nonce is remembered is no later than the clock and
   no more than a skew before the timestamp. *)
DatesNearStamps ==
  \A m \in Messages : nonces[m] # Nothing =>
    /\ nonces[m] <= clock
    /\ stamp[m] # Nothing
    /\ stamp[m] <= nonces[m] + MaxClockSkew

(* Only signed requests are accepted. *)
AcceptedAreSigned ==
  \A m \in Messages : accepted[m] > 0 => stamp[m] # Nothing

LoopbackInv ==
  /\ LoopbackTypeOK
  /\ DatesNearStamps
  /\ AcceptedAreSigned
  /\ AcceptedAtMostOnce
  /\ RememberedWhileAcceptable

LEMMA LoopbackInitInv ==
  ASSUME LoopbackInit PROVE LoopbackInv
  BY ClockAssumption, NothingAssumption
  DEF LoopbackInit, LoopbackInv, LoopbackTypeOK, DatesNearStamps,
      AcceptedAreSigned, AcceptedAtMostOnce, RememberedWhileAcceptable

LEMMA SignPreserves ==
  ASSUME LoopbackInv, NEW m \in Messages, Sign(m)
  PROVE  LoopbackInv'
<1> USE ClockAssumption, NothingAssumption DEF LoopbackInv, Sign
<1>1. LoopbackTypeOK'
  BY DEF LoopbackTypeOK, Time
<1>2. DatesNearStamps' /\ AcceptedAreSigned'
  BY DEF LoopbackTypeOK, DatesNearStamps, AcceptedAreSigned
<1>3. AcceptedAtMostOnce' /\ RememberedWhileAcceptable'
  BY DEF LoopbackTypeOK, AcceptedAreSigned, AcceptedAtMostOnce, RememberedWhileAcceptable
<1> QED
  BY <1>1, <1>2, <1>3

LEMMA ReceivePreserves ==
  ASSUME LoopbackInv, NEW h \in Handlers, NEW m \in Messages, Receive(h, m)
  PROVE  LoopbackInv'
<1> USE ClockAssumption, NothingAssumption DEF LoopbackInv, Receive
<1>1. LoopbackTypeOK'
  BY DEF LoopbackTypeOK, InSkew
<1>2. /\ DatesNearStamps' /\ AcceptedAreSigned'
      /\ AcceptedAtMostOnce' /\ RememberedWhileAcceptable'
  BY DEF DatesNearStamps, AcceptedAreSigned, AcceptedAtMostOnce,
         RememberedWhileAcceptable
<1> QED
  BY <1>1, <1>2

LEMMA AbandonPreserves ==
  ASSUME LoopbackInv, NEW h \in Handlers, Abandon(h)
  PROVE  LoopbackInv'
<1> USE DEF LoopbackInv, Abandon
<1>1. LoopbackTypeOK'
  BY NothingAssumption DEF LoopbackTypeOK
<1>2. /\ DatesNearStamps' /\ AcceptedAreSigned'
      /\ AcceptedAtMostOnce' /\ RememberedWhileAcceptable'
  BY DEF DatesNearStamps, AcceptedAreSigned, AcceptedAtMostOnce,
         RememberedWhileAcceptable
<1> QED
  BY <1>1, <1>2

(* A nonce whose memory is wiped by a handler's clean-up is of a timestamp
   that no handler can use any more. *)
LEMMA ForgottenTooLateToUse ==
  ASSUME LoopbackInv, NEW h \in Handlers, request[h] # Nothing,
         NEW m \in Messages, nonces[m] # Nothing, Expired(nonces[m], now[h])
  PROVE  clock > stamp[m] + MaxClockSkew + ReadTimeout
<1>1. now[h] <= clock /\ now[h] \in Nat /\ clock \in Nat
  BY DEF LoopbackInv, LoopbackTypeOK
<1>2. nonces[m] \in Nat /\ stamp[m] \in Nat /\ stamp[m] <= nonces[m] + MaxClockSkew
  BY DEF LoopbackInv, LoopbackTypeOK, DatesNearStamps
<1>3. nonces[m] + NonceCacheTTL < now[h]
  BY <1>1, <1>2, ClockAssumption DEF Expired
<1> QED
  BY <1>1, <1>2, <1>3, TTLAssumption, ClockAssumption

LEMMA RememberNoncePreserves ==
  ASSUME LoopbackInv, NEW h \in Handlers, RememberNonce(h)
  PROVE  LoopbackInv'
<1> USE ClockAssumption, NothingAssumption DEF LoopbackInv, RememberNonce
<1> DEFINE kept == Cleaned(now[h])
<1>1. PICK m \in Messages : m = request[h]
  BY DEF LoopbackTypeOK
<1>2. /\ now[h] \in Nat /\ now[h] <= clock /\ clock <= now[h] + ReadTimeout
      /\ clock \in Nat /\ stamp[m] \in Nat
      /\ stamp[m] <= now[h] + MaxClockSkew /\ stamp[m] >= now[h] - MaxClockSkew
  BY <1>1 DEF LoopbackTypeOK
<1>3. /\ kept \in [Messages -> Nat \cup {Nothing}]
      /\ \A k \in Messages : kept[k] = Nothing \/ kept[k] = nonces[k]
      /\ \A k \in Messages : nonces[k] # Nothing /\ kept[k] = Nothing
           => clock > stamp[k] + MaxClockSkew + ReadTimeout
  BY ForgottenTooLateToUse DEF Cleaned, LoopbackTypeOK
<1>4. CASE kept[m] = Nothing
  <2>1. nonces' = [kept EXCEPT ![m] = now[h]] /\ accepted' = [accepted EXCEPT ![m] = Bump(@)]
    BY <1>1, <1>4
  <2>2. nonces[m] = Nothing
    BY <1>2, <1>3, <1>4
  <2>3. accepted[m] = 0
    BY <1>2, <2>2 DEF RememberedWhileAcceptable, LoopbackTypeOK
  <2>4. accepted'[m] = 1 /\ \A k \in Messages \ {m} : accepted'[k] = accepted[k]
    BY <2>1, <2>3 DEF Bump, LoopbackTypeOK
  <2>5. nonces'[m] = now[h] /\ \A k \in Messages \ {m} : nonces'[k] = kept[k]
    BY <1>3, <2>1
  <2>6. LoopbackTypeOK'
    BY <1>2, <1>3, <2>1, <2>4 DEF LoopbackTypeOK
  <2>7. DatesNearStamps'
    BY <1>2, <1>3, <2>5 DEF DatesNearStamps, LoopbackTypeOK
  <2>8. AcceptedAreSigned' /\ AcceptedAtMostOnce'
    BY <1>2, <2>4 DEF AcceptedAreSigned, AcceptedAtMostOnce
  <2>9. RememberedWhileAcceptable'
    BY <1>2, <1>3, <2>4, <2>5 DEF RememberedWhileAcceptable
  <2> QED BY <2>6, <2>7, <2>8, <2>9
<1>5. CASE kept[m] # Nothing
  <2>1. nonces' = kept /\ UNCHANGED accepted
    BY <1>1, <1>5
  <2>2. LoopbackTypeOK'
    BY <1>3, <2>1 DEF LoopbackTypeOK
  <2>3. DatesNearStamps'
    BY <1>3, <2>1 DEF DatesNearStamps
  <2>4. AcceptedAreSigned' /\ AcceptedAtMostOnce'
    BY <2>1 DEF AcceptedAreSigned, AcceptedAtMostOnce
  <2>5. RememberedWhileAcceptable'
    BY <1>3, <2>1 DEF RememberedWhileAcceptable
  <2> QED BY <2>2, <2>3, <2>4, <2>5
<1> QED
  BY <1>4, <1>5

LEMMA RestartPreserves ==
  ASSUME LoopbackInv, Restart
  PROVE  LoopbackInv'
<1> USE DEF LoopbackInv, Restart
<1>1. LoopbackTypeOK'
  BY DEF LoopbackTypeOK
<1>2. /\ DatesNearStamps' /\ AcceptedAreSigned'
      /\ AcceptedAtMostOnce' /\ RememberedWhileAcceptable'
  BY DEF DatesNearStamps, AcceptedAreSigned, AcceptedAtMostOnce,
         RememberedWhileAcceptable
<1> QED
  BY <1>1, <1>2

LEMMA TickPreserves ==
  ASSUME LoopbackInv, Tick
  PROVE  LoopbackInv'
<1> USE ClockAssumption, NothingAssumption DEF LoopbackInv, Tick
<1>1. LoopbackTypeOK'
  BY DEF LoopbackTypeOK
<1>2. DatesNearStamps'
  BY DEF DatesNearStamps, LoopbackTypeOK
<1>3. AcceptedAreSigned' /\ AcceptedAtMostOnce'
  BY DEF AcceptedAreSigned, AcceptedAtMostOnce
<1>4. RememberedWhileAcceptable'
  BY DEF RememberedWhileAcceptable, AcceptedAreSigned, LoopbackTypeOK
<1> QED
  BY <1>1, <1>2, <1>3, <1>4

LEMMA LoopbackStep ==
  ASSUME LoopbackInv, [LoopbackNext]_loopbackVars PROVE LoopbackInv'
<1>1. CASE UNCHANGED loopbackVars
  BY <1>1
  DEF loopbackVars, LoopbackInv, LoopbackTypeOK, DatesNearStamps,
      AcceptedAreSigned, AcceptedAtMostOnce, RememberedWhileAcceptable
<1> QED
  BY <1>1, SignPreserves, ReceivePreserves, AbandonPreserves, RememberNoncePreserves,
     RestartPreserves, TickPreserves
  DEF LoopbackNext

(* The inductive invariant holds in every state of every behaviour. *)
THEOREM LoopbackInvariant == LoopbackSpec => []LoopbackInv
<1>1. LoopbackInit => LoopbackInv
  BY LoopbackInitInv
<1>2. LoopbackInv /\ [LoopbackNext]_loopbackVars => LoopbackInv'
  BY LoopbackStep
<1> QED BY <1>1, <1>2, PTL DEF LoopbackSpec

(* No process lets one signed request through twice. *)
THEOREM AtMostOnce == LoopbackSpec => []AcceptedAtMostOnce
  BY LoopbackInvariant, PTL DEF LoopbackInv

(* The cache forgets a nonce only when its request is unusable. *)
THEOREM RememberedLongEnough == LoopbackSpec => []RememberedWhileAcceptable
  BY LoopbackInvariant, PTL DEF LoopbackInv

=============================================================================
