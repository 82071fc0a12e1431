------------------------------ MODULE Loopback ------------------------------
(***************************************************************************)
(* The request authenticator of the localhost server (internal/loopback):  *)
(* a signed request carries a timestamp and a nonce, the timestamp must be *)
(* near the server's clock and the nonce must not have been seen.          *)
(*                                                                         *)
(* Each request is handled by a goroutine of its own.  The clock is read   *)
(* once, before the body is; the value read then is used after the body    *)
(* has arrived, up to ReadTimeout later, both to forget old nonces and as  *)
(* the date of the new one.  Other requests, with later clock readings,    *)
(* run in between.                                                         *)
(*                                                                         *)
(* Definitions named Wrong... are mutated forms, see Outbox.               *)
(***************************************************************************)
EXTENDS Integers

CONSTANTS
  Messages,       (* signed requests; each has a nonce of its own          *)
  Handlers,       (* goroutines that may handle requests at once           *)
  Nothing,        (* no message, or no date                                *)
  MaxClockSkew,   (* accepted distance of a timestamp from the clock       *)
  NonceCacheTTL,  (* how long a nonce is remembered                        *)
  ReadTimeout,    (* longest time between the clock reading and its use    *)
  MaxTime         (* bound: end of time                                    *)

ASSUME ClockAssumption ==
  /\ MaxClockSkew \in Nat
  /\ NonceCacheTTL \in Nat
  /\ ReadTimeout \in Nat
  /\ MaxTime \in Nat

(* The source asks for NonceCacheTTL >= 2 * MaxClockSkew and sets it to
   three times the skew; what the design needs is room for ReadTimeout too. *)
ASSUME TTLAssumption ==
  NonceCacheTTL >= 2 * MaxClockSkew + ReadTimeout

ASSUME NothingAssumption ==
  Nothing \notin Messages /\ Nothing \notin Int

Time == 0..MaxTime

VARIABLES
  clock,      (* the server's clock                                       *)
  stamp,      (* stamp[m]: the timestamp m was signed with, or Nothing *)
  nonces,     (* nonces[m]: the date under which m's nonce is remembered  *)
  request,    (* request[h]: the message handler h works on, or Nothing  *)
  now,        (* now[h]: the clock reading of handler h                   *)
  accepted    (* accepted[m]: 0, 1, 2 (more) times m was let through      *)

loopbackVars == <<clock, stamp, nonces, request, now, accepted>>

LoopbackInit ==
  /\ clock    = 0
  /\ stamp    = [m \in Messages |-> Nothing]
  /\ nonces   = [m \in Messages |-> Nothing]
  /\ request  = [h \in Handlers |-> Nothing]
  /\ now      = [h \in Handlers |-> 0]
  /\ accepted = [m \in Messages |-> 0]

-----------------------------------------------------------------------------

(* A client signs a request; its clock may be wrong by any amount. *)
Sign(m) ==
  /\ stamp[m] = Nothing
  /\ \E t \in Time : stamp' = [stamp EXCEPT ![m] = t]
  /\ UNCHANGED <<clock, nonces, request, now, accepted>>

WrongInSkew(t) == t <= clock + MaxClockSkew

InSkew(t) == t >= clock - MaxClockSkew /\ t <= clock + MaxClockSkew

(* The head of a request arrives, perhaps of one that was sent before, and
   its timestamp passes; a request outside the skew leaves no trace. *)
Receive(h, m) ==
  /\ request[h] = Nothing
  /\ stamp[m] # Nothing
  /\ InSkew(stamp[m])
  /\ request' = [request EXCEPT ![h] = m]
  /\ now'     = [now EXCEPT ![h] = clock]
  /\ UNCHANGED <<clock, stamp, nonces, accepted>>

(* The body does not arrive, or the signature does not match. *)
Abandon(h) ==
  /\ request[h] # Nothing
  /\ request' = [request EXCEPT ![h] = Nothing]
  /\ UNCHANGED <<clock, stamp, nonces, now, accepted>>

(* A cache that keeps nonces for one skew, or for just the two the source
   asks for. *)
WrongExpired(date, t) == date # Nothing /\ date < t - MaxClockSkew

WrongExpiredAtBound(date, t) == date # Nothing /\ date < t - 2 * MaxClockSkew

Expired(date, t) == date # Nothing /\ date < t - NonceCacheTTL

(* The nonces that outlive the clean-up at clock reading t. *)
Cleaned(t) ==
  [m \in Messages |-> IF Expired(nonces[m], t) THEN Nothing ELSE nonces[m]]

Bump(n) == IF n < 2 THEN n + 1 ELSE n

(* The body is here in time and the signature is good: rememberNonce, under
   the mutex, cleans up and then lets the request through or finds it a
   replay. *)
RememberNonce(h) ==
  /\ request[h] # Nothing
  /\ clock <= now[h] + ReadTimeout
  /\ LET m == request[h]
         kept == Cleaned(now[h])
     IN IF kept[m] = Nothing
          THEN /\ nonces'   = [kept EXCEPT ![m] = now[h]]
               /\ accepted' = [accepted EXCEPT ![m] = Bump(@)]
          ELSE nonces' = kept /\ UNCHANGED accepted
  /\ request' = [request EXCEPT ![h] = Nothing]
  /\ UNCHANGED <<clock, stamp, now>>

(* The service starts again: the memory of nonces is gone, and the count of
   what this process has accepted with it. *)
Restart ==
  /\ nonces'   = [m \in Messages |-> Nothing]
  /\ request'  = [h \in Handlers |-> Nothing]
  /\ accepted' = [m \in Messages |-> 0]
  /\ UNCHANGED <<clock, stamp, now>>

Tick ==
  /\ clock < MaxTime
  /\ clock' = clock + 1
  /\ UNCHANGED <<stamp, nonces, request, now, accepted>>

LoopbackNext ==
  \/ \E m \in Messages : Sign(m)
  \/ \E h \in Handlers, m \in Messages : Receive(h, m)
  \/ \E h \in Handlers : Abandon(h) \/ RememberNonce(h)
  \/ Restart
  \/ Tick

LoopbackSpec == LoopbackInit /\ [][LoopbackNext]_loopbackVars

-----------------------------------------------------------------------------
(* Properties. *)

(* Types; a handler at work has a reading no later than the clock and a
   timestamp it found within the skew of that reading. *)
LoopbackTypeOK ==
  /\ clock    \in Nat
  /\ stamp    \in [Messages -> Nat \cup {Nothing}]
  /\ nonces   \in [Messages -> Nat \cup {Nothing}]
  /\ request  \in [Handlers -> Messages \cup {Nothing}]
  /\ now      \in [Handlers -> Nat]
  /\ accepted \in [Messages -> 0..2]
  /\ \A h \in Handlers : request[h] # Nothing =>
       /\ now[h] <= clock
       /\ stamp[request[h]] # Nothing
       /\ stamp[request[h]] >= now[h] - MaxClockSkew
       /\ stamp[request[h]] <= now[h] + MaxClockSkew

(* One process lets one signed request through at most once, however late and
   in whatever order its copies are handled while the cache is cleaned with
   clock readings of other requests.  (authenticate, rememberNonce.) *)
AcceptedAtMostOnce == \A m \in Messages : accepted[m] <= 1

(* A nonce is never dated before the memory of it is needed: a request that
   was accepted is remembered until its timestamp has left the window for
   every handler that may still be at work.  (The order of clean-up, lookup
   and insertion in rememberNonce, NonceCacheTTL against MaxClockSkew.) *)
RememberedWhileAcceptable ==
  \A m \in Messages : accepted[m] > 0 =>
    \/ nonces[m] # Nothing
    \/ clock > stamp[m] + MaxClockSkew + ReadTimeout

=============================================================================
