------------------------------- MODULE Issuer -------------------------------
(***************************************************************************)
(* The licence issuer (tallywa/cmd/tallywa-issuer): a payment becomes a    *)
(* token, and a token becomes a signed licence for up to max_redemptions   *)
(* machines.                                                               *)
(*                                                                         *)
(* Requests are handled at once by several goroutines; the payment         *)
(* provider repeats a webhook until it is answered, and a customer repeats *)
(* a redemption at will.  The SQLite database has one connection: a        *)
(* statement or a transaction is one step, and everything between two of   *)
(* them may interleave.  The process may die between any two steps.        *)
(*                                                                         *)
(* Definitions named Wrong... are mutated forms, see Outbox.               *)
(***************************************************************************)
EXTENDS Naturals, FiniteSets

CONSTANTS
  Payments,        (* captured payments                                     *)
  CLI,             (* in place of a payment: minted on the command line     *)
  PlanOf,          (* the plan a payment names                              *)
  Plans,           (* the plans for sale                                    *)
  MaxRedemptions,  (* machines a plan allows                                *)
  Codes,           (* what generateToken may draw                           *)
  Fingerprints,    (* machines                                              *)
  Handlers,        (* requests that may be handled at once                  *)
  None,
  MaxLicenses,     (* bound: licence ids drawn                              *)
  MaxFailures      (* bound: database errors, lost answers and crashes      *)

ASSUME PlansAssumption ==
  /\ MaxRedemptions \in [Plans -> Nat \ {0}]
  /\ CLI \notin Payments

ASSUME BoundsAssumption ==
  /\ MaxLicenses \in Nat
  /\ MaxFailures \in Nat

ASSUME NoneAssumption ==
  /\ None \notin Payments \cup {CLI}
  /\ None \notin Codes
  /\ None \notin Nat

LicenseIds == 1..MaxLicenses
Sources    == Payments \cup {CLI}

Webhooks    == [type : {"webhook"}, payment : Payments]
Redeems     == [type : {"redeem"}, code : Codes, fingerprint : Fingerprints]
Redemptions == [fingerprint : Fingerprints, license : LicenseIds]
Licenses    == [code : Codes, fingerprint : Fingerprints, license : LicenseIds]

VARIABLES
  (* The table "tokens". *)
  source,       (* source[c]: what token c was minted for, None if it is not *)
  plan,         (* plan[c]                                                  *)
  used,         (* redemptions_used                                         *)
  redemptions,  (* the machines the token has signed for                    *)
  (* The goroutines. *)
  pc,           (* where a handler is                                       *)
  job,          (* the request it handles                                   *)
  code,         (* the code a webhook handler is about to answer with       *)
  license,      (* the licence id a redeem handler has drawn or found       *)
  nextId,       (* the next licence id: ULIDs are never drawn twice         *)
  (* The outside. *)
  acked,        (* payments whose webhook the provider saw answered with 200 *)
  (* History. *)
  told,         (* told[p]: the codes p's webhook was answered with         *)
  issued,       (* licences signed                                          *)
  refused,      (* <<code, fingerprint>> answered with "token_exhausted"    *)
  failures      (* errors so far                                            *)

table   == <<source, plan, used, redemptions>>
handler == <<pc, job, code, license>>
history == <<told, issued, refused>>
vars    == <<table, handler, nextId, acked, history, failures>>

Init ==
  /\ source      = [c \in Codes |-> None]
  /\ plan        = [c \in Codes |-> None]
  /\ used        = [c \in Codes |-> 0]
  /\ redemptions = [c \in Codes |-> {}]
  /\ pc          = [h \in Handlers |-> "idle"]
  /\ job         = [h \in Handlers |-> None]
  /\ code        = [h \in Handlers |-> None]
  /\ license     = [h \in Handlers |-> None]
  /\ nextId      = 1
  /\ acked       = {}
  /\ told        = [p \in Payments |-> {}]
  /\ issued      = {}
  /\ refused     = {}
  /\ failures    = 0

-----------------------------------------------------------------------------
(* Tokens. *)

Minted(c) == source[c] # None

Limit(c) == MaxRedemptions[plan[c]]

WrongInsertable(c, s) == ~Minted(c)

(* The constraints of the table: a code is a primary key, and a payment id,
   where there is one, is unique. *)
Insertable(c, s) ==
  /\ ~Minted(c)
  /\ s # CLI => \A d \in Codes : source[d] # s

Insert(c, s, pl) ==
  /\ source' = [source EXCEPT ![c] = s]
  /\ plan'   = [plan EXCEPT ![c] = pl]
  /\ UNCHANGED <<used, redemptions>>

(* The payments that are still to get a token. *)
Unserved == {p \in Payments : PlanOf[p] \in Plans /\ \A c \in Codes : source[c] # p}

(* The command line tool, another process on the same database.  The first
   conjunct is a bound: it leaves a code for each payment, as 31^12 of them
   always do. *)
Mint(c, pl) ==
  /\ Cardinality({d \in Codes : ~Minted(d)}) > Cardinality(Unserved)
  /\ Insertable(c, CLI)
  /\ Insert(c, CLI, pl)
  /\ UNCHANGED <<handler, nextId, acked, history, failures>>

-----------------------------------------------------------------------------
(* Requests come and are answered. *)

Goto(h, l) == pc' = [pc EXCEPT ![h] = l]

Arrive(h, j, l) ==
  /\ pc[h] = "idle"
  /\ Goto(h, l)
  /\ job' = [job EXCEPT ![h] = j]
  /\ UNCHANGED <<table, code, license, nextId, acked, history, failures>>

WebhookArrives(h, p) == Arrive(h, [type |-> "webhook", payment |-> p], "find")

(* The first conjunct is the bound on licence ids. *)
RedeemArrives(h, c, f) ==
  /\ nextId + Cardinality({g \in Handlers : pc[g] = "lookup"}) <= MaxLicenses
  /\ Arrive(h, [type |-> "redeem", code |-> c, fingerprint |-> f], "lookup")

(* The handler has answered and is forgotten. *)
Answered(h) ==
  /\ Goto(h, "idle")
  /\ job'     = [job EXCEPT ![h] = None]
  /\ code'    = [code EXCEPT ![h] = None]
  /\ license' = [license EXCEPT ![h] = None]

(* A statement or a transaction fails, and is rolled back, or the licence
   cannot be signed: 500. *)
StoreFails(h) ==
  /\ pc[h] \in {"find", "mint", "lookup", "claim", "sign"}
  /\ failures < MaxFailures
  /\ failures' = failures + 1
  /\ Answered(h)
  /\ UNCHANGED <<table, nextId, acked, history>>

-----------------------------------------------------------------------------
(* handleRazorpayWebhook: two statements, with room between them for the same
   payment in another goroutine. *)

WrongForSale(p) == TRUE

ForSale(p) == PlanOf[p] \in Plans

WrongFound(p) == {}

Found(p) == {c \in Codes : source[c] = p}

FindByPaymentID(h) ==
  /\ pc[h] = "find"
  /\ LET p == job[h].payment IN
       \/ \E c \in Found(p) : code' = [code EXCEPT ![h] = c] /\ Goto(h, "answer")
                              /\ UNCHANGED <<job, license>>
       \/ Found(p) = {} /\ ForSale(p) /\ Goto(h, "mint")
                        /\ UNCHANGED <<job, code, license>>
       \/ Found(p) = {} /\ ~ForSale(p) /\ Answered(h)
  /\ UNCHANGED <<table, nextId, acked, history, failures>>

(* mintToken and CreateToken: a code is drawn; when the insert violates a
   constraint, because the code is taken or because another goroutine was
   faster with the same payment, the answer is 500. *)
CreateToken(h, c) ==
  /\ pc[h] = "mint"
  /\ LET p == job[h].payment IN
       IF Insertable(c, p)
         THEN /\ Insert(c, p, PlanOf[p])
              /\ code' = [code EXCEPT ![h] = c]
              /\ Goto(h, "answer")
              /\ UNCHANGED <<job, license>>
         ELSE Answered(h) /\ UNCHANGED table
  /\ UNCHANGED <<nextId, acked, history, failures>>

(* 200 with the code; the provider may not get it, and will try again. *)
AnswerWebhook(h) ==
  /\ pc[h] = "answer"
  /\ LET p == job[h].payment IN
       /\ told' = [told EXCEPT ![p] = @ \cup {code[h]}]
       /\ \/ acked' = acked \cup {p} /\ UNCHANGED failures
          \/ failures < MaxFailures /\ failures' = failures + 1 /\ UNCHANGED acked
  /\ Answered(h)
  /\ UNCHANGED <<table, nextId, issued, refused>>

-----------------------------------------------------------------------------
(* handleRedeem. *)

(* The token is looked up, and a fresh licence id drawn. *)
GetToken(h) ==
  /\ pc[h] = "lookup"
  /\ IF Minted(job[h].code)
       THEN /\ nextId <= MaxLicenses
            /\ license' = [license EXCEPT ![h] = nextId]
            /\ nextId'  = nextId + 1
            /\ Goto(h, "claim")
            /\ UNCHANGED <<job, code>>
       ELSE Answered(h) /\ UNCHANGED nextId
  /\ UNCHANGED <<table, acked, history, failures>>

WrongEarlier(c, f) ==
  {r \in redemptions[c] : r.fingerprint = f /\ used[c] < Limit(c)}

(* This machine's redemption of the token, if it has one. *)
Earlier(c, f) == {r \in redemptions[c] : r.fingerprint = f}

WrongExhausted(c) == used[c] > Limit(c)

Exhausted(c) == used[c] >= Limit(c)

WrongAppended(c, r) == {r}

Appended(c, r) == redemptions[c] \cup {r}

(* The licence id that is signed: the original one on a re-activation. *)
WrongSignedId(r, h) == license[h]

SignedId(r, h) == r.license

(* Store.Redeem, one transaction: a machine known to the token consumes
   nothing, a new one takes a redemption while there is one. *)
Redeem(h) ==
  /\ pc[h] = "claim"
  /\ LET c   == job[h].code
         f   == job[h].fingerprint
         new == [fingerprint |-> f, license |-> license[h]]
     IN \/ \E r \in Earlier(c, f) :
             /\ license' = [license EXCEPT ![h] = SignedId(r, h)]
             /\ Goto(h, "sign")
             /\ UNCHANGED <<table, job, code, refused>>
        \/ /\ Earlier(c, f) = {}
           /\ Exhausted(c)
           /\ refused' = refused \cup {<<c, f>>}
           /\ Answered(h)
           /\ UNCHANGED table
        \/ /\ Earlier(c, f) = {}
           /\ ~Exhausted(c)
           /\ redemptions' = [redemptions EXCEPT ![c] = Appended(c, new)]
           /\ used' = [used EXCEPT ![c] = @ + 1]
           /\ Goto(h, "sign")
           /\ UNCHANGED <<source, plan, job, code, license, refused>>
  /\ UNCHANGED <<nextId, acked, told, issued, failures>>

(* The licence is signed and sent, whether or not it reaches the customer. *)
Sign(h) ==
  /\ pc[h] = "sign"
  /\ issued' = issued \cup
       {[code |-> job[h].code, fingerprint |-> job[h].fingerprint, license |-> license[h]]}
  /\ Answered(h)
  /\ UNCHANGED <<table, nextId, acked, told, refused, failures>>

Handle(h) ==
  \/ FindByPaymentID(h)
  \/ \E c \in Codes : CreateToken(h, c)
  \/ AnswerWebhook(h)
  \/ GetToken(h)
  \/ Redeem(h)
  \/ Sign(h)

(* The process dies and is started again: no handler answers. *)
Crash ==
  /\ failures < MaxFailures
  /\ failures' = failures + 1
  /\ pc'       = [h \in Handlers |-> "idle"]
  /\ job'      = [h \in Handlers |-> None]
  /\ code'     = [h \in Handlers |-> None]
  /\ license'  = [h \in Handlers |-> None]
  /\ UNCHANGED <<table, nextId, acked, history>>

Next ==
  \/ \E c \in Codes, pl \in Plans : Mint(c, pl)
  \/ \E h \in Handlers, p \in Payments : WebhookArrives(h, p)
  \/ \E h \in Handlers, c \in Codes, f \in Fingerprints : RedeemArrives(h, c, f)
  \/ \E h \in Handlers : Handle(h) \/ StoreFails(h)
  \/ Crash

Spec == Init /\ [][Next]_vars

(* The provider repeats a webhook until it is answered with 200: each time
   there is room for it again. *)
Redeliver(p) == p \notin acked /\ \E h \in Handlers : WebhookArrives(h, p)

(* A drawn code is free sooner or later. *)
Draw(h) ==
  pc[h] = "mint" /\ \E c \in Codes : Insertable(c, job[h].payment) /\ CreateToken(h, c)

Fairness ==
  /\ \A h \in Handlers : WF_vars(Handle(h)) /\ SF_vars(Draw(h))
  /\ \A p \in Payments : SF_vars(Redeliver(p))

FairSpec == Spec /\ Fairness

-----------------------------------------------------------------------------
(* Properties. *)

(* Types, and what a handler holds at each of its steps. *)
TypeOK ==
  /\ source      \in [Codes -> Sources \cup {None}]
  /\ plan        \in [Codes -> Plans \cup {None}]
  /\ \A c \in Codes : Minted(c) => plan[c] \in Plans
  /\ used        \in [Codes -> Nat]
  /\ redemptions \in [Codes -> SUBSET Redemptions]
  /\ pc          \in [Handlers -> {"idle", "find", "mint", "answer", "lookup", "claim",
                                   "sign"}]
  /\ job         \in [Handlers -> Webhooks \cup Redeems \cup {None}]
  /\ code        \in [Handlers -> Codes \cup {None}]
  /\ license     \in [Handlers -> LicenseIds \cup {None}]
  /\ \A h \in Handlers :
       /\ pc[h] \in {"find", "mint", "answer"} => job[h] \in Webhooks
       /\ pc[h] \in {"lookup", "claim", "sign"} => job[h] \in Redeems
       /\ pc[h] = "mint" => PlanOf[job[h].payment] \in Plans
       /\ pc[h] = "answer" => code[h] \in Codes
       /\ pc[h] \in {"claim", "sign"} => license[h] \in LicenseIds
  /\ nextId      \in 1..(MaxLicenses + 1)
  /\ acked       \subseteq Payments
  /\ told        \in [Payments -> SUBSET Codes]
  /\ issued      \subseteq Licenses
  /\ refused     \subseteq Codes \X Fingerprints
  /\ failures    \in Nat

(* A payment is worth one token, and every 200 its webhook is ever answered
   with names that token, however often and however concurrently the provider
   delivers it.  (handleRazorpayWebhook, the UNIQUE column.) *)
OneTokenPerPayment ==
  /\ \A c, d \in Codes : source[c] = source[d] /\ source[c] \in Payments => c = d
  /\ \A p \in Payments : \A c \in told[p] : source[c] = p

(* The counter is the number of machines in the audit trail, each there once,
   and never more than the plan allows.  (Store.Redeem under concurrent
   redemptions, retries and crashes.) *)
RedemptionsAccounted ==
  \A c \in Codes :
    /\ IsFiniteSet(redemptions[c])
    /\ used[c] = Cardinality(redemptions[c])
    /\ Minted(c) => used[c] <= Limit(c)
    /\ \A r, s \in redemptions[c] : r.fingerprint = s.fingerprint => r = s

(* The audit row records exactly what is signed: each licence is in the trail
   of its token, so that a machine has one licence id per token however often
   it activates, and no licence id belongs to two machines.
   (handleRedeem, "the audit row records exactly what we sign".) *)
SignedIsRecorded ==
  /\ \A l \in issued :
       [fingerprint |-> l.fingerprint, license |-> l.license] \in redemptions[l.code]
  /\ \A c, d \in Codes : \A r \in redemptions[c], s \in redemptions[d] :
       r.license = s.license => c = d /\ r = s

(* A machine is turned away only when other machines hold every redemption:
   never one that holds a redemption itself, before or after.
   (The order of the two tests in Store.Redeem.) *)
RefusedOnlyWhenFull ==
  \A x \in refused :
    /\ used[x[1]] = Limit(x[1])
    /\ \A r \in redemptions[x[1]] : r.fingerprint # x[2]

(* A token is never changed or withdrawn, and its audit trail only grows. *)
AuditTrailGrows ==
  [][\A c \in Codes :
       /\ Minted(c) => source'[c] = source[c] /\ plan'[c] = plan[c]
       /\ redemptions[c] \subseteq redemptions'[c]
       /\ used[c] <= used'[c]]_vars

(* The ledger the outside sees; the counter, the handlers and what they carry
   are hidden. *)
Ledger == INSTANCE LicenceLedger WITH
  soldFor <- source, planSold <- plan, seats <- redemptions,
  answers <- told, signed <- issued, turnedAway <- refused

(* However its requests interleave, fail and are repeated, the issuer cannot
   be told from LicenceLedger, which does one thing at a time: the steps of a
   handler that matter are the insert, the transaction of Redeem, the
   signature and the answers, and each is right when it happens.
   (server.go:205-245, store.go:176, the UNIQUE column.) *)
ImplementsLedger == Ledger!Spec

(* Every payment for a plan on sale ends with the provider told the token. *)
PaidMeansTold ==
  \A p \in Payments : PlanOf[p] \in Plans => <>(p \in acked /\ told[p] # {})

=============================================================================
