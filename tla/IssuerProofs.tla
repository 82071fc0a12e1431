---------------------------- MODULE IssuerProofs ----------------------------
(***************************************************************************)
(* A payment is worth one token and a token one licence per machine, for   *)
(* any number of payments, machines and concurrent requests.               *)
(*                                                                         *)
(* The invariants the runs check are not inductive: what a handler carries *)
(* from one statement to the next must still be true of the table when it  *)
(* uses it, and licence ids must be fresh until they are recorded.         *)
(***************************************************************************)
EXTENDS Issuer, FiniteSetTheorems, TLAPS

(* What a handler has read or drawn and has not used yet. *)
CarriedIsCurrent ==
  \A h \in Handlers :
    /\ pc[h] = "answer" => source[code[h]] = job[h].payment
    /\ pc[h] \in {"claim", "sign"} => Minted(job[h].code)
    /\ pc[h] = "sign" =>
         [fingerprint |-> job[h].fingerprint, license |-> license[h]]
           \in redemptions[job[h].code]

(* A drawn licence id is in no row and no other handler holds it. *)
DrawnIsFresh ==
  \A h \in Handlers : pc[h] = "claim" =>
    /\ license[h] < nextId
    /\ \A c \in Codes : \A r \in redemptions[c] : r.license # license[h]
    /\ \A g \in Handlers : pc[g] = "claim" /\ license[g] = license[h] => g = h

(* A row that is not there has no redemptions and no refusals. *)
AbsentRows ==
  /\ \A c \in Codes : ~Minted(c) => redemptions[c] = {} /\ used[c] = 0
  /\ \A x \in refused : Minted(x[1])

IdsDrawn == \A c \in Codes : \A r \in redemptions[c] : r.license < nextId

IInv ==
  /\ TypeOK
  /\ CarriedIsCurrent
  /\ DrawnIsFresh
  /\ AbsentRows
  /\ IdsDrawn
  /\ OneTokenPerPayment
  /\ RedemptionsAccounted
  /\ SignedIsRecorded
  /\ RefusedOnlyWhenFull

LEMMA InvInit == Init => IInv
<1> SUFFICES ASSUME Init PROVE IInv
  OBVIOUS
<1>1. TypeOK
  BY BoundsAssumption DEF Init, TypeOK, Minted
<1>2. CarriedIsCurrent /\ DrawnIsFresh /\ AbsentRows /\ IdsDrawn
  BY DEF Init, CarriedIsCurrent, DrawnIsFresh, AbsentRows, IdsDrawn
<1>3. OneTokenPerPayment
  BY NoneAssumption DEF Init, OneTokenPerPayment
<1>4. RedemptionsAccounted
  BY FS_EmptySet DEF Init, RedemptionsAccounted, Minted
<1>5. SignedIsRecorded /\ RefusedOnlyWhenFull
  BY DEF Init, SignedIsRecorded, RefusedOnlyWhenFull
<1> QED
  BY <1>1, <1>2, <1>3, <1>4, <1>5 DEF IInv

(* The table's own invariants depend on nothing but the table. *)
LEMMA TableUntouched ==
  ASSUME IInv, UNCHANGED <<table, issued, refused>>, nextId' >= nextId, nextId' \in Nat
  PROVE  AbsentRows' /\ IdsDrawn' /\ RedemptionsAccounted' /\ SignedIsRecorded'
           /\ RefusedOnlyWhenFull'
<1> USE DEF IInv, table
<1>1. AbsentRows' /\ RefusedOnlyWhenFull'
  BY DEF AbsentRows, RefusedOnlyWhenFull, Minted, Limit
<1>2. RedemptionsAccounted'
  BY DEF RedemptionsAccounted, Minted, Limit
<1>3. SignedIsRecorded'
  BY DEF SignedIsRecorded
<1>4. IdsDrawn'
  BY DEF IdsDrawn, TypeOK, Redemptions, LicenseIds
<1> QED
  BY <1>1, <1>2, <1>3, <1>4

(* An inserted row has no redemptions yet; it is the only one of its payment. *)
LEMMA InsertPreserves ==
  ASSUME IInv, NEW c \in Codes, NEW s \in Sources, NEW pl \in Plans,
         Insertable(c, s), Insert(c, s, pl), UNCHANGED <<nextId, history>>
  PROVE  AbsentRows' /\ IdsDrawn' /\ OneTokenPerPayment' /\ RedemptionsAccounted'
           /\ SignedIsRecorded' /\ RefusedOnlyWhenFull'
<1> USE DEF IInv, Insert, history
<1>1. AbsentRows' /\ IdsDrawn'
  <2>1. \A d \in Codes : Minted(d) => Minted(d)'
    BY NoneAssumption DEF Minted, TypeOK, Sources
  <2>2. \A x \in refused : x[1] \in Codes
    BY DEF TypeOK
  <2>3. AbsentRows'
    BY <2>1, <2>2 DEF AbsentRows
  <2>4. IdsDrawn'
    BY DEF IdsDrawn
  <2> QED
    BY <2>3, <2>4
<1>2. OneTokenPerPayment'
  <2>1. \A d \in Codes : source[d] # s \/ s = CLI
    BY DEF Insertable
  <2>2. (\A d, e \in Codes : source[d] = source[e] /\ source[d] \in Payments => d = e)'
    BY <2>1, PlansAssumption DEF OneTokenPerPayment, TypeOK
  <2>3. (\A p \in Payments : \A d \in told[p] : source[d] = p)'
    <3> SUFFICES ASSUME NEW p \in Payments, NEW d \in told[p]
                 PROVE  source'[d] = p
      OBVIOUS
    <3>1. d \in Codes /\ source[d] = p
      BY DEF OneTokenPerPayment, TypeOK
    <3>2. d # c
      BY <3>1, NoneAssumption DEF Insertable, Minted
    <3> QED
      BY <3>1, <3>2 DEF TypeOK
  <2> QED
    BY <2>2, <2>3 DEF OneTokenPerPayment
<1>3. RedemptionsAccounted'
  <2> SUFFICES ASSUME NEW d \in Codes
               PROVE  /\ IsFiniteSet(redemptions[d])
                      /\ used[d] = Cardinality(redemptions[d])
                      /\ Minted(d)' => used[d] <= MaxRedemptions[plan'[d]]
                      /\ \A r, t \in redemptions[d] : r.fingerprint = t.fingerprint => r = t
    BY DEF RedemptionsAccounted, Limit
  <2>1. CASE d = c
    <3>1. used[d] = 0 /\ plan'[d] = pl
      BY <2>1 DEF AbsentRows, Insertable, TypeOK
    <3> QED
      BY <3>1, PlansAssumption DEF RedemptionsAccounted
  <2>2. CASE d # c
    BY <2>2 DEF RedemptionsAccounted, Minted, Limit, TypeOK
  <2> QED
    BY <2>1, <2>2
<1>4. SignedIsRecorded'
  BY DEF SignedIsRecorded
<1>5. RefusedOnlyWhenFull'
  <2> SUFFICES ASSUME NEW x \in refused
               PROVE  used[x[1]] = MaxRedemptions[plan'[x[1]]]
    BY DEF RefusedOnlyWhenFull, Limit
  <2>1. x[1] \in Codes /\ Minted(x[1])
    BY DEF AbsentRows, TypeOK
  <2>2. x[1] # c
    BY <2>1 DEF Insertable
  <2> QED
    BY <2>1, <2>2 DEF RefusedOnlyWhenFull, Limit, TypeOK
<1> QED
  BY <1>1, <1>2, <1>3, <1>4, <1>5

(* A handler that has answered carries nothing. *)
LEMMA AnsweredPreserves ==
  ASSUME IInv, NEW h \in Handlers, Answered(h), UNCHANGED <<table, nextId>>
  PROVE  CarriedIsCurrent' /\ DrawnIsFresh'
<1> USE DEF IInv, Answered, Goto, table
<1>1. CarriedIsCurrent'
  BY DEF CarriedIsCurrent, TypeOK, Minted
<1>2. DrawnIsFresh'
  BY DEF DrawnIsFresh, TypeOK
<1> QED
  BY <1>1, <1>2

LEMMA StutterPreserves ==
  ASSUME IInv, UNCHANGED vars
  PROVE  IInv'
<1> USE DEF vars, table, handler, history
<1>1. TypeOK' /\ CarriedIsCurrent'
  BY DEF IInv, TypeOK, CarriedIsCurrent, Minted
<1>2. DrawnIsFresh' /\ AbsentRows' /\ IdsDrawn' /\ OneTokenPerPayment'
  BY DEF IInv, DrawnIsFresh, AbsentRows, IdsDrawn, OneTokenPerPayment, Minted
<1>3. RedemptionsAccounted' /\ SignedIsRecorded' /\ RefusedOnlyWhenFull'
  BY DEF IInv, RedemptionsAccounted, SignedIsRecorded, RefusedOnlyWhenFull, Minted, Limit
<1> QED
  BY <1>1, <1>2, <1>3 DEF IInv

LEMMA MintPreserves ==
  ASSUME IInv, NEW c \in Codes, NEW pl \in Plans, Mint(c, pl)
  PROVE  IInv'
<1> USE DEF Mint
<1>1. AbsentRows' /\ IdsDrawn' /\ OneTokenPerPayment' /\ RedemptionsAccounted'
        /\ SignedIsRecorded' /\ RefusedOnlyWhenFull'
  BY InsertPreserves DEF Sources
<1>2. TypeOK'
  BY DEF IInv, TypeOK, Insert, Minted, Sources, handler, history
<1>3. CarriedIsCurrent'
  <2> SUFFICES ASSUME NEW h \in Handlers
               PROVE  /\ pc[h] = "answer" => source'[code[h]] = job[h].payment
                      /\ pc[h] \in {"claim", "sign"} => source'[job[h].code] # None
    BY DEF CarriedIsCurrent, IInv, Insert, handler, Minted
  <2>1. CASE pc[h] = "answer"
    <3>1. code[h] \in Codes /\ source[code[h]] = job[h].payment /\ job[h].payment \in Payments
      BY <2>1 DEF IInv, TypeOK, CarriedIsCurrent, Webhooks
    <3>2. code[h] # c
      BY <3>1, NoneAssumption DEF Insertable, Minted
    <3> QED
      BY <2>1, <3>1, <3>2 DEF IInv, TypeOK, Insert
  <2>2. CASE pc[h] \in {"claim", "sign"}
    <3>1. Minted(job[h].code) /\ job[h].code \in Codes
      BY <2>2 DEF IInv, TypeOK, CarriedIsCurrent, Redeems
    <3> QED
      BY <2>2, <3>1, NoneAssumption DEF IInv, TypeOK, Insert, Minted
  <2> QED
    BY <2>1, <2>2
<1>4. DrawnIsFresh'
  BY DEF IInv, DrawnIsFresh, Insert, handler
<1> QED
  BY <1>1, <1>2, <1>3, <1>4 DEF IInv

(* A request that arrives is carried to its first statement. *)
LEMMA ArrivePreserves ==
  ASSUME IInv, NEW h \in Handlers, NEW j, NEW l,
         \/ j \in Webhooks /\ l = "find"
         \/ j \in Redeems /\ l = "lookup",
         Arrive(h, j, l)
  PROVE  IInv'
<1> USE DEF Arrive, Goto, history
<1>1. TypeOK'
  BY DEF IInv, TypeOK, Minted, table
<1>2. CarriedIsCurrent'
  BY DEF IInv, TypeOK, CarriedIsCurrent, Minted, table
<1>3. DrawnIsFresh'
  BY DEF IInv, TypeOK, DrawnIsFresh, table
<1>4. OneTokenPerPayment'
  BY DEF IInv, OneTokenPerPayment, table
<1>5. AbsentRows' /\ IdsDrawn' /\ RedemptionsAccounted' /\ SignedIsRecorded'
        /\ RefusedOnlyWhenFull'
  BY TableUntouched DEF IInv, TypeOK
<1> QED
  BY <1>1, <1>2, <1>3, <1>4, <1>5 DEF IInv

LEMMA StoreFailsPreserves ==
  ASSUME IInv, NEW h \in Handlers, StoreFails(h)
  PROVE  IInv'
<1> USE DEF StoreFails, history
<1>1. TypeOK'
  BY DEF IInv, TypeOK, Minted, table, Answered, Goto
<1>2. CarriedIsCurrent' /\ DrawnIsFresh'
  BY AnsweredPreserves
<1>3. OneTokenPerPayment'
  BY DEF IInv, OneTokenPerPayment, table
<1>4. AbsentRows' /\ IdsDrawn' /\ RedemptionsAccounted' /\ SignedIsRecorded'
        /\ RefusedOnlyWhenFull'
  BY TableUntouched DEF IInv, TypeOK
<1> QED
  BY <1>1, <1>2, <1>3, <1>4 DEF IInv

LEMMA CrashPreserves ==
  ASSUME IInv, Crash
  PROVE  IInv'
<1> USE DEF Crash, history
<1>1. TypeOK'
  BY DEF IInv, TypeOK, Minted, table
<1>2. CarriedIsCurrent' /\ DrawnIsFresh'
  BY DEF CarriedIsCurrent, DrawnIsFresh
<1>3. OneTokenPerPayment'
  BY DEF IInv, OneTokenPerPayment, table
<1>4. AbsentRows' /\ IdsDrawn' /\ RedemptionsAccounted' /\ SignedIsRecorded'
        /\ RefusedOnlyWhenFull'
  BY TableUntouched DEF IInv, TypeOK
<1> QED
  BY <1>1, <1>2, <1>3, <1>4 DEF IInv

LEMMA FindByPaymentIDPreserves ==
  ASSUME IInv, NEW h \in Handlers, FindByPaymentID(h)
  PROVE  IInv'
<1> USE DEF FindByPaymentID, history
<1>1. OneTokenPerPayment'
  BY DEF IInv, OneTokenPerPayment, table
<1>2. AbsentRows' /\ IdsDrawn' /\ RedemptionsAccounted' /\ SignedIsRecorded'
        /\ RefusedOnlyWhenFull'
  BY TableUntouched DEF IInv, TypeOK
<1>3. CASE \E c \in Found(job[h].payment) :
             code' = [code EXCEPT ![h] = c] /\ Goto(h, "answer") /\ UNCHANGED <<job, license>>
  <2>1. TypeOK'
    BY <1>3 DEF IInv, TypeOK, Minted, table, Goto, Found
  <2>2. CarriedIsCurrent'
    BY <1>3 DEF IInv, TypeOK, CarriedIsCurrent, Minted, table, Goto, Found
  <2>3. DrawnIsFresh'
    BY <1>3 DEF IInv, TypeOK, DrawnIsFresh, table, Goto
  <2> QED
    BY <1>1, <1>2, <2>1, <2>2, <2>3 DEF IInv
<1>4. CASE ForSale(job[h].payment) /\ Goto(h, "mint") /\ UNCHANGED <<job, code, license>>
  <2>1. TypeOK'
    BY <1>4 DEF IInv, TypeOK, Minted, table, Goto, ForSale
  <2>2. CarriedIsCurrent'
    BY <1>4 DEF IInv, TypeOK, CarriedIsCurrent, Minted, table, Goto
  <2>3. DrawnIsFresh'
    BY <1>4 DEF IInv, TypeOK, DrawnIsFresh, table, Goto
  <2> QED
    BY <1>1, <1>2, <2>1, <2>2, <2>3 DEF IInv
<1>5. CASE Answered(h)
  <2>1. TypeOK'
    BY <1>5 DEF IInv, TypeOK, Minted, table, Answered, Goto
  <2>2. CarriedIsCurrent' /\ DrawnIsFresh'
    BY <1>5, AnsweredPreserves
  <2> QED
    BY <1>1, <1>2, <2>1, <2>2 DEF IInv
<1> QED
  BY <1>3, <1>4, <1>5

LEMMA CreateTokenPreserves ==
  ASSUME IInv, NEW h \in Handlers, NEW c \in Codes, CreateToken(h, c)
  PROVE  IInv'
<1> DEFINE p == job[h].payment
<1>1. p \in Payments /\ PlanOf[p] \in Plans /\ pc[h] = "mint"
  BY DEF IInv, TypeOK, CreateToken, Webhooks
<1>2. CASE Insertable(c, p)
  <2>1. /\ Insert(c, p, PlanOf[p])
        /\ code' = [code EXCEPT ![h] = c]
        /\ Goto(h, "answer")
        /\ UNCHANGED <<job, license, nextId, acked, history, failures>>
    BY <1>2 DEF CreateToken
  <2> HIDE DEF p
  <2>2. AbsentRows' /\ IdsDrawn' /\ OneTokenPerPayment' /\ RedemptionsAccounted'
          /\ SignedIsRecorded' /\ RefusedOnlyWhenFull'
    BY <1>1, <1>2, <2>1, InsertPreserves DEF Sources
  <2>3. TypeOK'
    BY <1>1, <2>1 DEF IInv, TypeOK, Insert, Minted, Sources, Goto, history, p
  <2>4. CarriedIsCurrent'
    <3> SUFFICES ASSUME NEW g \in Handlers
                 PROVE  /\ pc'[g] = "answer" => source'[code'[g]] = job[g].payment
                        /\ pc'[g] \in {"claim", "sign"} => source'[job[g].code] # None
                        /\ pc'[g] = "sign" =>
                             [fingerprint |-> job[g].fingerprint, license |-> license[g]]
                               \in redemptions[job[g].code]
      BY <2>1 DEF CarriedIsCurrent, Insert, Minted
    <3>1. CASE g = h
      BY <2>1, <3>1 DEF IInv, TypeOK, Insert, Goto, p
    <3>2. CASE g # h /\ pc[g] = "answer"
      <4>1. code[g] \in Codes /\ source[code[g]] = job[g].payment /\ job[g].payment \in Payments
        BY <3>2 DEF IInv, TypeOK, CarriedIsCurrent, Webhooks
      <4>2. code[g] # c
        BY <4>1, <1>2, NoneAssumption DEF Insertable, Minted
      <4> QED
        BY <2>1, <3>2, <4>1, <4>2 DEF IInv, TypeOK, Insert, Goto
    <3>3. CASE g # h /\ pc[g] \in {"claim", "sign"}
      <4>1. Minted(job[g].code) /\ job[g].code \in Codes
        BY <3>3 DEF IInv, TypeOK, CarriedIsCurrent, Redeems
      <4> QED
        BY <1>1, <2>1, <3>3, <4>1, NoneAssumption
        DEF IInv, TypeOK, CarriedIsCurrent, Insert, Goto, Minted
    <3> QED
      BY <2>1, <3>1, <3>2, <3>3 DEF IInv, TypeOK, Goto
  <2>5. DrawnIsFresh'
    BY <2>1 DEF IInv, TypeOK, DrawnIsFresh, Insert, Goto
  <2> QED
    BY <2>2, <2>3, <2>4, <2>5 DEF IInv
<1>3. CASE ~Insertable(c, p)
  <2>1. Answered(h) /\ UNCHANGED <<table, nextId, acked, history, failures>>
    BY <1>3 DEF CreateToken
  <2>2. TypeOK'
    BY <2>1 DEF IInv, TypeOK, Minted, table, Answered, Goto, history
  <2>3. CarriedIsCurrent' /\ DrawnIsFresh'
    BY <2>1, AnsweredPreserves
  <2>4. OneTokenPerPayment'
    BY <2>1 DEF IInv, OneTokenPerPayment, table, history
  <2>5. AbsentRows' /\ IdsDrawn' /\ RedemptionsAccounted' /\ SignedIsRecorded'
          /\ RefusedOnlyWhenFull'
    BY <2>1, TableUntouched DEF IInv, TypeOK, history
  <2> QED
    BY <2>2, <2>3, <2>4, <2>5 DEF IInv
<1> QED
  BY <1>2, <1>3

LEMMA AnswerWebhookPreserves ==
  ASSUME IInv, NEW h \in Handlers, AnswerWebhook(h)
  PROVE  IInv'
<1>1. job[h].payment \in Payments /\ code[h] \in Codes /\ source[code[h]] = job[h].payment
  BY DEF IInv, TypeOK, CarriedIsCurrent, AnswerWebhook, Webhooks
<1> USE DEF AnswerWebhook
<1>2. TypeOK'
  BY <1>1 DEF IInv, TypeOK, Minted, table, Answered, Goto
<1>3. CarriedIsCurrent' /\ DrawnIsFresh'
  BY AnsweredPreserves
<1>4. OneTokenPerPayment'
  BY <1>1 DEF IInv, TypeOK, OneTokenPerPayment, table
<1>5. AbsentRows' /\ IdsDrawn' /\ RedemptionsAccounted' /\ SignedIsRecorded'
        /\ RefusedOnlyWhenFull'
  BY TableUntouched DEF IInv, TypeOK
<1> QED
  BY <1>2, <1>3, <1>4, <1>5 DEF IInv

LEMMA GetTokenPreserves ==
  ASSUME IInv, NEW h \in Handlers, GetToken(h)
  PROVE  IInv'
<1> USE DEF GetToken, history
<1>1. nextId \in Nat /\ nextId' \in Nat /\ nextId' >= nextId
  BY DEF IInv, TypeOK
<1>2. OneTokenPerPayment'
  BY DEF IInv, OneTokenPerPayment, table
<1>3. AbsentRows' /\ IdsDrawn' /\ RedemptionsAccounted' /\ SignedIsRecorded'
        /\ RefusedOnlyWhenFull'
  BY <1>1, TableUntouched
<1>4. CASE Minted(job[h].code)
  <2>1. TypeOK'
    BY <1>4, BoundsAssumption DEF IInv, TypeOK, Minted, table, Goto, LicenseIds
  <2>2. CarriedIsCurrent'
    BY <1>4 DEF IInv, TypeOK, CarriedIsCurrent, Minted, table, Goto
  <2>3. DrawnIsFresh'
    <3>1. \A c \in Codes : \A r \in redemptions[c] : r.license \in Nat /\ r.license < nextId
      BY DEF IInv, IdsDrawn, TypeOK, Redemptions, LicenseIds
    <3>2. \A g \in Handlers : pc[g] = "claim" => license[g] \in Nat /\ license[g] < nextId
      BY DEF IInv, DrawnIsFresh, TypeOK, LicenseIds
    <3> QED
      BY <1>1, <1>4, <3>1, <3>2 DEF IInv, TypeOK, DrawnIsFresh, table, Goto
  <2> QED
    BY <1>2, <1>3, <2>1, <2>2, <2>3 DEF IInv
<1>5. CASE ~Minted(job[h].code)
  <2>1. TypeOK'
    BY <1>5 DEF IInv, TypeOK, Minted, table, Answered, Goto
  <2>2. CarriedIsCurrent' /\ DrawnIsFresh'
    BY <1>5, AnsweredPreserves
  <2> QED
    BY <1>2, <1>3, <2>1, <2>2 DEF IInv
<1> QED
  BY <1>4, <1>5

(* The transaction: the three cases of Redeem. *)
LEMMA RedeemPreserves ==
  ASSUME IInv, NEW h \in Handlers, Redeem(h)
  PROVE  IInv'
<1> DEFINE c   == job[h].code
           f   == job[h].fingerprint
           new == [fingerprint |-> f, license |-> license[h]]
<1>1. /\ pc[h] = "claim"
      /\ c \in Codes /\ f \in Fingerprints /\ license[h] \in LicenseIds
      /\ Minted(c)
      /\ UNCHANGED <<nextId, acked, told, issued, failures>>
  BY DEF IInv, TypeOK, CarriedIsCurrent, Redeem, Redeems
<1>2. ASSUME NEW r \in Earlier(c, f),
             license' = [license EXCEPT ![h] = SignedId(r, h)],
             Goto(h, "sign"), UNCHANGED <<table, job, code, refused>>
      PROVE  IInv'
  <2>1. r \in redemptions[c] /\ r.fingerprint = f /\ r \in Redemptions
    BY <1>1, <1>2 DEF Earlier, IInv, TypeOK
  <2>2. r = [fingerprint |-> f, license |-> r.license] /\ r.license \in LicenseIds
    BY <2>1 DEF Redemptions
  <2> HIDE DEF c, f
  <2>3. TypeOK'
    BY <1>1, <1>2, <2>2 DEF IInv, TypeOK, Minted, table, Goto, SignedId
  <2>4. CarriedIsCurrent'
    BY <1>1, <1>2, <2>1, <2>2
    DEF IInv, TypeOK, CarriedIsCurrent, Minted, table, Goto, SignedId, c, f
  <2>5. DrawnIsFresh'
    BY <1>1, <1>2 DEF IInv, TypeOK, DrawnIsFresh, table, Goto
  <2>6. OneTokenPerPayment'
    BY <1>1, <1>2 DEF IInv, OneTokenPerPayment, table
  <2>7. AbsentRows' /\ IdsDrawn' /\ RedemptionsAccounted' /\ SignedIsRecorded'
          /\ RefusedOnlyWhenFull'
    BY <1>1, <1>2, TableUntouched DEF IInv, TypeOK
  <2> QED
    BY <2>3, <2>4, <2>5, <2>6, <2>7 DEF IInv
<1>3. ASSUME Earlier(c, f) = {}, Exhausted(c), refused' = refused \cup {<<c, f>>},
             Answered(h), UNCHANGED table
      PROVE  IInv'
  <2> HIDE DEF c, f
  <2>1. TypeOK'
    BY <1>1, <1>3 DEF IInv, TypeOK, Minted, table, Answered, Goto
  <2>2. CarriedIsCurrent' /\ DrawnIsFresh'
    BY <1>1, <1>3, AnsweredPreserves
  <2>3. AbsentRows' /\ IdsDrawn' /\ OneTokenPerPayment'
    BY <1>1, <1>3 DEF IInv, AbsentRows, IdsDrawn, OneTokenPerPayment, Minted, table
  <2>4. RedemptionsAccounted' /\ SignedIsRecorded'
    BY <1>1, <1>3 DEF IInv, RedemptionsAccounted, SignedIsRecorded, Minted, Limit, table
  <2>5. used[c] = Limit(c)
    BY <1>1, <1>3, PlansAssumption
    DEF IInv, TypeOK, RedemptionsAccounted, Exhausted, Limit, Minted
  <2>6. RefusedOnlyWhenFull'
    BY <1>1, <1>3, <2>5 DEF IInv, RefusedOnlyWhenFull, Earlier, Limit, table
  <2> QED
    BY <2>1, <2>2, <2>3, <2>4, <2>6 DEF IInv
<1>4. ASSUME Earlier(c, f) = {}, ~Exhausted(c),
             redemptions' = [redemptions EXCEPT ![c] = Appended(c, new)],
             used' = [used EXCEPT ![c] = @ + 1],
             Goto(h, "sign"),
             UNCHANGED <<source, plan, job, code, license, refused>>
      PROVE  IInv'
  <2>1. new \in Redemptions /\ new.fingerprint = f /\ new.license = license[h]
    BY <1>1 DEF Redemptions
  <2> HIDE DEF c, f, new
  <2>2. redemptions'[c] = redemptions[c] \cup {new} /\ used'[c] = used[c] + 1
    BY <1>1, <1>4 DEF IInv, TypeOK, Appended
  <2>3. \A d \in Codes : d # c => redemptions'[d] = redemptions[d] /\ used'[d] = used[d]
    BY <1>1, <1>4 DEF IInv, TypeOK
  <2>4. \A r \in redemptions[c] : r.fingerprint # f
    BY <1>4 DEF Earlier
  <2>5. TypeOK'
    BY <1>1, <1>4, <2>1 DEF IInv, TypeOK, Minted, Goto, Appended
  <2>6. CarriedIsCurrent'
    <3> SUFFICES ASSUME NEW g \in Handlers
                 PROVE  /\ pc'[g] = "answer" => source[code[g]] = job[g].payment
                        /\ pc'[g] \in {"claim", "sign"} => Minted(job[g].code)
                        /\ pc'[g] = "sign" =>
                             [fingerprint |-> job[g].fingerprint, license |-> license[g]]
                               \in redemptions'[job[g].code]
      BY <1>4 DEF CarriedIsCurrent, Minted
    <3>1. CASE g = h
      BY <1>1, <1>4, <2>2, <3>1 DEF IInv, TypeOK, Goto, c, f, new
    <3>2. CASE g # h
      <4>1. pc'[g] = pc[g]
        BY <1>4, <3>2 DEF IInv, TypeOK, Goto
      <4>2. pc[g] = "sign" => job[g].code \in Codes
        BY DEF IInv, TypeOK, Redeems
      <4> QED
        BY <2>2, <2>3, <4>1, <4>2 DEF IInv, CarriedIsCurrent
    <3> QED
      BY <3>1, <3>2
  <2>7. DrawnIsFresh'
    <3> SUFFICES ASSUME NEW g \in Handlers, pc'[g] = "claim"
                 PROVE  /\ license[g] < nextId
                        /\ \A d \in Codes : \A r \in redemptions'[d] : r.license # license[g]
                        /\ \A k \in Handlers :
                             pc'[k] = "claim" /\ license[k] = license[g] => k = g
      BY <1>1, <1>4 DEF DrawnIsFresh
    <3>1. g # h /\ pc[g] = "claim"
      BY <1>4 DEF IInv, TypeOK, Goto
    <3>2. license[h] # license[g]
      BY <1>1, <3>1 DEF IInv, DrawnIsFresh
    <3>3. \A d \in Codes : \A r \in redemptions'[d] : r.license # license[g]
      BY <2>1, <2>2, <2>3, <3>1, <3>2 DEF IInv, DrawnIsFresh
    <3>4. \A k \in Handlers : pc'[k] = "claim" => pc[k] = "claim"
      BY <1>4 DEF IInv, TypeOK, Goto
    <3> QED
      BY <3>1, <3>3, <3>4 DEF IInv, DrawnIsFresh
  <2>8. AbsentRows'
    BY <1>1, <1>4, <2>3 DEF IInv, AbsentRows, Minted
  <2>9. IdsDrawn'
    BY <1>1, <2>1, <2>2, <2>3 DEF IInv, IdsDrawn, DrawnIsFresh
  <2>10. OneTokenPerPayment'
    BY <1>1, <1>4 DEF IInv, OneTokenPerPayment
  <2>11. RedemptionsAccounted'
    <3>1. new \notin redemptions[c]
      BY <2>1, <2>4
    <3>2. IsFiniteSet(redemptions[c]) /\ used[c] = Cardinality(redemptions[c])
      BY <1>1 DEF IInv, RedemptionsAccounted
    <3>3. IsFiniteSet(redemptions'[c]) /\ used'[c] = Cardinality(redemptions'[c])
      BY <2>2, <3>1, <3>2, FS_AddElement
    <3>4. used'[c] <= Limit(c)
      BY <1>1, <1>4, <2>2, PlansAssumption DEF IInv, TypeOK, Exhausted, Limit, Minted
    <3>5. \A r, s \in redemptions'[c] : r.fingerprint = s.fingerprint => r = s
      BY <1>1, <2>1, <2>2, <2>4 DEF IInv, RedemptionsAccounted
    <3> QED
      BY <1>4, <2>3, <3>3, <3>4, <3>5 DEF IInv, RedemptionsAccounted, Limit, Minted
  <2>12. SignedIsRecorded'
    <3>1. \A d \in Codes : redemptions[d] \subseteq redemptions'[d]
      BY <2>2, <2>3
    <3>2. \A l \in issued : l.code \in Codes
      BY DEF IInv, TypeOK, Licenses
    <3>3. \A d \in Codes : \A r \in redemptions[d] : r.license # new.license
      BY <1>1, <2>1 DEF IInv, DrawnIsFresh
    <3>4. \A d, e \in Codes : \A r \in redemptions'[d], s \in redemptions'[e] :
            r.license = s.license => d = e /\ r = s
      BY <2>2, <2>3, <3>3 DEF IInv, SignedIsRecorded
    <3> QED
      BY <1>1, <3>1, <3>2, <3>4 DEF IInv, SignedIsRecorded
  <2>13. RefusedOnlyWhenFull'
    <3> SUFFICES ASSUME NEW x \in refused
                 PROVE  /\ used'[x[1]] = Limit(x[1])
                        /\ \A r \in redemptions'[x[1]] : r.fingerprint # x[2]
      BY <1>4 DEF RefusedOnlyWhenFull, Limit
    <3>1. x[1] \in Codes /\ used[x[1]] = Limit(x[1]) /\ Minted(x[1])
      BY DEF IInv, TypeOK, RefusedOnlyWhenFull, AbsentRows
    <3>2. x[1] # c
      BY <1>4, <3>1, PlansAssumption DEF Exhausted, Limit, IInv, TypeOK
    <3> QED
      BY <2>3, <3>1, <3>2 DEF IInv, RefusedOnlyWhenFull
  <2> QED
    BY <2>5, <2>6, <2>7, <2>8, <2>9, <2>10, <2>11, <2>12, <2>13 DEF IInv
<1> QED
  BY <1>2, <1>3, <1>4 DEF Redeem

LEMMA SignPreserves ==
  ASSUME IInv, NEW h \in Handlers, Sign(h)
  PROVE  IInv'
<1> DEFINE l == [code |-> job[h].code, fingerprint |-> job[h].fingerprint,
                 license |-> license[h]]
<1>1. /\ l \in Licenses
      /\ [fingerprint |-> l.fingerprint, license |-> l.license] \in redemptions[l.code]
  BY DEF IInv, TypeOK, CarriedIsCurrent, Sign, Redeems, Licenses
<1>2. issued' = issued \cup {l} /\ Answered(h)
        /\ UNCHANGED <<table, nextId, acked, told, refused, failures>>
  BY DEF Sign
<1> HIDE DEF l
<1>3. TypeOK'
  BY <1>1, <1>2 DEF IInv, TypeOK, Minted, table, Answered, Goto
<1>4. CarriedIsCurrent' /\ DrawnIsFresh'
  BY <1>2, AnsweredPreserves
<1>5. AbsentRows' /\ IdsDrawn' /\ OneTokenPerPayment'
  BY <1>2 DEF IInv, AbsentRows, IdsDrawn, OneTokenPerPayment, Minted, table
<1>6. SignedIsRecorded'
  BY <1>1, <1>2 DEF IInv, SignedIsRecorded, table
<1>7. RedemptionsAccounted' /\ RefusedOnlyWhenFull'
  BY <1>2 DEF IInv, RedemptionsAccounted, RefusedOnlyWhenFull, Minted, Limit, table
<1> QED
  BY <1>3, <1>4, <1>5, <1>6, <1>7 DEF IInv

LEMMA NextPreserves == IInv /\ [Next]_vars => IInv'
<1> SUFFICES ASSUME IInv, [Next]_vars PROVE IInv'
  OBVIOUS
<1>1. ASSUME NEW c \in Codes, NEW pl \in Plans, Mint(c, pl) PROVE IInv'
  BY <1>1, MintPreserves
<1>2. ASSUME NEW h \in Handlers, NEW p \in Payments, WebhookArrives(h, p) PROVE IInv'
  BY <1>2, ArrivePreserves DEF WebhookArrives, Webhooks
<1>3. ASSUME NEW h \in Handlers, NEW c \in Codes, NEW f \in Fingerprints,
             RedeemArrives(h, c, f)
      PROVE  IInv'
  BY <1>3, ArrivePreserves DEF RedeemArrives, Redeems
<1>4. ASSUME NEW h \in Handlers, Handle(h) PROVE IInv'
  BY <1>4, FindByPaymentIDPreserves, CreateTokenPreserves, AnswerWebhookPreserves,
     GetTokenPreserves, RedeemPreserves, SignPreserves DEF Handle
<1>5. ASSUME NEW h \in Handlers, StoreFails(h) PROVE IInv'
  BY <1>5, StoreFailsPreserves
<1>6. CASE Crash
  BY <1>6, CrashPreserves
<1>7. CASE UNCHANGED vars
  BY <1>7, StutterPreserves
<1> QED
  BY <1>1, <1>2, <1>3, <1>4, <1>5, <1>6, <1>7 DEF Next

LEMMA Invariance == Spec => []IInv
  BY InvInit, NextPreserves, PTL DEF Spec

(* Every variable keeps its type, and every handler holds what its next
   statement needs. *)
THEOREM TypeCorrect == Spec => []TypeOK
<1>1. IInv => TypeOK
  BY DEF IInv
<1> QED
  BY <1>1, Invariance, PTL

(* A payment is worth one token, and every answer names it, however many
   deliveries of its webhook are handled at once. *)
THEOREM PaidOnce == Spec => []OneTokenPerPayment
<1>1. IInv => OneTokenPerPayment
  BY DEF IInv
<1> QED
  BY <1>1, Invariance, PTL

(* A token never signs for more machines than its plan allows, and its counter
   never drifts from its audit trail. *)
THEOREM BudgetIsKept == Spec => []RedemptionsAccounted
<1>1. IInv => RedemptionsAccounted
  BY DEF IInv
<1> QED
  BY <1>1, Invariance, PTL

(* Every licence handed out is in the audit trail, under one id per machine. *)
THEOREM AuditIsComplete == Spec => []SignedIsRecorded
<1>1. IInv => SignedIsRecorded
  BY DEF IInv
<1> QED
  BY <1>1, Invariance, PTL

(* No machine is turned away while it holds a redemption or one is left. *)
THEOREM RefusalsAreJust == Spec => []RefusedOnlyWhenFull
<1>1. IInv => RefusedOnlyWhenFull
  BY DEF IInv
<1> QED
  BY <1>1, Invariance, PTL

(* No step changes a token or takes a row out of its audit trail. *)
THEOREM HistoryIsKept == Spec => AuditTrailGrows
<1> DEFINE Grows == \A c \in Codes :
             /\ Minted(c) => source'[c] = source[c] /\ plan'[c] = plan[c]
             /\ redemptions[c] \subseteq redemptions'[c]
             /\ used[c] <= used'[c]
<1>1. TypeOK /\ [Next]_vars => [Grows]_vars
  <2> SUFFICES ASSUME TypeOK, Next PROVE Grows
    OBVIOUS
  <2>1. CASE UNCHANGED table
    BY <2>1 DEF table, TypeOK
  <2>2. ASSUME NEW c \in Codes, NEW s, NEW pl, Insertable(c, s), Insert(c, s, pl)
        PROVE  Grows
    BY <2>2 DEF TypeOK, Insertable, Insert, Minted
  <2>3. ASSUME NEW h \in Handlers, Redeem(h)
        PROVE  Grows
    <3>1. job[h].code \in Codes
      BY <2>3 DEF TypeOK, Redeem, Redeems
    <3> QED
      BY <2>3, <3>1 DEF TypeOK, Redeem, Appended, table
  <2>4. ASSUME NEW c \in Codes, NEW pl \in Plans, Mint(c, pl) PROVE Grows
    BY <2>4, <2>2 DEF Mint
  <2>5. ASSUME NEW h \in Handlers, NEW c \in Codes, CreateToken(h, c) PROVE Grows
    BY <2>5, <2>2, <2>1 DEF CreateToken
  <2> HIDE DEF Grows
  <2>6. ASSUME NEW h \in Handlers, Handle(h) \/ StoreFails(h) PROVE Grows
    BY <2>6, <2>1, <2>3, <2>5
    DEF Handle, StoreFails, FindByPaymentID, AnswerWebhook, GetToken, Sign
  <2> QED
    BY <2>1, <2>4, <2>6 DEF Next, WebhookArrives, RedeemArrives, Arrive, Crash
<1> QED
  BY <1>1, TypeCorrect, PTL DEF Spec, AuditTrailGrows

-----------------------------------------------------------------------------
(* The issuer implements LicenceLedger. *)

(* The ledger counts as the issuer does. *)
LEMMA LedgerCounts == \A S : Ledger!Cardinality(S) = Cardinality(S)
  BY DEF Ledger!Cardinality, Cardinality

LEMMA LedgerInit == Init => Ledger!Init
  BY DEF Init, Ledger!Init

(* A step that touches neither the table nor an answer does not show. *)
LEMMA LedgerQuiet ==
  ASSUME UNCHANGED <<source, plan, redemptions, history>>
  PROVE  UNCHANGED Ledger!vars
  BY DEF history, Ledger!vars

(* The insert is the sale: the constraints of the table are what the ledger
   asks for. *)
LEMMA LedgerSell ==
  ASSUME NEW c \in Codes, NEW s \in Sources, NEW pl \in Plans,
         s # CLI => pl = PlanOf[s],
         Insertable(c, s), Insert(c, s, pl), UNCHANGED history
  PROVE  Ledger!Next
<1>1. Ledger!Sell(c, s, pl)
  BY DEF Insertable, Insert, Minted, history, Ledger!Sell
<1> QED
  BY <1>1 DEF Ledger!Next, Sources

LEMMA LedgerCreateToken ==
  ASSUME IInv, NEW h \in Handlers, NEW c \in Codes, CreateToken(h, c)
  PROVE  Ledger!Next \/ UNCHANGED Ledger!vars
<1> DEFINE p == job[h].payment
<1>1. p \in Payments /\ PlanOf[p] \in Plans
  BY DEF IInv, TypeOK, CreateToken, Webhooks
<1>2. CASE Insertable(c, p)
  <2>1. Insert(c, p, PlanOf[p]) /\ UNCHANGED history
    BY <1>2 DEF CreateToken
  <2> HIDE DEF p
  <2> QED
    BY <1>1, <1>2, <2>1, LedgerSell DEF Sources
<1>3. CASE ~Insertable(c, p)
  BY <1>3, LedgerQuiet DEF CreateToken, table
<1> QED
  BY <1>2, <1>3

(* The answer names a token that was sold for the payment when it was looked
   up or inserted, and so it is still. *)
LEMMA LedgerAnswer ==
  ASSUME IInv, NEW h \in Handlers, AnswerWebhook(h)
  PROVE  Ledger!Next
<1>1. /\ job[h].payment \in Payments /\ code[h] \in Codes
      /\ source[code[h]] = job[h].payment
  BY DEF IInv, TypeOK, CarriedIsCurrent, AnswerWebhook, Webhooks
<1>2. Ledger!Answer(job[h].payment, code[h])
  BY <1>1 DEF AnswerWebhook, table, Ledger!Answer
<1> QED
  BY <1>1, <1>2 DEF Ledger!Next

(* The counter is the number of seats taken, so that the transaction refuses
   exactly when the ledger is full; the licence id it records was drawn before
   and is still nobody else's. *)
LEMMA LedgerRedeem ==
  ASSUME IInv, NEW h \in Handlers, Redeem(h)
  PROVE  Ledger!Next \/ UNCHANGED Ledger!vars
<1> DEFINE c   == job[h].code
           f   == job[h].fingerprint
           l   == license[h]
           new == [fingerprint |-> f, license |-> l]
<1>1. /\ pc[h] = "claim"
      /\ c \in Codes /\ f \in Fingerprints /\ l \in LicenseIds
      /\ source[c] # None
      /\ UNCHANGED <<told, issued>>
  BY DEF IInv, TypeOK, CarriedIsCurrent, Redeem, Redeems, Minted
<1>2. CASE UNCHANGED <<table, refused>>
  BY <1>1, <1>2, LedgerQuiet DEF table, history
<1>3. Ledger!Seated(c, f) <=> Earlier(c, f) # {}
  BY DEF Ledger!Seated, Earlier
<1>4. Exhausted(c) <=> Ledger!Full(c)
  <2>1. /\ used[c] = Cardinality(redemptions[c]) /\ used[c] \in Nat
        /\ used[c] <= MaxRedemptions[plan[c]]
        /\ MaxRedemptions[plan[c]] \in Nat
    BY <1>1, PlansAssumption
    DEF IInv, TypeOK, RedemptionsAccounted, Minted, Limit
  <2> QED
    BY <2>1, LedgerCounts DEF Exhausted, Limit, Ledger!Full
<1>5. ASSUME Earlier(c, f) = {}, Exhausted(c), refused' = refused \cup {<<c, f>>},
             UNCHANGED table
      PROVE  Ledger!Next
  <2>1. Ledger!TurnAway(c, f)
    BY <1>1, <1>3, <1>4, <1>5 DEF table, Ledger!TurnAway
  <2> QED
    BY <1>1, <2>1 DEF Ledger!Next
<1>6. ASSUME Earlier(c, f) = {}, ~Exhausted(c),
             redemptions' = [redemptions EXCEPT ![c] = Appended(c, new)],
             UNCHANGED <<source, plan, refused>>
      PROVE  Ledger!Next
  <2>1. \A d \in Codes : \A r \in redemptions[d] : r.license # l
    BY <1>1 DEF IInv, DrawnIsFresh
  <2>2. Ledger!Take(c, f, l)
    BY <1>1, <1>3, <1>4, <1>6, <2>1 DEF Appended, Ledger!Take
  <2> QED
    BY <1>1, <2>2 DEF Ledger!Next
<1> QED
  BY <1>2, <1>5, <1>6 DEF Redeem

LEMMA LedgerSign ==
  ASSUME IInv, NEW h \in Handlers, Sign(h)
  PROVE  Ledger!Next
<1> DEFINE r == [fingerprint |-> job[h].fingerprint, license |-> license[h]]
<1>1. job[h].code \in Codes /\ r \in redemptions[job[h].code]
  BY DEF IInv, TypeOK, CarriedIsCurrent, Sign, Redeems
<1>2. Ledger!Sign(job[h].code, r)
  BY <1>1 DEF Sign, table, Ledger!Sign
<1> QED
  BY <1>1, <1>2 DEF Ledger!Next

LEMMA LedgerStep == IInv /\ [Next]_vars => [Ledger!Next]_(Ledger!vars)
<1> SUFFICES ASSUME IInv, [Next]_vars
             PROVE  Ledger!Next \/ UNCHANGED Ledger!vars
  OBVIOUS
<1>1. ASSUME NEW c \in Codes, NEW pl \in Plans, Mint(c, pl) PROVE Ledger!Next
  BY <1>1, LedgerSell DEF Mint, Sources
<1>2. ASSUME NEW h \in Handlers, Handle(h)
      PROVE  Ledger!Next \/ UNCHANGED Ledger!vars
  <2>1. CASE FindByPaymentID(h) \/ GetToken(h)
    BY <2>1, LedgerQuiet DEF FindByPaymentID, GetToken, table
  <2> QED
    BY <1>2, <2>1, LedgerCreateToken, LedgerAnswer, LedgerRedeem, LedgerSign DEF Handle
<1>3. ASSUME NEW h \in Handlers, StoreFails(h) PROVE UNCHANGED Ledger!vars
  BY <1>3, LedgerQuiet DEF StoreFails, table
<1>4. ASSUME NEW h \in Handlers, NEW j, NEW at, Arrive(h, j, at)
      PROVE  UNCHANGED Ledger!vars
  BY <1>4, LedgerQuiet DEF Arrive, table
<1>5. CASE Crash \/ UNCHANGED vars
  BY <1>5, LedgerQuiet DEF Crash, vars, table
<1> QED
  BY <1>1, <1>2, <1>3, <1>4, <1>5 DEF Next, WebhookArrives, RedeemArrives

(* Concurrent, repeated and failing requests included, the issuer behaves as
   the one-clerk ledger of LicenceLedger. *)
THEOREM IssuerImplementsLedger == Spec => ImplementsLedger
  BY LedgerInit, LedgerStep, Invariance, PTL DEF Spec, ImplementsLedger, Ledger!Spec

-----------------------------------------------------------------------------
(* What module Activation assumes of the issuer, where Redeem, NotRedeemed and
   Exhausted stand for the whole of it. *)

(* The machines token c was redeemed for. *)
Holders(c) == {r.fingerprint : r \in redemptions[c]}

(* As Redeemable of Activation, whose key is c. *)
RedeemableBy(c, f) == f \in Holders(c) \/ Cardinality(Holders(c)) < Limit(c)

(* The holders of a token are the same, or one more that could have it. *)
Granted(c) ==
  \/ Holders(c)' = Holders(c)
  \/ \E f \in Fingerprints :
       Minted(c) /\ RedeemableBy(c, f) /\ Holders(c)' = Holders(c) \cup {f}

RefusedJustly(c) ==
  \A f \in Fingerprints : <<c, f>> \in refused' \ refused => ~RedeemableBy(c, f)

SignedForHolders(c) ==
  \A l \in issued' \ issued : l.code = c => l.fingerprint \in Holders(c)

AsActivationAssumes ==
  [][\A c \in Codes : Granted(c) /\ RefusedJustly(c) /\ SignedForHolders(c)]_vars

(* A machine is in the audit trail once, so there are as many of them as rows. *)
LEMMA HoldersCounted ==
  ASSUME IInv, NEW c \in Codes
  PROVE  Cardinality(Holders(c)) = Cardinality(redemptions[c])
<1> DEFINE rows == redemptions[c]
           f == [r \in rows |-> r.fingerprint]
<1>1. IsFiniteSet(rows) /\ \A r, s \in rows : r.fingerprint = s.fingerprint => r = s
  BY DEF IInv, RedemptionsAccounted
<1>2. f \in [rows -> Holders(c)] /\ \A t \in Holders(c) : \E r \in rows : f[r] = t
  BY DEF Holders
<1>3. f \in Surjection(rows, Holders(c))
  BY <1>2 DEF Surjection
<1>4. f \in Injection(rows, Holders(c))
  BY <1>1, <1>2 DEF Injection, IsInjective
<1> HIDE DEF f, rows
<1> QED
  BY <1>1, <1>3, <1>4, FS_Surjection DEF rows

(* The ledger has a seat for a machine exactly when Activation calls it
   redeemable. *)
LEMMA SeatsAreRedeemable ==
  ASSUME IInv, NEW c \in Codes, Minted(c), NEW m \in Fingerprints
  PROVE  RedeemableBy(c, m) <=> Ledger!Seated(c, m) \/ ~Ledger!Full(c)
<1>1. m \in Holders(c) <=> Ledger!Seated(c, m)
  BY DEF Holders, Ledger!Seated
<1>2. /\ Cardinality(Holders(c)) = used[c] /\ used[c] \in Nat
      /\ Cardinality(redemptions[c]) = used[c]
      /\ used[c] <= Limit(c) /\ Limit(c) \in Nat
  BY HoldersCounted, PlansAssumption DEF IInv, TypeOK, RedemptionsAccounted, Limit
<1>3. Cardinality(Holders(c)) < Limit(c) <=> ~Ledger!Full(c)
  BY <1>2, LedgerCounts DEF Limit, Ledger!Full
<1> QED
  BY <1>1, <1>3 DEF RedeemableBy

(* Each of the ledger's steps is one that Activation allows. *)
LEMMA LedgerAsAssumed ==
  ASSUME IInv, Ledger!Next, NEW c \in Codes
  PROVE  Granted(c) /\ RefusedJustly(c) /\ SignedForHolders(c)
<1>1. PICK d \in Codes :
        \/ \E s \in Payments \cup {CLI}, pl \in Plans : Ledger!Sell(d, s, pl)
        \/ \E p \in Payments : Ledger!Answer(p, d)
        \/ \E m \in Fingerprints, l \in LicenseIds : Ledger!Take(d, m, l)
        \/ \E r \in redemptions[d] : Ledger!Sign(d, r)
        \/ \E m \in Fingerprints : Ledger!TurnAway(d, m)
  BY DEF Ledger!Next
<1>2. ASSUME UNCHANGED redemptions PROVE Granted(c)
  BY <1>2 DEF Granted, Holders
<1>3. ASSUME UNCHANGED refused PROVE RefusedJustly(c)
  BY <1>3 DEF RefusedJustly
<1>4. ASSUME UNCHANGED issued PROVE SignedForHolders(c)
  BY <1>4 DEF SignedForHolders
<1>5. CASE \/ \E s \in Payments \cup {CLI}, pl \in Plans : Ledger!Sell(d, s, pl)
           \/ \E p \in Payments : Ledger!Answer(p, d)
  BY <1>2, <1>3, <1>4, <1>5 DEF Ledger!Sell, Ledger!Answer
<1>6. ASSUME NEW m \in Fingerprints, NEW l \in LicenseIds, Ledger!Take(d, m, l)
      PROVE  Granted(c) /\ RefusedJustly(c) /\ SignedForHolders(c)
  <2> DEFINE new == [fingerprint |-> m, license |-> l]
  <2>1. RefusedJustly(c) /\ SignedForHolders(c)
    BY <1>3, <1>4, <1>6 DEF Ledger!Take
  <2>2. Minted(d) /\ RedeemableBy(d, m)
    BY <1>6, SeatsAreRedeemable DEF Ledger!Take, Minted
  <2>3. redemptions' = [redemptions EXCEPT ![d] = @ \cup {new}]
        /\ redemptions \in [Codes -> SUBSET Redemptions]
    BY <1>6 DEF Ledger!Take, IInv, TypeOK
  <2>4. CASE c = d
    <3>1. redemptions'[c] = redemptions[c] \cup {new} /\ new.fingerprint = m
      BY <2>3, <2>4
    <3>2. Holders(c)' = Holders(c) \cup {m}
      BY <3>1 DEF Holders
    <3> QED
      BY <2>1, <2>2, <2>4, <3>2 DEF Granted
  <2>5. CASE c # d
    BY <2>1, <2>3, <2>5 DEF Granted, Holders
  <2> QED
    BY <2>4, <2>5
<1>7. ASSUME NEW r \in redemptions[d], Ledger!Sign(d, r)
      PROVE  Granted(c) /\ RefusedJustly(c) /\ SignedForHolders(c)
  <2>1. \A l \in issued' \ issued :
          l = [code |-> d, fingerprint |-> r.fingerprint, license |-> r.license]
    BY <1>7 DEF Ledger!Sign
  <2>2. r.fingerprint \in Holders(d)
    BY DEF Holders
  <2>3. SignedForHolders(c)
    BY <2>1, <2>2 DEF SignedForHolders
  <2> QED
    BY <1>2, <1>3, <1>7, <2>3 DEF Ledger!Sign
<1>8. ASSUME NEW m \in Fingerprints, Ledger!TurnAway(d, m)
      PROVE  Granted(c) /\ RefusedJustly(c) /\ SignedForHolders(c)
  <2>1. ~RedeemableBy(d, m)
    BY <1>8, SeatsAreRedeemable DEF Ledger!TurnAway, Minted
  <2>2. \A x \in refused' \ refused : x = <<d, m>>
    BY <1>8 DEF Ledger!TurnAway
  <2>3. RefusedJustly(c)
    BY <2>1, <2>2 DEF RefusedJustly
  <2> QED
    BY <1>2, <1>4, <1>8, <2>3 DEF Ledger!TurnAway
<1> QED
  BY <1>1, <1>5, <1>6, <1>7, <1>8

(* Of a token, as Activation has it: a redemption adds one machine that holds
   it or for which there is room, an "exhausted" goes only to one for which
   there is none, and a licence is signed only for a holder, however many
   installations use the issuer at once (store.go:176, activation.go). *)
THEOREM IssuerIsAsAssumed == Spec => AsActivationAssumes
<1> DEFINE Allowed == \A c \in Codes : Granted(c) /\ RefusedJustly(c) /\ SignedForHolders(c)
<1>1. IInv /\ [Next]_vars => [Allowed]_vars
  <2> SUFFICES ASSUME IInv, [Next]_vars PROVE Allowed \/ UNCHANGED vars
    OBVIOUS
  <2>1. CASE Ledger!Next
    BY <2>1, LedgerAsAssumed
  <2>2. CASE UNCHANGED Ledger!vars
    BY <2>2 DEF Ledger!vars, Granted, RefusedJustly, SignedForHolders, Holders
  <2> QED
    BY <2>1, <2>2, LedgerStep
<1> QED
  BY <1>1, Invariance, PTL DEF Spec, AsActivationAssumes

=============================================================================
