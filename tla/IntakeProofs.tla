---------------------------- MODULE IntakeProofs ----------------------------
(* For any presses, contacts, retries and restarts: what is pressed in Tally
   is accounted for in the outbox. *)
EXTENDS Intake, FiniteSetTheorems, TLAPS

-----------------------------------------------------------------------------
(* The inductive invariant. *)

Stages == {"idle", "contact", "load", "send", "wait", "done"}

Threads ==
  /\ stage \in [Presses -> Stages]
  /\ at \in [Presses -> Nat]
  /\ attempt \in [Presses -> Nat]
  /\ DOMAIN using = Presses
  /\ failures \in [Presses -> Nat]

Tallied ==
  /\ bucket \in Nat
  /\ items \in [Presses -> [Everyone -> Nat]]
  /\ posts \in [Presses -> [Everyone -> Nat]]
  /\ began \in [Presses -> Nat]
  /\ told \in [Presses -> {"nothing", "no file", "finished", "partial"}]
  /\ misled \in SUBSET (Presses \X Everyone)

Flights ==
  /\ IsFiniteSet(flight)
  /\ \A f \in flight : f.press \in Presses /\ f.contact \in Everyone

(* A thread at work is at one of its contacts. *)
Walking ==
  \A p \in Presses :
    /\ stage[p] = "contact" => at[p] \in Nat \ {0}
    /\ stage[p] \in {"load", "send", "wait"} => at[p] \in 1..Len(Contacts[p])

(* Before a button is pressed nothing is on its way. *)
Fresh ==
  \A p \in Presses : stage[p] = "idle" =>
    /\ \A c \in Everyone : items[p][c] = 0
    /\ \A f \in flight : f.press # p

(* One item for a voucher and a contact, whichever press made it. *)
VoucherOnce ==
  \A p \in Presses, c \in Everyone : Kind[p] = "voucher" =>
    /\ items[p][c] <= 1
    /\ items[p][c] > 0 =>
         /\ <<Voucher[p], c>> \in keys
         /\ \A q \in Same(p) \ {p} : items[q][c] = 0

(* One item for a file and a contact in each window, so far without this one
   when its key is not there yet. *)
FileWindow ==
  \A p \in Presses : Kind[p] = "file" =>
    /\ began[p] <= bucket
    /\ \A c \in Everyone :
         /\ items[p][c] <= 1 + bucket - began[p]
         /\ <<Voucher[p], c, bucket>> \notin keys =>
              items[p][c] <= bucket - began[p]

InFlight(p, c) == {f \in flight : f.press = p /\ f.contact = c}

(* One item for each attempt of a text that was handled. *)
TextCount ==
  \A p \in Presses, c \in Everyone : Kind[p] = "text" =>
    items[p][c] + Cardinality(InFlight(p, c)) <= posts[p][c]

Has(p, c) == \E q \in Same(p) : items[q][c] > 0

(* There is an item for each key. *)
KeysBacked ==
  \A p \in Presses, c \in Everyone :
    /\ Kind[p] = "voucher" /\ <<Voucher[p], c>> \in keys => Has(p, c)
    /\ Kind[p] = "file" =>
         \A b \in Nat : <<Voucher[p], c, b>> \in keys => Has(p, c)

(* The contacts a thread is through with have their items, or another program
   said so, if none failed. *)
Settled(p, c) == Has(p, c) \/ <<p, c>> \in misled

Served ==
  \A p \in Presses :
    /\ failures[p] = 0 =>
         \A i \in 1..Len(Contacts[p]) : i < at[p] => Settled(p, Contacts[p][i])
    /\ told[p] = "finished" =>
         \A i \in 1..Len(Contacts[p]) : Settled(p, Contacts[p][i])

IntakeInv ==
  /\ Threads
  /\ Tallied
  /\ Flights
  /\ Walking
  /\ Fresh
  /\ VoucherOnce
  /\ FileWindow
  /\ TextCount
  /\ KeysBacked
  /\ Served

LEMMA IntakeInitInv ==
  ASSUME IntakeInit PROVE IntakeInv
<1> USE IntakeAssumption DEF IntakeInit, None
<1>1. flight = {} /\ IsFiniteSet(flight)
  BY FS_EmptySet
<1>2. Threads /\ Tallied /\ Flights
  BY <1>1 DEF Threads, Tallied, Flights, Stages
<1>3. Walking /\ Fresh /\ VoucherOnce /\ FileWindow /\ KeysBacked /\ Served
  BY DEF Walking, Fresh, VoucherOnce, FileWindow, KeysBacked, Served, Settled
<1>4. TextCount
  <2> SUFFICES ASSUME NEW p \in Presses, NEW c \in Everyone
               PROVE  items[p][c] + Cardinality(InFlight(p, c)) <= posts[p][c]
    BY DEF TextCount
  <2>1. InFlight(p, c) = {}
    BY <1>1 DEF InFlight
  <2>2. Cardinality(InFlight(p, c)) = 0
    BY <2>1, FS_EmptySet
  <2>3. items[p][c] = 0 /\ posts[p][c] = 0
    OBVIOUS
  <2> QED BY <2>2, <2>3
<1> QED BY <1>2, <1>3, <1>4 DEF IntakeInv

-----------------------------------------------------------------------------
(* What the parts of the steps do. *)

LEMMA ContactTyped ==
  ASSUME NEW p \in Presses, NEW i \in 1..Len(Contacts[p])
  PROVE  Contacts[p][i] \in Everyone
<1>1. Contacts[p] \in Seq(Everyone)
  BY IntakeAssumption
<1> QED BY <1>1

LEMMA ContactsLength == \A p \in Presses : Len(Contacts[p]) \in Nat
<1>1. \A p \in Presses : Contacts[p] \in Seq(Everyone)
  BY IntakeAssumption
<1> QED BY <1>1

(* A changed place in a function. *)
LEMMA ChangedPlace ==
  ASSUME NEW D, NEW R, NEW f \in [D -> R], NEW d \in D, NEW v \in R
  PROVE  /\ [f EXCEPT ![d] = v] \in [D -> R]
         /\ [f EXCEPT ![d] = v][d] = v
         /\ \A e \in D \ {d} : [f EXCEPT ![d] = v][e] = f[e]
OBVIOUS

LEMMA Bumped ==
  ASSUME NEW D, NEW f \in [D -> Nat], NEW d \in D
  PROVE  [f EXCEPT ![d] = f[d] + 1] \in [D -> Nat]
OBVIOUS

(* What moving on does to the thread of a press. *)
Retried(p) ==
  /\ stage' = [stage EXCEPT ![p] = "load"]
  /\ at' = at
  /\ failures' = failures

Passed(p, success) ==
  /\ stage' = [stage EXCEPT ![p] = "contact"]
  /\ at' = [at EXCEPT ![p] = at[p] + 1]
  /\ failures' = IF success THEN failures
                            ELSE [failures EXCEPT ![p] = failures[p] + 1]

LEMMA RetryMoves ==
  ASSUME Threads, NEW p \in Presses, TryAgain(p)
  PROVE  Threads' /\ (Retried(p) \/ Passed(p, FALSE))
<1>1. CASE attempt[p] < MaxRetries
  <2>1. Retried(p)
    BY <1>1 DEF TryAgain, GoTo, Retried
  <2>2. attempt' = [attempt EXCEPT ![p] = attempt[p] + 1]
    BY <1>1 DEF TryAgain
  <2>3. attempt' \in [Presses -> Nat]
    BY <2>2, Bumped DEF Threads
  <2>4. DOMAIN using' = Presses
    BY <1>1 DEF TryAgain, Threads
  <2>5. stage' \in [Presses -> Stages]
    BY <2>1 DEF Retried, Stages, Threads
  <2> QED BY <2>1, <2>3, <2>4, <2>5 DEF Threads, Retried
<1>2. CASE ~(attempt[p] < MaxRetries)
  <2>1. ContactOver(p, FALSE)
    BY <1>2 DEF TryAgain
  <2>2. Passed(p, FALSE)
    BY <2>1 DEF ContactOver, GoTo, Passed
  <2>3. stage' \in [Presses -> Stages]
    BY <2>2 DEF Passed, Stages, Threads
  <2>4. at' \in [Presses -> Nat] /\ failures' \in [Presses -> Nat]
    BY <2>2, Bumped DEF Passed, Threads
  <2>5. attempt' \in [Presses -> Nat]
    BY <2>1 DEF ContactOver, Threads
  <2>6. DOMAIN using' = Presses
    BY <2>1 DEF ContactOver, Threads
  <2> QED BY <2>2, <2>3, <2>4, <2>5, <2>6 DEF Threads
<1> QED BY <1>1, <1>2

LEMMA PassMoves ==
  ASSUME Threads, NEW p \in Presses, NEW success \in BOOLEAN,
         ContactOver(p, success)
  PROVE  Threads' /\ Passed(p, success)
<1>1. Passed(p, success)
  BY DEF ContactOver, GoTo, Passed
<1>2. stage' \in [Presses -> Stages]
  BY <1>1 DEF Passed, Stages, Threads
<1>3. at' \in [Presses -> Nat]
  BY <1>1, Bumped DEF Passed, Threads
<1>4. failures' \in [Presses -> Nat]
  BY <1>1, Bumped DEF Passed, Threads
<1>5. attempt' \in [Presses -> Nat]
  BY DEF ContactOver, Threads
<1>6. DOMAIN using' = Presses
  BY DEF ContactOver, Threads
<1> QED BY <1>1, <1>2, <1>3, <1>4, <1>5, <1>6 DEF Threads

(* What an item is added to. *)
Swallowed(p, c) == Key(p, c) # {} /\ Key(p, c) \subseteq keys

LEMMA EnqueueCases ==
  ASSUME Tallied, NEW p \in Presses, NEW c \in Everyone, Enqueue(p, c)
  PROVE  /\ keys' = keys \cup Key(p, c)
         /\ items' \in [Presses -> [Everyone -> Nat]]
         /\ \/ Swallowed(p, c) /\ items' = items
            \/ ~Swallowed(p, c) /\ items'[p][c] = items[p][c] + 1
         /\ \A q \in Presses, d \in Everyone :
              q # p \/ d # c => items'[q][d] = items[q][d]
<1>1. CASE Swallowed(p, c)
  BY <1>1 DEF Enqueue, Swallowed, Tallied
<1>2. CASE ~Swallowed(p, c)
  <2> DEFINE row == [items[p] EXCEPT ![c] = items[p][c] + 1]
  <2>1. items' = [items EXCEPT ![p] = row]
    BY <1>2 DEF Enqueue, Swallowed
  <2>2. items[p] \in [Everyone -> Nat] /\ items[p][c] + 1 \in Nat
    <3>1. items \in [Presses -> [Everyone -> Nat]]
      BY DEF Tallied
    <3> QED BY <3>1
  <2>3. /\ row \in [Everyone -> Nat] /\ row[c] = items[p][c] + 1
        /\ \A d \in Everyone \ {c} : row[d] = items[p][d]
    BY <2>2
  <2> HIDE DEF row
  <2>4. /\ items' \in [Presses -> [Everyone -> Nat]] /\ items'[p] = row
        /\ \A q \in Presses \ {p} : items'[q] = items[q]
    BY <2>1, <2>3, ChangedPlace DEF Tallied
  <2>5. keys' = keys \cup Key(p, c)
    BY DEF Enqueue
  <2> QED BY <1>2, <2>3, <2>4, <2>5
<1> QED BY <1>1, <1>2

-----------------------------------------------------------------------------
(* A step of the thread of p from a contact it is at: it is at the same or
   past it.  The three lemmas say what that does to the parts of the
   invariant that speak of threads. *)
Moves(p) == Retried(p) \/ \E success \in BOOLEAN : Passed(p, success)

LEMMA WalkingMoves ==
  ASSUME Threads, Walking, NEW p \in Presses,
         stage[p] \in {"load", "send", "wait"}, Moves(p)
  PROVE  Walking'
<1>1. at[p] \in 1..Len(Contacts[p]) /\ at[p] \in Nat
  BY DEF Walking, Threads
<1>2. CASE Retried(p)
  BY <1>1, <1>2 DEF Walking, Threads, Retried
<1>3. ASSUME NEW success \in BOOLEAN, Passed(p, success) PROVE Walking'
  <2>1. at'[p] \in Nat \ {0} /\ stage'[p] = "contact"
    <3>1. at'[p] = at[p] + 1 /\ stage'[p] = "contact"
      BY <1>3 DEF Threads, Passed
    <3> QED BY <1>1, <3>1
  <2>2. \A q \in Presses \ {p} : at'[q] = at[q] /\ stage'[q] = stage[q]
    BY <1>3 DEF Threads, Passed
  <2> QED BY <2>1, <2>2 DEF Walking
<1> QED BY <1>2, <1>3 DEF Moves

LEMMA ServedMoves ==
  ASSUME Threads, Served, NEW p \in Presses,
         UNCHANGED told,
         \A q \in Presses, c \in Everyone : Settled(q, c) => Settled(q, c)',
         \/ Retried(p)
         \/ Passed(p, FALSE)
         \/ /\ Passed(p, TRUE)
            /\ \A i \in 1..Len(Contacts[p]) :
                 i = at[p] => Settled(p, Contacts[p][i])'
  PROVE  Served'
<1> SUFFICES ASSUME NEW q \in Presses
             PROVE  /\ failures'[q] = 0 =>
                         \A i \in 1..Len(Contacts[q]) :
                           i < at'[q] => Settled(q, Contacts[q][i])'
                    /\ told[q] = "finished" =>
                         \A i \in 1..Len(Contacts[q]) :
                           Settled(q, Contacts[q][i])'
  BY DEF Served
<1>1. \A i \in 1..Len(Contacts[q]) :
        Settled(q, Contacts[q][i]) => Settled(q, Contacts[q][i])'
  BY ContactTyped
<1>2. told[q] = "finished" =>
        \A i \in 1..Len(Contacts[q]) : Settled(q, Contacts[q][i])'
  BY <1>1 DEF Served
<1>3. failures[q] = 0 =>
        \A i \in 1..Len(Contacts[q]) : i < at[q] => Settled(q, Contacts[q][i])'
  BY <1>1 DEF Served
<1>4. at[q] \in Nat /\ failures[q] \in Nat
  BY DEF Threads
<1>5. CASE at'[q] = at[q] /\ failures'[q] = failures[q]
  BY <1>2, <1>3, <1>5
<1>6. CASE failures'[q] = failures[q] + 1
  BY <1>2, <1>4, <1>6
<1>7. CASE /\ q = p /\ Passed(p, TRUE)
           /\ \A i \in 1..Len(Contacts[p]) :
                i = at[p] => Settled(p, Contacts[p][i])'
  <2>1. at'[q] = at[q] + 1 /\ failures'[q] = failures[q]
    BY <1>7 DEF Passed, Threads
  <2>2. \A i \in 1..Len(Contacts[q]) : i < at[q] + 1 => i < at[q] \/ i = at[q]
    BY <1>4, ContactsLength
  <2> QED BY <1>2, <1>3, <1>7, <2>1, <2>2
<1>8. CASE Retried(p)
  BY <1>5, <1>8 DEF Retried
<1>9. CASE Passed(p, FALSE)
  <2>1. q # p => at'[q] = at[q] /\ failures'[q] = failures[q]
    BY <1>9 DEF Passed, Threads
  <2>2. q = p => failures'[q] = failures[q] + 1
    BY <1>9 DEF Passed, Threads
  <2> QED BY <1>5, <1>6, <2>1, <2>2
<1>10. CASE q # p /\ Passed(p, TRUE)
  BY <1>5, <1>10 DEF Passed, Threads
<1> QED BY <1>7, <1>8, <1>9, <1>10

-----------------------------------------------------------------------------
(* What adding an item does to the keys and the counts. *)

LEMMA PairsAndTriples ==
  ASSUME NEW a, NEW b, NEW x, NEW y, NEW z
  PROVE  <<a, b>> # <<x, y, z>>
<1>1. Len(<<a, b>>) = 2 /\ Len(<<x, y, z>>) = 3
  OBVIOUS
<1> QED BY <1>1

LEMMA KeyCases ==
  ASSUME NEW p \in Presses, NEW c \in Everyone
  PROVE  \/ Kind[p] = "voucher" /\ Key(p, c) = {<<Voucher[p], c>>}
         \/ Kind[p] = "file" /\ Key(p, c) = {<<Voucher[p], c, bucket>>}
         \/ Kind[p] = "text" /\ Key(p, c) = {}
<1>1. Kind[p] \in {"voucher", "file", "text"}
  BY IntakeAssumption
<1> QED BY <1>1 DEF Key

LEMMA VoucherKeys ==
  ASSUME NEW p \in Presses, NEW c \in Everyone, NEW v, NEW d,
         <<v, d>> \in Key(p, c)
  PROVE  Kind[p] = "voucher" /\ v = Voucher[p] /\ d = c
BY KeyCases, PairsAndTriples

LEMMA FileKeys ==
  ASSUME NEW p \in Presses, NEW c \in Everyone, NEW v, NEW d, NEW b,
         <<v, d, b>> \in Key(p, c)
  PROVE  Kind[p] = "file" /\ v = Voucher[p] /\ d = c /\ b = bucket
BY KeyCases, PairsAndTriples

LEMMA HasGrows ==
  ASSUME Tallied, NEW p \in Presses, NEW c \in Everyone, Enqueue(p, c)
  PROVE  \A q \in Presses, d \in Everyone : Has(q, d) => Has(q, d)'
<1> SUFFICES ASSUME NEW q \in Presses, NEW d \in Everyone,
                    NEW r \in Same(q), items[r][d] > 0
             PROVE  Has(q, d)'
  BY DEF Has
<1>1. r \in Presses
  BY DEF Same
<1>2. items[r][d] \in Nat
  <2>1. items \in [Presses -> [Everyone -> Nat]]
    BY DEF Tallied
  <2> QED BY <1>1, <2>1
<1>3. items'[r][d] = items[r][d] \/ items'[r][d] = items[r][d] + 1
  BY <1>1, EnqueueCases
<1>4. items'[r][d] > 0
  BY <1>2, <1>3
<1> QED BY <1>4 DEF Has, Same

(* The contact of the press has an item then: this one, or the one under its
   key. *)
LEMMA HasAdded ==
  ASSUME Tallied, KeysBacked, NEW p \in Presses, NEW c \in Everyone,
         Enqueue(p, c)
  PROVE  Has(p, c)'
<1>1. CASE Swallowed(p, c)
  <2>1. Kind[p] = "voucher" => <<Voucher[p], c>> \in keys
    BY <1>1, KeyCases DEF Swallowed
  <2>2. Kind[p] = "file" => <<Voucher[p], c, bucket>> \in keys
    BY <1>1, KeyCases DEF Swallowed
  <2>3. Kind[p] = "voucher" \/ Kind[p] = "file"
    BY <1>1, KeyCases DEF Swallowed
  <2>4. Has(p, c)
    BY <2>1, <2>2, <2>3 DEF KeysBacked, Tallied
  <2> QED BY <2>4, HasGrows
<1>2. CASE ~Swallowed(p, c)
  <2>1. items[p][c] \in Nat
    <3>1. items \in [Presses -> [Everyone -> Nat]]
      BY DEF Tallied
    <3> QED BY <3>1
  <2>2. items'[p][c] > 0
    BY <1>2, <2>1, EnqueueCases
  <2>3. p \in Same(p)
    BY DEF Same
  <2> QED BY <2>2, <2>3 DEF Has, Same
<1> QED BY <1>1, <1>2

LEMMA KeysBackedAdds ==
  ASSUME Tallied, KeysBacked, NEW p \in Presses, NEW c \in Everyone,
         Enqueue(p, c)
  PROVE  KeysBacked'
<1> SUFFICES ASSUME NEW q \in Presses, NEW d \in Everyone
             PROVE  /\ Kind[q] = "voucher" /\ <<Voucher[q], d>> \in keys' =>
                         Has(q, d)'
                    /\ Kind[q] = "file" =>
                         \A b \in Nat : <<Voucher[q], d, b>> \in keys' =>
                           Has(q, d)'
  BY DEF KeysBacked
<1>1. keys' = keys \cup Key(p, c)
  BY EnqueueCases
<1>2. Has(q, d) => Has(q, d)'
  BY HasGrows
<1>3. Kind[p] = Kind[q] /\ Voucher[p] = Voucher[q] /\ d = c => Has(q, d)'
  <2> SUFFICES ASSUME Kind[p] = Kind[q], Voucher[p] = Voucher[q], d = c
               PROVE  Has(q, d)'
    OBVIOUS
  <2>1. Has(p, c)'
    BY HasAdded
  <2>2. Same(p) = Same(q)
    BY DEF Same
  <2> QED BY <2>1, <2>2 DEF Has, Same
<1>4. Kind[q] = "voucher" /\ <<Voucher[q], d>> \in Key(p, c) => Has(q, d)'
  BY <1>3, VoucherKeys
<1>5. ASSUME NEW b \in Nat, Kind[q] = "file",
             <<Voucher[q], d, b>> \in Key(p, c)
      PROVE  Has(q, d)'
  BY <1>3, <1>5, FileKeys
<1> QED BY <1>1, <1>2, <1>4, <1>5 DEF KeysBacked

LEMMA VoucherOnceAdds ==
  ASSUME Tallied, VoucherOnce, NEW p \in Presses, NEW c \in Everyone,
         Enqueue(p, c)
  PROVE  VoucherOnce'
<1> SUFFICES ASSUME NEW q \in Presses, NEW d \in Everyone,
                    Kind[q] = "voucher"
             PROVE  /\ items'[q][d] <= 1
                    /\ items'[q][d] > 0 =>
                         /\ <<Voucher[q], d>> \in keys'
                         /\ \A r \in Same(q) \ {q} : items'[r][d] = 0
  BY DEF VoucherOnce, Same
<1>1. \A r \in Presses, e \in Everyone : items[r][e] \in Nat
  <2>1. items \in [Presses -> [Everyone -> Nat]]
    BY DEF Tallied
  <2> QED BY <2>1
<1>2. /\ items[q][d] <= 1
      /\ items[q][d] > 0 =>
           /\ <<Voucher[q], d>> \in keys
           /\ \A r \in Same(q) \ {q} : items[r][d] = 0
  BY DEF VoucherOnce
<1>3. keys' = keys \cup Key(p, c)
  BY EnqueueCases
<1>4. Same(q) \subseteq Presses
  BY DEF Same
<1>5. CASE p \notin Same(q) \/ d # c \/ Swallowed(p, c)
  <2>1. \A r \in Same(q) : items'[r][d] = items[r][d]
    BY <1>4, <1>5, EnqueueCases
  <2>2. q \in Same(q)
    BY DEF Same
  <2> QED BY <1>2, <1>3, <2>1, <2>2
<1>6. CASE p \in Same(q) /\ d = c /\ ~Swallowed(p, c)
  <2>1. Kind[p] = "voucher" /\ Voucher[p] = Voucher[q]
    BY <1>6 DEF Same
  <2>2. Key(p, c) = {<<Voucher[q], d>>} /\ <<Voucher[q], d>> \notin keys
    BY <1>6, <2>1, KeyCases DEF Swallowed
  <2>3. \A r \in Same(q) : items[r][d] = 0
    <3>1. ASSUME NEW r \in Same(q) PROVE items[r][d] = 0
      <4>1. r \in Presses /\ Kind[r] = "voucher" /\ Voucher[r] = Voucher[q]
        BY <3>1 DEF Same
      <4>2. items[r][d] > 0 => <<Voucher[r], d>> \in keys
        BY <4>1 DEF VoucherOnce
      <4> QED BY <1>1, <2>2, <4>1, <4>2
    <3> QED BY <3>1
  <2>4. q \in Same(q)
    BY DEF Same
  <2>5. \A r \in Same(q) : items'[r][d] = IF r = p THEN 1 ELSE 0
    <3>1. ASSUME NEW r \in Same(q) PROVE items'[r][d] = IF r = p THEN 1 ELSE 0
      <4>1. items[r][d] = 0 /\ r \in Presses
        BY <1>4, <2>3, <3>1
      <4>2. r # p => items'[r][d] = items[r][d]
        BY <4>1, EnqueueCases
      <4>3. r = p => items'[r][d] = items[r][d] + 1
        BY <1>6, EnqueueCases
      <4> QED BY <4>1, <4>2, <4>3
    <3> QED BY <3>1
  <2>6. <<Voucher[q], d>> \in keys'
    BY <1>3, <2>2
  <2>7. items'[q][d] > 0 => q = p
    BY <2>4, <2>5
  <2> QED BY <2>4, <2>5, <2>6, <2>7
<1> QED BY <1>5, <1>6

LEMMA FileWindowAdds ==
  ASSUME Tallied, FileWindow, NEW p \in Presses, NEW c \in Everyone,
         Enqueue(p, c), UNCHANGED <<bucket, began>>
  PROVE  FileWindow'
<1> SUFFICES ASSUME NEW q \in Presses, Kind[q] = "file", NEW d \in Everyone
             PROVE  /\ items'[q][d] <= 1 + bucket - began[q]
                    /\ <<Voucher[q], d, bucket>> \notin keys' =>
                         items'[q][d] <= bucket - began[q]
  BY DEF FileWindow
<1>1. items[q][d] \in Nat /\ bucket \in Nat /\ began[q] \in Nat
  <2>1. items \in [Presses -> [Everyone -> Nat]]
    BY DEF Tallied
  <2>2. bucket \in Nat /\ began \in [Presses -> Nat]
    BY DEF Tallied
  <2> QED BY <2>1, <2>2
<1>2. /\ items[q][d] <= 1 + bucket - began[q]
      /\ <<Voucher[q], d, bucket>> \notin keys =>
           items[q][d] <= bucket - began[q]
  BY DEF FileWindow
<1>3. keys' = keys \cup Key(p, c)
  BY EnqueueCases
<1>4. CASE items'[q][d] = items[q][d]
  BY <1>2, <1>3, <1>4
<1>5. CASE items'[q][d] # items[q][d]
  <2>1. p = q /\ c = d
    BY <1>5, EnqueueCases
  <2>2. ~Swallowed(p, c) /\ items'[q][d] = items[q][d] + 1
    BY <1>5, <2>1, EnqueueCases
  <2>3. Key(p, c) = {<<Voucher[q], d, bucket>>}
    BY <2>1, KeyCases
  <2>4. <<Voucher[q], d, bucket>> \notin keys
    BY <2>2, <2>3 DEF Swallowed
  <2> QED BY <1>1, <1>2, <1>3, <2>2, <2>3, <2>4
<1> QED BY <1>4, <1>5

-----------------------------------------------------------------------------
(* The requests on their way and the items of a text. *)

LEMMA FewerInFlight ==
  ASSUME Flights, NEW p \in Presses, NEW c \in Everyone, flight' \subseteq flight
  PROVE  /\ IsFiniteSet(InFlight(p, c))
         /\ Cardinality(InFlight(p, c)') <= Cardinality(InFlight(p, c))
         /\ Cardinality(InFlight(p, c)) \in Nat
         /\ Cardinality(InFlight(p, c)') \in Nat
<1>1. IsFiniteSet(flight) /\ InFlight(p, c) \subseteq flight
  BY DEF Flights, InFlight
<1>2. IsFiniteSet(InFlight(p, c))
  BY <1>1, FS_Subset
<1>3. InFlight(p, c)' \subseteq InFlight(p, c)
  BY DEF InFlight
<1>4. IsFiniteSet(InFlight(p, c)')
  BY <1>2, <1>3, FS_Subset
<1> QED BY <1>2, <1>3, <1>4, FS_Subset, FS_CardinalityType

LEMMA TextFewer ==
  ASSUME Tallied, Flights, TextCount, flight' \subseteq flight,
         UNCHANGED <<items, posts>>
  PROVE  TextCount'
<1> SUFFICES ASSUME NEW p \in Presses, NEW c \in Everyone, Kind[p] = "text"
             PROVE  items[p][c] + Cardinality(InFlight(p, c)') <= posts[p][c]
  BY DEF TextCount
<1>1. items[p][c] \in Nat /\ posts[p][c] \in Nat
  <2>1. items \in [Presses -> [Everyone -> Nat]]
    BY DEF Tallied
  <2>2. posts \in [Presses -> [Everyone -> Nat]]
    BY DEF Tallied
  <2> QED BY <2>1, <2>2
<1>2. items[p][c] + Cardinality(InFlight(p, c)) <= posts[p][c]
  BY DEF TextCount
<1> QED BY <1>1, <1>2, FewerInFlight

LEMMA TextHandled ==
  ASSUME Tallied, Flights, TextCount, NEW f \in flight,
         flight' = flight \ {f}, Enqueue(f.press, f.contact), UNCHANGED posts
  PROVE  TextCount'
<1> SUFFICES ASSUME NEW p \in Presses, NEW c \in Everyone, Kind[p] = "text"
             PROVE  items'[p][c] + Cardinality(InFlight(p, c)') <= posts[p][c]
  BY DEF TextCount
<1>0. f.press \in Presses /\ f.contact \in Everyone
  BY DEF Flights
<1>1. items[p][c] \in Nat /\ posts[p][c] \in Nat
  <2>1. items \in [Presses -> [Everyone -> Nat]]
    BY DEF Tallied
  <2>2. posts \in [Presses -> [Everyone -> Nat]]
    BY DEF Tallied
  <2> QED BY <2>1, <2>2
<1>2. items[p][c] + Cardinality(InFlight(p, c)) <= posts[p][c]
  BY DEF TextCount
<1>3. flight' \subseteq flight
  OBVIOUS
<1>4. CASE f.press # p \/ f.contact # c
  <2>1. items'[p][c] = items[p][c]
    BY <1>0, <1>4, EnqueueCases
  <2> QED BY <1>1, <1>2, <1>3, <2>1, FewerInFlight
<1>5. CASE f.press = p /\ f.contact = c
  <2>1. items'[p][c] = items[p][c] \/ items'[p][c] = items[p][c] + 1
    BY <1>5, EnqueueCases
  <2>2. f \in InFlight(p, c) /\ InFlight(p, c)' = InFlight(p, c) \ {f}
    BY <1>5 DEF InFlight
  <2>3. Cardinality(InFlight(p, c)') = Cardinality(InFlight(p, c)) - 1
    BY <1>3, <2>2, FewerInFlight, FS_RemoveElement
  <2>4. Cardinality(InFlight(p, c)) \in Nat
    BY <1>3, FewerInFlight
  <2> QED BY <1>1, <1>2, <2>1, <2>3, <2>4
<1> QED BY <1>4, <1>5

(* A thread that sends is at one of its contacts. *)
LEMMA CurrentTyped ==
  ASSUME Walking, NEW p \in Presses, stage[p] \in {"load", "send", "wait"}
  PROVE  Current(p) \in Everyone
BY ContactTyped DEF Walking, Current

LEMMA TextArrives ==
  ASSUME Tallied, Flights, Walking, TextCount, NEW p \in Presses, Arrives(p)
  PROVE  TextCount' /\ posts' \in [Presses -> [Everyone -> Nat]]
<1>1. Current(p) \in Everyone
  BY CurrentTyped DEF Arrives
<1>2. posts \in [Presses -> [Everyone -> Nat]]
  BY DEF Tallied
<1>3. items \in [Presses -> [Everyone -> Nat]]
  BY DEF Tallied
<1> DEFINE row == [posts[p] EXCEPT ![Current(p)] = posts[p][Current(p)] + 1]
<1>4. /\ row \in [Everyone -> Nat]
      /\ row[Current(p)] = posts[p][Current(p)] + 1
      /\ \A d \in Everyone \ {Current(p)} : row[d] = posts[p][d]
  BY <1>1, <1>2
<1>5. posts' = IF Kind[p] = "text" THEN [posts EXCEPT ![p] = row] ELSE posts
  BY DEF Arrives
<1> HIDE DEF row
<1>6. posts' \in [Presses -> [Everyone -> Nat]]
  BY <1>2, <1>4, <1>5
<1>7. ASSUME NEW q \in Presses, NEW d \in Everyone, Kind[q] = "text"
      PROVE  items'[q][d] + Cardinality(InFlight(q, d)') <= posts'[q][d]
  <2>1. items' = items /\ flight' = flight \cup {Request(p)}
    BY DEF Arrives
  <2>2. items[q][d] + Cardinality(InFlight(q, d)) <= posts[q][d]
    BY <1>7 DEF TextCount
  <2>3. items[q][d] \in Nat /\ posts[q][d] \in Nat
    BY <1>2, <1>3
  <2>4. IsFiniteSet(InFlight(q, d)) /\ Cardinality(InFlight(q, d)) \in Nat
    <3>1. IsFiniteSet(flight) /\ InFlight(q, d) \subseteq flight
      BY DEF Flights, InFlight
    <3> QED BY <3>1, FS_Subset, FS_CardinalityType
  <2>5. CASE q = p /\ d = Current(p)
    <3>1. InFlight(q, d)' = InFlight(q, d) \cup {Request(p)}
      BY <2>1, <2>5 DEF InFlight, Request
    <3>2. Cardinality(InFlight(q, d)') <= Cardinality(InFlight(q, d)) + 1
          /\ Cardinality(InFlight(q, d)') \in Nat
      BY <2>4, <3>1, FS_AddElement
    <3>3. posts'[q][d] = posts[q][d] + 1
      BY <1>2, <1>4, <1>5, <1>7, <2>5
    <3> QED BY <2>1, <2>2, <2>3, <2>4, <3>2, <3>3
  <2>6. CASE q # p \/ d # Current(p)
    <3>1. InFlight(q, d)' = InFlight(q, d)
      BY <2>1, <2>6 DEF InFlight, Request
    <3>2. posts'[q][d] = posts[q][d]
      BY <1>2, <1>4, <1>5, <2>6
    <3> QED BY <2>1, <2>2, <3>1, <3>2
  <2> QED BY <2>5, <2>6
<1> QED BY <1>6, <1>7 DEF TextCount

-----------------------------------------------------------------------------
(* The steps. *)

LEMMA NothingAdded ==
  ASSUME UNCHANGED <<keys, items>>
  PROVE  /\ VoucherOnce => VoucherOnce'
         /\ KeysBacked => KeysBacked'
         /\ \A q \in Presses, c \in Everyone : Has(q, c) => Has(q, c)'
<1>1. \A q, c : Has(q, c)' <=> Has(q, c)
  BY DEF Has, Same
<1>2. VoucherOnce => VoucherOnce'
  BY DEF VoucherOnce, Same
<1>3. KeysBacked => KeysBacked'
  BY <1>1 DEF KeysBacked
<1> QED BY <1>1, <1>2, <1>3

(* The service starts, publishes its port, or gets a licence. *)
LEMMA ServiceKeeps ==
  ASSUME IntakeInv,
         UNCHANGED <<bucket, keys, items, flight, stage, at, attempt, using,
                     failures, posts, began, told, misled>>
  PROVE  IntakeInv'
<1> USE DEF IntakeInv
<1>1. Threads' /\ Walking'
  BY DEF Threads, Walking
<1>2. Tallied' /\ Flights'
  BY DEF Tallied, Flights
<1>3. Fresh' /\ FileWindow'
  BY DEF Fresh, FileWindow
<1>4. TextCount'
  BY TextFewer
<1>5. VoucherOnce' /\ KeysBacked'
  BY NothingAdded
<1>6. Served'
  BY DEF Served, Settled, Has, Same
<1> QED BY <1>1, <1>2, <1>3, <1>4, <1>5, <1>6

LEMMA ServiceEndsKeeps ==
  ASSUME IntakeInv, ServiceEnds
  PROVE  IntakeInv'
<1> USE DEF IntakeInv, ServiceEnds
<1>1. Threads' /\ Walking'
  BY DEF Threads, Walking
<1>2. Tallied'
  BY DEF Tallied
<1>3. Flights'
  BY FS_EmptySet DEF Flights
<1>4. Fresh' /\ FileWindow'
  BY DEF Fresh, FileWindow
<1>5. TextCount'
  BY TextFewer
<1>6. VoucherOnce' /\ KeysBacked'
  BY NothingAdded
<1>7. Served'
  BY DEF Served, Settled, Has, Same
<1> QED BY <1>1, <1>2, <1>3, <1>4, <1>5, <1>6, <1>7

LEMMA WindowEndsKeeps ==
  ASSUME IntakeInv, WindowEnds
  PROVE  IntakeInv'
<1> USE DEF IntakeInv, WindowEnds
<1>1. Threads' /\ Walking'
  BY DEF Threads, Walking
<1>2. bucket \in Nat /\ bucket' = bucket + 1
  BY DEF Tallied
<1>3. Tallied'
  <2>1. bucket' \in Nat
    BY <1>2
  <2> QED BY <2>1 DEF Tallied
<1>4. Flights' /\ Fresh'
  BY DEF Flights, Fresh
<1>5. FileWindow'
  <2> SUFFICES ASSUME NEW p \in Presses, Kind[p] = "file"
               PROVE  /\ began[p] <= bucket'
                      /\ \A c \in Everyone : items[p][c] <= bucket' - began[p]
    <3>1. began \in [Presses -> Nat] /\ items \in [Presses -> [Everyone -> Nat]]
      BY DEF Tallied
    <3>2. \A p \in Presses, c \in Everyone :
            items[p][c] \in Nat /\ began[p] \in Nat
      BY <3>1
    <3> QED BY <1>2, <3>2 DEF FileWindow
  <2>1. began[p] \in Nat
    BY DEF Tallied
  <2>2. began[p] <= bucket
    BY DEF FileWindow
  <2>3. ASSUME NEW c \in Everyone PROVE items[p][c] <= bucket' - began[p]
    <3>1. items[p][c] <= 1 + bucket - began[p]
      BY <2>3 DEF FileWindow
    <3>2. items \in [Presses -> [Everyone -> Nat]]
      BY DEF Tallied
    <3>3. items[p][c] \in Nat
      BY <3>2
    <3> QED BY <1>2, <2>1, <3>1, <3>3
  <2> QED BY <1>2, <2>1, <2>2, <2>3
<1>6. TextCount'
  BY TextFewer
<1>7. VoucherOnce' /\ KeysBacked'
  BY NothingAdded
<1>8. Served'
  BY DEF Served, Settled, Has, Same
<1> QED BY <1>1, <1>3, <1>4, <1>5, <1>6, <1>7, <1>8

LEMMA PressKeeps ==
  ASSUME IntakeInv, NEW p \in Presses, Press(p)
  PROVE  IntakeInv'
<1> USE DEF IntakeInv
<1>1. \/ /\ stage' = [stage EXCEPT ![p] = "contact"]
         /\ at' = [at EXCEPT ![p] = 1] /\ told' = told
      \/ /\ stage' = [stage EXCEPT ![p] = "done"]
         /\ at' = at /\ told' = [told EXCEPT ![p] = "no file"]
  BY DEF Press, GoTo
<1>2. Threads'
  <2>1. stage' \in [Presses -> Stages]
    BY <1>1 DEF Threads, Stages
  <2>2. at' \in [Presses -> Nat]
    <3>1. at \in [Presses -> Nat]
      BY DEF Threads
    <3>2. at' = at \/ at' = [at EXCEPT ![p] = 1]
      BY <1>1
    <3> QED BY <3>1, <3>2
  <2> QED BY <2>1, <2>2 DEF Threads, Press
<1>3. /\ bucket \in Nat
      /\ began' = [began EXCEPT ![p] = IF Kind[p] = "file" THEN bucket ELSE 0]
  BY DEF Tallied, Press
<1>4. Tallied'
  <2>1. began' \in [Presses -> Nat]
    BY <1>3 DEF Tallied
  <2>2. told' \in [Presses -> {"nothing", "no file", "finished", "partial"}]
    BY <1>1 DEF Tallied
  <2> QED BY <2>1, <2>2 DEF Tallied, Press
<1>5. Walking'
  <2>1. DOMAIN stage = Presses /\ DOMAIN at = Presses
    BY DEF Threads
  <2>2. stage'[p] = "done" \/ (stage'[p] = "contact" /\ at'[p] = 1)
    <3>1. CASE stage' = [stage EXCEPT ![p] = "done"]
      BY <2>1, <3>1
    <3>2. CASE /\ stage' = [stage EXCEPT ![p] = "contact"]
               /\ at' = [at EXCEPT ![p] = 1]
      BY <2>1, <3>2
    <3> QED BY <1>1, <3>1, <3>2
  <2>3. \A q \in Presses \ {p} : stage'[q] = stage[q] /\ at'[q] = at[q]
    BY <1>1, <2>1
  <2> QED BY <2>2, <2>3 DEF Walking
<1>6. Flights'
  BY DEF Flights, Press
<1>7. Fresh'
  <2>1. \A q \in Presses : stage'[q] = "idle" => stage[q] = "idle"
    BY <1>1 DEF Threads
  <2> QED BY <2>1 DEF Fresh, Press
<1>8. FileWindow'
  <2> SUFFICES ASSUME NEW q \in Presses, Kind[q] = "file"
               PROVE  /\ began'[q] <= bucket
                      /\ \A c \in Everyone :
                           /\ items[q][c] <= 1 + bucket - began'[q]
                           /\ <<Voucher[q], c, bucket>> \notin keys =>
                                items[q][c] <= bucket - began'[q]
    BY DEF FileWindow, Press
  <2>1. CASE q = p
    <3>1. began'[q] = bucket
      BY <1>3, <2>1 DEF Tallied
    <3>2. \A c \in Everyone : items[q][c] = 0
      BY <2>1 DEF Fresh, Press
    <3> QED BY <1>3, <3>1, <3>2
  <2>2. CASE q # p
    <3>1. began'[q] = began[q]
      BY <1>3, <2>2 DEF Tallied
    <3> QED BY <3>1 DEF FileWindow
  <2> QED BY <2>1, <2>2
<1>9. TextCount'
  BY TextFewer DEF Press
<1>10. VoucherOnce' /\ KeysBacked'
  BY NothingAdded DEF Press
<1>11. Served'
  <2> SUFFICES ASSUME NEW q \in Presses
               PROVE  /\ failures[q] = 0 =>
                           \A i \in 1..Len(Contacts[q]) :
                             i < at'[q] => Settled(q, Contacts[q][i])
                      /\ told'[q] = "finished" =>
                           \A i \in 1..Len(Contacts[q]) :
                             Settled(q, Contacts[q][i])
    BY DEF Served, Settled, Press, Has, Same
  <2>1. at'[q] = at[q] \/ at'[q] = 1
    BY <1>1 DEF Threads
  <2>2. told'[q] = "finished" => told[q] = "finished"
    BY <1>1 DEF Tallied
  <2>3. \A i \in 1..Len(Contacts[q]) : ~(i < 1)
    BY ContactsLength
  <2> QED BY <2>1, <2>2, <2>3 DEF Served
<1> QED BY <1>2, <1>4, <1>5, <1>6, <1>7, <1>8, <1>9, <1>10, <1>11

LEMMA FinishKeeps ==
  ASSUME IntakeInv, NEW p \in Presses, Finish(p)
  PROVE  IntakeInv'
<1> USE DEF IntakeInv
<1>1. /\ stage' = [stage EXCEPT ![p] = "done"]
      /\ told' = [told EXCEPT ![p] =
                    IF failures[p] = 0 THEN "finished" ELSE "partial"]
  BY DEF Finish, GoTo
<1>2. Threads'
  <2>1. stage' \in [Presses -> Stages]
    BY <1>1 DEF Threads, Stages
  <2> QED BY <2>1 DEF Threads, Finish
<1>3. Tallied'
  <2>1. told' \in [Presses -> {"nothing", "no file", "finished", "partial"}]
    BY <1>1 DEF Tallied
  <2> QED BY <2>1 DEF Tallied, Finish
<1>4. Walking'
  <2>1. DOMAIN stage = Presses
    BY DEF Threads
  <2>2. stage'[p] = "done" /\ \A q \in Presses \ {p} : stage'[q] = stage[q]
    BY <1>1, <2>1
  <2> QED BY <2>2 DEF Walking, Finish
<1>5. Flights' /\ FileWindow'
  BY DEF Flights, FileWindow, Finish
<1>6. Fresh'
  <2>1. \A q \in Presses : stage'[q] = "idle" => stage[q] = "idle"
    BY <1>1 DEF Threads
  <2> QED BY <2>1 DEF Fresh, Finish
<1>7. TextCount'
  BY TextFewer DEF Finish
<1>8. VoucherOnce' /\ KeysBacked'
  BY NothingAdded DEF Finish
<1>9. Served'
  <2> SUFFICES ASSUME NEW q \in Presses, told'[q] = "finished"
               PROVE  \A i \in 1..Len(Contacts[q]) : Settled(q, Contacts[q][i])
    BY DEF Served, Settled, Finish, Has, Same
  <2>1. CASE q = p
    <3>1. failures[p] = 0
      BY <1>1, <2>1 DEF Tallied
    <3>2. at[p] \in Nat /\ at[p] > Len(Contacts[p])
      BY DEF Threads, Finish
    <3>3. \A i \in 1..Len(Contacts[p]) : i < at[p]
      BY <3>2, ContactsLength
    <3> QED BY <2>1, <3>1, <3>3 DEF Served
  <2>2. CASE q # p
    <3>1. told[q] = "finished"
      BY <1>1, <2>2 DEF Tallied
    <3> QED BY <3>1 DEF Served
  <2> QED BY <2>1, <2>2
<1> QED BY <1>2, <1>3, <1>4, <1>5, <1>6, <1>7, <1>8, <1>9

LEMMA BeginContactKeeps ==
  ASSUME IntakeInv, NEW p \in Presses, BeginContact(p)
  PROVE  IntakeInv'
<1> USE DEF IntakeInv
<1>1. \/ /\ stage' = [stage EXCEPT ![p] = "load"]
         /\ attempt' = [attempt EXCEPT ![p] = 1]
         /\ at' = at /\ failures' = failures
      \/ /\ stage' = stage /\ attempt' = attempt
         /\ at' = [at EXCEPT ![p] = at[p] + 1]
         /\ failures' = [failures EXCEPT ![p] = failures[p] + 1]
  BY DEF BeginContact, GoTo
<1>2. /\ at \in [Presses -> Nat] /\ failures \in [Presses -> Nat]
      /\ attempt \in [Presses -> Nat] /\ stage \in [Presses -> Stages]
  BY DEF Threads
<1>3. Threads'
  <2>1. stage' \in [Presses -> Stages]
    BY <1>1, <1>2 DEF Stages
  <2>2. at' \in [Presses -> Nat] /\ failures' \in [Presses -> Nat]
    BY <1>1, <1>2, Bumped
  <2>3. attempt' \in [Presses -> Nat]
    BY <1>1, <1>2
  <2> QED BY <2>1, <2>2, <2>3 DEF Threads, BeginContact
<1>4. /\ at[p] \in Nat \ {0} /\ at[p] <= Len(Contacts[p])
      /\ Len(Contacts[p]) \in Nat /\ stage[p] = "contact"
  BY ContactsLength DEF BeginContact, Walking
<1>5. Walking'
  <2>1. \A q \in Presses \ {p} : stage'[q] = stage[q] /\ at'[q] = at[q]
    BY <1>1, <1>2
  <2>2. \/ stage'[p] = "load" /\ at'[p] = at[p]
        \/ stage'[p] = "contact" /\ at'[p] = at[p] + 1
    BY <1>1, <1>2, <1>4
  <2>3. stage'[p] = "contact" => at'[p] \in Nat \ {0}
    BY <1>4, <2>2
  <2>4. stage'[p] = "load" => at'[p] \in 1..Len(Contacts[p])
    BY <1>4, <2>2
  <2> QED BY <2>1, <2>2, <2>3, <2>4 DEF Walking
<1>6. Tallied' /\ Flights' /\ FileWindow'
  BY DEF Tallied, Flights, FileWindow, BeginContact
<1>7. Fresh'
  <2>1. \A q \in Presses : stage'[q] = "idle" => stage[q] = "idle"
    BY <1>1, <1>2
  <2> QED BY <2>1 DEF Fresh, BeginContact
<1>8. TextCount'
  BY TextFewer DEF BeginContact
<1>9. VoucherOnce' /\ KeysBacked'
  BY NothingAdded DEF BeginContact
<1>10. Served'
  <2> SUFFICES ASSUME NEW q \in Presses
               PROVE  /\ failures'[q] = 0 =>
                           \A i \in 1..Len(Contacts[q]) :
                             i < at'[q] => Settled(q, Contacts[q][i])
                      /\ told[q] = "finished" =>
                           \A i \in 1..Len(Contacts[q]) :
                             Settled(q, Contacts[q][i])
    BY DEF Served, Settled, BeginContact, Has, Same
  <2>1. \/ at'[q] = at[q] /\ failures'[q] = failures[q]
        \/ failures'[q] = failures[q] + 1
    BY <1>1, <1>2
  <2>2. failures[q] + 1 # 0
    BY <1>2
  <2> QED BY <2>1, <2>2 DEF Served
<1> QED BY <1>3, <1>5, <1>6, <1>7, <1>8, <1>9, <1>10

(* A thread moves on without an answer of the service; another program may
   have said that the contact is served. *)
LEMMA MovesKeep ==
  ASSUME IntakeInv, NEW p \in Presses, stage[p] \in {"load", "send", "wait"},
         NEW success \in BOOLEAN, TryAgain(p) \/ ContactOver(p, success),
         UNCHANGED <<bucket, keys, items, posts, began, told>>,
         misled' \in SUBSET (Presses \X Everyone), misled \subseteq misled',
         success => <<p, Current(p)>> \in misled',
         flight' \subseteq flight
  PROVE  IntakeInv'
<1> USE DEF IntakeInv
<1>1. Threads' /\ (Retried(p) \/ Passed(p, FALSE) \/ (success /\ Passed(p, TRUE)))
  BY RetryMoves, PassMoves
<1>2. Walking'
  BY <1>1, WalkingMoves DEF Moves
<1>3. Tallied' /\ FileWindow'
  BY DEF Tallied, FileWindow
<1>4. Flights'
  BY FS_Subset DEF Flights
<1>5. Fresh'
  <2>1. \A q \in Presses : stage'[q] = "idle" => stage[q] = "idle"
    BY <1>1 DEF Threads, Retried, Passed
  <2> QED BY <2>1 DEF Fresh
<1>6. TextCount'
  BY TextFewer
<1>7. VoucherOnce' /\ KeysBacked'
  BY NothingAdded
<1>8. Served'
  <2>1. \A q \in Presses, c \in Everyone : Settled(q, c) => Settled(q, c)'
    BY NothingAdded DEF Settled
  <2>2. success => \A i \in 1..Len(Contacts[p]) :
                     i = at[p] => Settled(p, Contacts[p][i])'
    BY DEF Settled, Current
  <2> QED BY <1>1, <2>1, <2>2, ServedMoves
<1> QED BY <1>1, <1>2, <1>3, <1>4, <1>5, <1>6, <1>7, <1>8

(* A thread goes on with the attempt it is at. *)
LEMMA GoesOnKeeps ==
  ASSUME IntakeInv, NEW p \in Presses, stage[p] \in {"load", "send"},
         stage' = [stage EXCEPT ![p] = "send"]
           \/ stage' = [stage EXCEPT ![p] = "wait"],
         UNCHANGED <<at, attempt, failures>>, DOMAIN using' = Presses,
         UNCHANGED <<bucket, keys, items, began, told, misled>>,
         TextCount', posts' \in [Presses -> [Everyone -> Nat]],
         flight' \subseteq flight \cup {Request(p)}
  PROVE  IntakeInv'
<1> USE DEF IntakeInv
<1>1. /\ stage' \in [Presses -> Stages] /\ stage'[p] \in {"send", "wait"}
      /\ \A q \in Presses \ {p} : stage'[q] = stage[q]
  BY DEF Threads, Stages
<1>2. Threads'
  BY <1>1 DEF Threads
<1>3. Walking'
  BY <1>1 DEF Walking
<1>4. Tallied' /\ FileWindow'
  BY DEF Tallied, FileWindow
<1>5. Flights'
  <2>1. Current(p) \in Everyone
    BY CurrentTyped
  <2>2. IsFiniteSet(flight \cup {Request(p)})
    BY FS_AddElement DEF Flights
  <2>3. IsFiniteSet(flight')
    BY <2>2, FS_Subset
  <2> QED BY <2>1, <2>3 DEF Flights, Request
<1>6. Fresh'
  <2>1. \A q \in Presses : stage'[q] = "idle" => stage[q] = "idle" /\ q # p
    BY <1>1
  <2> QED BY <2>1 DEF Fresh, Request
<1>7. VoucherOnce' /\ KeysBacked'
  BY NothingAdded
<1>8. Served'
  BY DEF Served, Settled, Has, Same
<1> QED BY <1>2, <1>3, <1>4, <1>5, <1>6, <1>7, <1>8

(* A request is handled. *)
LEMMA HandleKeeps ==
  ASSUME IntakeInv, NEW f \in flight, NEW status \in Statuses,
         Handle(f, status)
  PROVE  IntakeInv'
<1> USE DEF IntakeInv
<1> DEFINE p == f.press
           c == f.contact
<1>1. p \in Presses /\ c \in Everyone
  BY DEF Flights
<1>2. /\ flight' = flight \ {f} /\ flight' \subseteq flight
      /\ UNCHANGED <<bucket, posts, began, told, misled>>
  BY DEF Handle
<1>3. CASE NotDelivered /\ UNCHANGED <<keys, items>>
  <2>1. Threads' /\ Walking'
    BY <1>3 DEF NotDelivered, Threads, Walking
  <2>2. Tallied' /\ FileWindow'
    BY <1>2, <1>3 DEF Tallied, FileWindow
  <2>3. Flights'
    BY <1>2, FS_Subset DEF Flights
  <2>4. Fresh'
    BY <1>2, <1>3 DEF Fresh, NotDelivered
  <2>5. TextCount' /\ VoucherOnce' /\ KeysBacked'
    BY <1>2, <1>3, TextFewer, NothingAdded
  <2>6. Served'
    BY <1>2, <1>3 DEF Served, Settled, Has, Same, NotDelivered
  <2> QED BY <2>1, <2>2, <2>3, <2>4, <2>5, <2>6
<1>4. CASE Answer(f, status) /\ status # "queued"
  <2>1. stage[p] = "wait" /\ (TryAgain(p) \/ ContactOver(p, FALSE))
    BY <1>4 DEF Answer
  <2>2. UNCHANGED <<keys, items>>
    BY <1>4 DEF Handle
  <2>3. misled' \in SUBSET (Presses \X Everyone) /\ misled \subseteq misled'
    BY <1>2 DEF Tallied
  <2> QED BY <1>1, <1>2, <2>1, <2>2, <2>3, MovesKeep
<1>5. CASE status = "queued"
  <2>1. Enqueue(p, c)
    BY <1>5 DEF Handle
  <2>2. \/ UNCHANGED <<stage, at, attempt, using, failures>>
        \/ stage[p] = "wait" /\ f = Request(p) /\ ContactOver(p, TRUE)
    BY <1>5 DEF Handle, NotDelivered, Answer
  <2> HIDE DEF p, c
  <2>3. Threads' /\ Walking'
    <3>1. CASE UNCHANGED <<stage, at, attempt, using, failures>>
      BY <3>1 DEF Threads, Walking
    <3>2. CASE stage[p] = "wait" /\ ContactOver(p, TRUE)
      BY <1>1, <3>2, PassMoves, WalkingMoves DEF Moves
    <3> QED BY <2>2, <3>1, <3>2
  <2>4. Tallied'
    <3>1. items' \in [Presses -> [Everyone -> Nat]]
      BY <1>1, <2>1, EnqueueCases
    <3> QED BY <1>2, <3>1 DEF Tallied
  <2>5. Flights'
    BY <1>2, FS_Subset DEF Flights
  <2>6. Fresh'
    <3>1. \A q \in Presses : stage'[q] = "idle" => stage[q] = "idle"
      <4>1. ContactOver(p, TRUE) => Passed(p, TRUE)
        BY <1>1, PassMoves
      <4> QED BY <2>2, <4>1 DEF Threads, Passed
    <3>2. stage[p] # "idle"
      BY <1>1 DEF Fresh, p
    <3>3. \A q \in Presses, d \in Everyone :
            stage[q] = "idle" => items'[q][d] = items[q][d]
      BY <1>1, <2>1, <3>2, EnqueueCases
    <3> QED BY <1>2, <3>1, <3>3 DEF Fresh
  <2>7. TextCount'
    BY <1>2, <2>1, TextHandled DEF p, c
  <2>8. VoucherOnce' /\ KeysBacked' /\ FileWindow'
    BY <1>1, <1>2, <2>1, VoucherOnceAdds, KeysBackedAdds, FileWindowAdds
  <2>9. Served'
    <3>1. \A q \in Presses, d \in Everyone : Settled(q, d) => Settled(q, d)'
      BY <1>1, <1>2, <2>1, HasGrows DEF Settled
    <3>2. CASE UNCHANGED <<stage, at, attempt, using, failures>>
      <4>1. ASSUME NEW q \in Presses, NEW i \in 1..Len(Contacts[q])
            PROVE  Settled(q, Contacts[q][i]) => Settled(q, Contacts[q][i])'
        BY <3>1, <4>1, ContactTyped
      <4> QED BY <1>2, <3>2, <4>1 DEF Served
    <3>3. CASE stage[p] = "wait" /\ f = Request(p) /\ ContactOver(p, TRUE)
      <4>1. Passed(p, TRUE)
        BY <1>1, <3>3, PassMoves
      <4>2. c = Contacts[p][at[p]]
        BY <3>3 DEF Request, Current, c
      <4>3. ASSUME NEW i \in 1..Len(Contacts[p]), i = at[p]
            PROVE  Settled(p, Contacts[p][i])'
        <5>1. Enqueue(p, Contacts[p][i])
          BY <2>1, <4>2, <4>3
        <5> QED BY <1>1, <5>1, ContactTyped, HasAdded DEF Settled
      <4> QED BY <1>1, <1>2, <3>1, <4>1, <4>3, ServedMoves
    <3> QED BY <2>2, <3>2, <3>3
  <2> QED BY <2>3, <2>4, <2>5, <2>6, <2>7, <2>8, <2>9
<1> QED BY <1>3, <1>4, <1>5 DEF Handle

-----------------------------------------------------------------------------

LEMMA IntakeStep ==
  ASSUME IntakeInv, [IntakeNext]_intakeVars
  PROVE  IntakeInv'
<1>1. CASE UNCHANGED intakeVars
  BY <1>1, ServiceKeeps DEF intakeVars
<1>2. CASE PublishPort \/ Activated \/ \E l \in BOOLEAN : ServiceStarts(l)
  BY <1>2, ServiceKeeps DEF PublishPort, Activated, ServiceStarts
<1>3. CASE ServiceEnds \/ WindowEnds
  BY <1>3, ServiceEndsKeeps, WindowEndsKeeps
<1>4. ASSUME NEW p \in Presses, Press(p) \/ BeginContact(p) \/ Finish(p)
      PROVE  IntakeInv'
  BY <1>4, PressKeeps, BeginContactKeeps, FinishKeeps
<1>5. ASSUME NEW p \in Presses, LoadHandshake(p)
      PROVE  IntakeInv'
  <2>1. /\ UNCHANGED <<bucket, keys, items, flight, posts, began, told, misled>>
        /\ misled' \in SUBSET (Presses \X Everyone)
    BY <1>5 DEF LoadHandshake, IntakeInv, Tallied
  <2>2. CASE TryAgain(p)
    BY <1>5, <2>1, <2>2, MovesKeep DEF LoadHandshake
  <2>3. CASE ~TryAgain(p)
    <3>1. /\ stage[p] = "load" /\ GoTo(p, "send")
          /\ using' = [using EXCEPT ![p] = published]
          /\ UNCHANGED <<at, attempt, failures>>
      BY <1>5, <2>3 DEF LoadHandshake
    <3>2. TextCount' /\ posts' \in [Presses -> [Everyone -> Nat]]
      BY <2>1, TextFewer DEF IntakeInv, Tallied
    <3>3. DOMAIN using' = Presses
      BY <3>1 DEF IntakeInv, Threads
    <3>4. stage' = [stage EXCEPT ![p] = "send"]
      BY <3>1 DEF GoTo
    <3> QED BY <2>1, <3>1, <3>2, <3>3, <3>4, GoesOnKeeps
  <2> QED BY <2>2, <2>3
<1>6. ASSUME NEW p \in Presses, Arrives(p)
      PROVE  IntakeInv'
  <2>1. TextCount' /\ posts' \in [Presses -> [Everyone -> Nat]]
    BY <1>6, TextArrives DEF IntakeInv
  <2>2. DOMAIN using' = Presses
    BY <1>6 DEF Arrives, IntakeInv, Threads
  <2>3. stage' = [stage EXCEPT ![p] = "wait"] /\ stage[p] = "send"
    BY <1>6 DEF Arrives, GoTo
  <2>4. /\ UNCHANGED <<at, attempt, failures>>
        /\ UNCHANGED <<bucket, keys, items, began, told, misled>>
        /\ flight' \subseteq flight \cup {Request(p)}
    BY <1>6 DEF Arrives, service
  <2> QED BY <2>1, <2>2, <2>3, <2>4, GoesOnKeeps
<1>7. ASSUME NEW p \in Presses,
             NoAnswer(p) \/ \E reply \in Replies : ReachesAnother(p, reply)
      PROVE  IntakeInv'
  <2>1. UNCHANGED <<bucket, keys, items, flight, posts, began, told>>
    BY <1>7 DEF NoAnswer, ReachesAnother
  <2>2. CASE NoAnswer(p)
    <3>1. misled' = misled /\ misled \in SUBSET (Presses \X Everyone)
      BY <2>2 DEF NoAnswer, IntakeInv, Tallied
    <3>2. stage[p] = "wait" /\ TryAgain(p)
      BY <2>2 DEF NoAnswer
    <3> QED BY <2>1, <3>1, <3>2, MovesKeep
  <2>3. ASSUME NEW reply \in Replies, ReachesAnother(p, reply)
        PROVE  IntakeInv'
    <3> DEFINE success == reply = "success"
    <3>1. stage[p] = "send" /\ (TryAgain(p) \/ ContactOver(p, success))
      BY <2>3 DEF ReachesAnother
    <3>2. /\ misled' = misled \cup IF success THEN {<<p, Current(p)>>} ELSE {}
          /\ misled \in SUBSET (Presses \X Everyone)
      BY <2>3 DEF ReachesAnother, IntakeInv, Tallied
    <3>3. Current(p) \in Everyone
      BY <3>1, CurrentTyped DEF IntakeInv
    <3>4. success \in BOOLEAN
      OBVIOUS
    <3> HIDE DEF success
    <3>5. /\ misled' \in SUBSET (Presses \X Everyone) /\ misled \subseteq misled'
          /\ success => <<p, Current(p)>> \in misled'
      BY <3>2, <3>3
    <3> QED BY <2>1, <3>1, <3>4, <3>5, MovesKeep
  <2> QED BY <1>7, <2>2, <2>3
<1>8. ASSUME NEW f \in flight, NEW status \in Statuses, Handle(f, status)
      PROVE  IntakeInv'
  BY <1>8, HandleKeeps
<1> QED BY <1>1, <1>2, <1>3, <1>4, <1>5, <1>6, <1>7, <1>8 DEF IntakeNext

LEMMA IntakeAccounted ==
  ASSUME IntakeInv PROVE PressAccounted
<1> USE DEF IntakeInv
<1> SUFFICES ASSUME NEW p \in Presses, NEW c \in Everyone
             PROVE  /\ Kind[p] = "voucher" /\ items[p][c] > 0 =>
                         /\ items[p][c] = 1
                         /\ \A q \in Same(p) \ {p} : items[q][c] = 0
                    /\ Kind[p] = "file" => items[p][c] <= 1 + bucket - began[p]
                    /\ Kind[p] = "text" => items[p][c] <= posts[p][c]
                    /\ (\E i \in DOMAIN Contacts[p] : Contacts[p][i] = c)
                         /\ told[p] = "finished"
                         => <<p, c>> \in misled \/ \E q \in Same(p) : items[q][c] > 0
  BY DEF PressAccounted
<1>1. items[p][c] \in Nat /\ posts[p][c] \in Nat
  <2>1. items \in [Presses -> [Everyone -> Nat]]
    BY DEF Tallied
  <2>2. posts \in [Presses -> [Everyone -> Nat]]
    BY DEF Tallied
  <2> QED BY <2>1, <2>2
<1>2. Kind[p] = "voucher" /\ items[p][c] > 0 =>
        items[p][c] = 1 /\ \A q \in Same(p) \ {p} : items[q][c] = 0
  <2>1. Kind[p] = "voucher" => items[p][c] <= 1
    BY DEF VoucherOnce
  <2>2. Kind[p] = "voucher" /\ items[p][c] > 0 =>
          \A q \in Same(p) \ {p} : items[q][c] = 0
    BY DEF VoucherOnce
  <2> QED BY <1>1, <2>1, <2>2
<1>3. Kind[p] = "file" => items[p][c] <= 1 + bucket - began[p]
  BY DEF FileWindow
<1>4. Kind[p] = "text" => items[p][c] <= posts[p][c]
  <2>1. IsFiniteSet(InFlight(p, c))
    BY FewerInFlight, FS_Subset DEF Flights, InFlight
  <2>2. Cardinality(InFlight(p, c)) \in Nat
    BY <2>1, FS_CardinalityType
  <2> QED BY <1>1, <2>2 DEF TextCount
<1>5. ASSUME NEW i \in DOMAIN Contacts[p], Contacts[p][i] = c,
             told[p] = "finished"
      PROVE  <<p, c>> \in misled \/ \E q \in Same(p) : items[q][c] > 0
  <2>1. i \in 1..Len(Contacts[p])
    BY IntakeAssumption
  <2> QED BY <1>5, <2>1 DEF Served, Settled, Has
<1> QED BY <1>2, <1>3, <1>4, <1>5

(* Whatever is pressed, retried, restarted or answered late: of a voucher each
   contact gets one item whichever press made it, of a file one for each
   window, of a text no more than attempts that arrived, and a press that was
   told "finished" has an item for each contact but those another program at
   the service's old port answered for. *)
THEOREM PressAccountedHolds == IntakeSpec => []PressAccounted
<1>1. IntakeInit => IntakeInv
  BY IntakeInitInv
<1>2. IntakeInv /\ [IntakeNext]_intakeVars => IntakeInv'
  BY IntakeStep
<1>3. IntakeInv => PressAccounted
  BY IntakeAccounted
<1> QED BY <1>1, <1>2, <1>3, PTL DEF IntakeSpec

-----------------------------------------------------------------------------
(* The types.  A request is for a contact that was found valid, and no port is
   known that the service has not had. *)

Underway == {"load", "send", "wait"}

ServiceTyped ==
  /\ up \in BOOLEAN /\ licensed \in BOOLEAN
  /\ actual \in 0..MaxRestarts + 1 /\ published \in 0..actual

Windows == bucket \in 0..MaxBuckets /\ began \in [Presses -> 0..bucket]

Attempts ==
  /\ attempt \in [Presses -> 0..MaxRetries]
  /\ using \in [Presses -> 0..actual]

ToValid ==
  /\ \A p \in Presses : stage[p] \in Underway => Current(p) \in Valid
  /\ \A f \in flight : f.press \in Presses /\ f.contact \in Valid

IntakeTyping == ServiceTyped /\ Windows /\ Attempts /\ ToValid

LEMMA IntakeTypingInit ==
  ASSUME IntakeInit PROVE IntakeTyping
<1> USE IntakeAssumption DEF IntakeInit
<1>1. ServiceTyped
  <2>1. up \in BOOLEAN /\ licensed \in BOOLEAN
    OBVIOUS
  <2>2. actual \in 0..MaxRestarts + 1 /\ published \in 0..actual
    OBVIOUS
  <2> QED BY <2>1, <2>2 DEF ServiceTyped
<1>2. Windows
  BY DEF Windows
<1>4. Attempts
  <2>1. 0 \in 0..MaxRetries /\ 0 \in 0..actual
    OBVIOUS
  <2> QED BY <2>1 DEF Attempts
<1>3. ToValid
  BY DEF ToValid, Underway
<1> QED BY <1>1, <1>2, <1>3, <1>4 DEF IntakeTyping

LEMMA ServiceTypedStep ==
  ASSUME ServiceTyped, [IntakeNext]_intakeVars
  PROVE  ServiceTyped' /\ actual' \in Nat /\ actual \in Nat /\ actual <= actual'
<1> USE IntakeAssumption DEF ServiceTyped
<1>1. CASE \E l \in BOOLEAN : ServiceStarts(l)
  <2>1. PICK l \in BOOLEAN : ServiceStarts(l)
    BY <1>1
  <2>2. up' = TRUE /\ licensed' = l /\ actual' = actual + 1 /\ published' = published
        /\ actual <= MaxRestarts
    BY <2>1 DEF ServiceStarts
  <2>3. up' \in BOOLEAN /\ licensed' \in BOOLEAN
    BY <2>2
  <2>4. actual' \in 0..MaxRestarts + 1 /\ published' \in 0..actual' /\ actual' \in Nat
        /\ actual \in Nat /\ actual <= actual'
    BY <2>2
  <2> QED BY <2>3, <2>4
<1>2. CASE PublishPort
  BY <1>2 DEF PublishPort
<1>3. CASE Activated
  BY <1>3 DEF Activated
<1>4. CASE ServiceEnds
  <2>1. up' \in BOOLEAN /\ licensed' \in BOOLEAN
    BY <1>4 DEF ServiceEnds
  <2>2. actual' = actual /\ published' = published
    BY <1>4 DEF ServiceEnds
  <2> QED BY <2>1, <2>2
<1>5. CASE UNCHANGED service
  BY <1>5 DEF service
<1> QED BY <1>1, <1>2, <1>3, <1>4, <1>5
        DEF IntakeNext, intakeVars, service, WindowEnds, Press, BeginContact, Finish,
            LoadHandshake, Arrives, NoAnswer, ReachesAnother, Handle

LEMMA WindowsStep ==
  ASSUME Windows, [IntakeNext]_intakeVars
  PROVE  Windows'
<1> USE IntakeAssumption DEF Windows
<1>1. CASE WindowEnds
  <2>1. bucket' = bucket + 1 /\ bucket < MaxBuckets /\ began' = began
    BY <1>1 DEF WindowEnds
  <2>2. bucket' \in 0..MaxBuckets /\ 0..bucket \subseteq 0..bucket'
    BY <2>1
  <2> QED BY <2>1, <2>2
<1>2. ASSUME NEW p \in Presses, Press(p) PROVE Windows'
  <2>1. bucket \in 0..bucket /\ 0 \in 0..bucket
    OBVIOUS
  <2> QED BY <1>2, <2>1 DEF Press
<1>3. CASE UNCHANGED <<bucket, began>>
  BY <1>3
<1> QED BY <1>1, <1>2, <1>3
        DEF IntakeNext, intakeVars, ServiceStarts, PublishPort, Activated, ServiceEnds,
            BeginContact, Finish, LoadHandshake, Arrives, NoAnswer, ReachesAnother, Handle

(* Moving on keeps them: only a thread under way moves on. *)
LEMMA MoveTyped ==
  ASSUME ServiceTyped, Threads, Attempts, ToValid, NEW p \in Presses, stage[p] \in Underway,
         NEW success, TryAgain(p) \/ ContactOver(p, success)
  PROVE  /\ attempt' \in [Presses -> 0..MaxRetries]
         /\ using' \in [Presses -> 0..actual]
         /\ \A q \in Presses : stage'[q] \in Underway => Current(q)' \in Valid
<1>1. actual \in Nat /\ MaxRetries \in Nat \ {0}
  BY IntakeAssumption DEF ServiceTyped
<1>2. stage \in [Presses -> Stages] /\ at \in [Presses -> Nat]
  BY DEF Threads
<1>3. CASE ContactOver(p, success)
  <2>1. attempt' \in [Presses -> 0..MaxRetries] /\ using' \in [Presses -> 0..actual]
    BY <1>1, <1>3 DEF ContactOver, Attempts
  <2>2. ASSUME NEW q \in Presses, stage'[q] \in Underway PROVE Current(q)' \in Valid
    <3>1. q # p /\ stage[q] \in Underway /\ at'[q] = at[q]
      BY <1>2, <1>3, <2>2 DEF ContactOver, GoTo, Underway
    <3> QED BY <3>1 DEF ToValid, Current
  <2> QED BY <2>1, <2>2
<1>4. CASE TryAgain(p) /\ attempt[p] < MaxRetries
  <2>1. attempt' \in [Presses -> 0..MaxRetries] /\ using' \in [Presses -> 0..actual]
    BY <1>1, <1>4 DEF TryAgain, Attempts
  <2>2. ASSUME NEW q \in Presses, stage'[q] \in Underway PROVE Current(q)' \in Valid
    <3>1. stage[q] \in Underway /\ at' = at
      BY <1>2, <1>4, <2>2 DEF TryAgain, GoTo, Underway
    <3> QED BY <3>1 DEF ToValid, Current
  <2> QED BY <2>1, <2>2
<1>5. CASE TryAgain(p) /\ ~(attempt[p] < MaxRetries)
  <2>0. ContactOver(p, FALSE)
    BY <1>5 DEF TryAgain
  <2>1. attempt' \in [Presses -> 0..MaxRetries] /\ using' \in [Presses -> 0..actual]
    BY <1>1, <2>0 DEF ContactOver, Attempts
  <2>2. ASSUME NEW q \in Presses, stage'[q] \in Underway PROVE Current(q)' \in Valid
    <3>1. q # p /\ stage[q] \in Underway /\ at'[q] = at[q]
      BY <1>2, <2>0, <2>2 DEF ContactOver, GoTo, Underway
    <3> QED BY <3>1 DEF ToValid, Current
  <2> QED BY <2>1, <2>2
<1> QED BY <1>3, <1>4, <1>5

(* The steps of a thread, and the requests they make. *)
LEMMA ThreadTypedStep ==
  ASSUME ServiceTyped, Threads, Attempts, ToValid, NEW p \in Presses,
         \/ Press(p) \/ BeginContact(p) \/ Finish(p)
         \/ LoadHandshake(p) \/ Arrives(p) \/ NoAnswer(p)
         \/ \E reply \in Replies : ReachesAnother(p, reply)
  PROVE  Attempts' /\ ToValid'
<1>1. actual \in Nat /\ MaxRetries \in Nat \ {0}
  BY IntakeAssumption DEF ServiceTyped
<1>2. stage \in [Presses -> Stages] /\ at \in [Presses -> Nat]
  BY DEF Threads
<1>3. CASE Press(p)
  <2>1. UNCHANGED <<attempt, using, flight, actual>>
    BY <1>3 DEF Press, service
  <2>2. ASSUME NEW q \in Presses, stage'[q] \in Underway PROVE Current(q)' \in Valid
    <3>1. q # p /\ stage[q] \in Underway /\ at'[q] = at[q]
      BY <1>2, <1>3, <2>2 DEF Press, GoTo, Underway
    <3> QED BY <3>1 DEF ToValid, Current
  <2> QED BY <2>1, <2>2 DEF Attempts, ToValid
<1>4. CASE BeginContact(p)
  <2>1. UNCHANGED <<using, flight, actual>>
    BY <1>4 DEF BeginContact, service
  <2>2. attempt' \in [Presses -> 0..MaxRetries]
    BY <1>1, <1>4 DEF BeginContact, Attempts
  <2>3. ASSUME NEW q \in Presses, stage'[q] \in Underway PROVE Current(q)' \in Valid
    <3>1. CASE Current(p) \in Valid
      <4>1. at' = at /\ (q # p => stage[q] \in Underway)
        BY <1>2, <1>4, <2>3, <3>1 DEF BeginContact, GoTo
      <4> QED BY <3>1, <4>1 DEF ToValid, Current
    <3>2. CASE Current(p) \notin Valid
      <4>1. stage[q] \in Underway /\ stage[p] = "contact"
        BY <1>4, <2>3, <3>2 DEF BeginContact
      <4>2. q # p /\ at'[q] = at[q]
        BY <1>2, <1>4, <3>2, <4>1 DEF BeginContact, Underway
      <4> QED BY <4>1, <4>2 DEF ToValid, Current
    <3> QED BY <3>1, <3>2
  <2> QED BY <2>1, <2>2, <2>3 DEF Attempts, ToValid
<1>5. CASE Finish(p)
  <2>1. UNCHANGED <<attempt, using, flight, actual, at>>
    BY <1>5 DEF Finish, service
  <2>2. ASSUME NEW q \in Presses, stage'[q] \in Underway PROVE Current(q)' \in Valid
    <3>1. stage[q] \in Underway
      BY <1>2, <1>5, <2>2 DEF Finish, GoTo, Underway
    <3> QED BY <2>1, <3>1 DEF ToValid, Current
  <2> QED BY <2>1, <2>2 DEF Attempts, ToValid
<1>6. CASE LoadHandshake(p) /\ published # 0
  <2>1. UNCHANGED <<attempt, flight, actual, at>> /\ stage[p] \in Underway
    BY <1>6 DEF LoadHandshake, service, Underway
  <2>2. using' \in [Presses -> 0..actual]
    BY <1>6 DEF LoadHandshake, Attempts, ServiceTyped
  <2>3. ASSUME NEW q \in Presses, stage'[q] \in Underway PROVE Current(q)' \in Valid
    <3>1. stage[q] \in Underway
      BY <1>2, <1>6, <2>1, <2>3 DEF LoadHandshake, GoTo, Underway
    <3> QED BY <2>1, <3>1 DEF ToValid, Current
  <2> QED BY <2>1, <2>2, <2>3 DEF Attempts, ToValid
<1>7. CASE Arrives(p)
  <2>1. UNCHANGED <<attempt, using, actual, at>> /\ stage[p] = "send"
        /\ flight' = flight \cup {Request(p)}
    BY <1>7 DEF Arrives, service
  <2>2. ASSUME NEW q \in Presses, stage'[q] \in Underway PROVE Current(q)' \in Valid
    <3>1. stage[q] \in Underway
      BY <1>2, <1>7, <2>1, <2>2 DEF Arrives, GoTo, Underway
    <3> QED BY <2>1, <3>1 DEF ToValid, Current
  <2>3. Request(p).press \in Presses /\ Request(p).contact \in Valid
    BY <2>1 DEF ToValid, Request, Underway
  <2> QED BY <2>1, <2>2, <2>3 DEF Attempts, ToValid
<1>8. CASE \/ LoadHandshake(p) /\ published = 0
           \/ NoAnswer(p)
           \/ \E reply \in Replies : ReachesAnother(p, reply)
  <2>1. flight' = flight /\ actual' = actual /\ stage[p] \in Underway
    BY <1>8 DEF LoadHandshake, NoAnswer, ReachesAnother, service, Underway
  <2>2. \E success \in BOOLEAN : TryAgain(p) \/ ContactOver(p, success)
    BY <1>8 DEF LoadHandshake, NoAnswer, ReachesAnother
  <2> QED BY <2>1, <2>2, MoveTyped DEF Attempts, ToValid
<1> QED BY <1>3, <1>4, <1>5, <1>6, <1>7, <1>8

LEMMA IntakeTypingStep ==
  ASSUME Threads, IntakeTyping, [IntakeNext]_intakeVars
  PROVE  IntakeTyping'
<1> USE DEF IntakeTyping
<1>1. ServiceTyped' /\ Windows' /\ actual' \in Nat /\ actual \in Nat /\ actual <= actual'
  BY ServiceTypedStep, WindowsStep
<1>2. Attempts' /\ ToValid'
  <2>1. CASE /\ UNCHANGED <<stage, at, attempt, using>>
             /\ flight' \subseteq flight
    <3>1. 0..actual \subseteq 0..actual'
      BY <1>1
    <3> QED BY <2>1, <3>1 DEF Attempts, ToValid, Current
  <2>2. ASSUME NEW p \in Presses,
               \/ Press(p) \/ BeginContact(p) \/ Finish(p)
               \/ LoadHandshake(p) \/ Arrives(p) \/ NoAnswer(p)
               \/ \E reply \in Replies : ReachesAnother(p, reply)
        PROVE  Attempts' /\ ToValid'
    BY <2>2, ThreadTypedStep
  <2>3. ASSUME NEW f \in flight, NEW status \in Statuses, Handle(f, status)
        PROVE  Attempts' /\ ToValid'
    <3>1. flight' \subseteq flight /\ actual' = actual /\ f.press \in Presses
      BY <2>3 DEF Handle, service, ToValid
    <3>2. CASE NotDelivered
      BY <2>1, <3>1, <3>2 DEF NotDelivered
    <3>3. CASE Answer(f, status)
      <4>1. stage[f.press] \in Underway
        BY <3>3 DEF Answer, Underway
      <4>2. TryAgain(f.press) \/ ContactOver(f.press, status = "queued")
        BY <3>3 DEF Answer
      <4> QED BY <3>1, <4>1, <4>2, MoveTyped DEF Attempts, ToValid
    <3> QED BY <2>3, <3>2, <3>3 DEF Handle
  <2> QED BY <2>1, <2>2, <2>3
          DEF IntakeNext, intakeVars, ServiceStarts, PublishPort, Activated, ServiceEnds,
              WindowEnds
<1> QED BY <1>1, <1>2

LEMMA IntakeTypingMeans ==
  ASSUME IntakeInv, IntakeTyping PROVE IntakeTypeOK
<1>1. \A f \in flight : f.press \in Presses /\ f.contact \in Valid
  BY DEF IntakeTyping, ToValid
<1> QED BY <1>1
    DEF IntakeInv, Threads, Tallied, Stages, IntakeTyping, ServiceTyped, Windows,
        Attempts, IntakeTypeOK

=============================================================================
