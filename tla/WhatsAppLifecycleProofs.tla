----------------------- MODULE WhatsAppLifecycleProofs -----------------------
(***************************************************************************)
(* One QR consumer at a time, which can always be made to end, codes that  *)
(* only advance, and a shown state that is true once all is delivered: for *)
(* any number of control requests and clients, and whatever the library    *)
(* does.                                                                   *)
(*                                                                         *)
(* The first argument is about the mutex: a consumer is started by its     *)
(* holder only, who has waited for all others to end.  The second is about *)
(* the current client: the last of its events still to be delivered says   *)
(* what became of its link, and the clients it has replaced are silent.    *)
(***************************************************************************)
EXTENDS WhatsAppLifecycle, SequenceTheorems, TLAPS

(* Start is called once, and while it has not begun nothing else has. *)
StartIsFirst ==
  \A u \in Threads : pc[u] = "start" =>
    /\ u = App
    /\ \A t \in Callers : pc[t] = "idle"
    /\ \A g \in Clients : ~Alive(g)

(* After the wait no consumer is at work, until Arm starts one. *)
NoneAfterWait ==
  \A t \in Threads : pc[t] \in {"renew", "arm"} => \A g \in Clients : ~Alive(g)

(* A consumer has a channel, and the code shown is of no client to come. *)
ConsumersHaveChannels == \A g \in Clients : Alive(g) => channel[g] # "none"

ShownIsMade == qr <= device

IInv ==
  /\ TypeOK
  /\ StartIsFirst
  /\ NoneAfterWait
  /\ ConsumersHaveChannels
  /\ ShownIsMade
  /\ OneConsumer
  /\ ConsumerCanBeEnded

(* What a step must respect that starts no consumer and leaves the mutex, the
   current client and the channels' cancelling alone. *)
Quiet ==
  /\ UNCHANGED <<device, cancelFn, taken, mu, pc>>
  /\ \A g \in Clients : Alive(g)' => Alive(g)
  /\ \A g \in Clients : channel'[g] = channel[g] \/ channel'[g] = "closed"

(* The types, in three parts, few of which a step disturbs. *)
ControlType ==
  /\ device    \in Clients
  /\ mu        \in Threads \cup {Free}
  /\ cancelFn  \in Clients \cup {None}
  /\ taken     \in Clients \cup {None}
  /\ taken # None => pc[App] = "stop_cancel"
  /\ pc        \in [Threads -> Locked \cup {"idle", "start", "lock", "logout",
                     "store_logged_out", "empty_qr", "stop", "stop_cancel",
                     "stop_hang_up", "stop_wait", "stop_store", "stopped"}]
  /\ \A t \in Threads : pc[t] \in Locked <=> mu = t

ShownType ==
  /\ state     \in States
  /\ qr        \in Clients \cup {NoQR}
  /\ handler   \in [Clients -> {"idle", "clear", "blip"}]
  /\ consumer  \in [Clients -> {"none", "receive", "store", "done"}]
  /\ flaws     \subseteq {"old client", "gave up", "late code"}

Event == {"Connected", "Disconnected", "LoggedOut", "PairSuccess"}
Item  == {"code", "success", "timeout", "error"}

LibraryType ==
  /\ row       \in BOOLEAN
  /\ paired    \in [Clients -> BOOLEAN]
  /\ link      \in [Clients -> {"off", "up", "offer", "in", "lost"}]
  /\ events    \in [Clients -> Seq(Event)]
  /\ channel   \in [Clients -> {"none", "open", "cancelled", "closed"}]
  /\ items     \in [Clients -> Seq(Item)]
  /\ drops     \in 0..MaxDrops

LEMMA TypeParts == TypeOK <=> ControlType /\ ShownType /\ LibraryType
  BY DEF TypeOK, ControlType, ShownType, LibraryType, Event, Item

LEMMA TypePartsNext == TypeOK' <=> ControlType' /\ ShownType' /\ LibraryType'
  BY DEF TypeOK, ControlType, ShownType, LibraryType, Event, Item

LEMMA InvInit == Init => IInv
<1> SUFFICES ASSUME Init PROVE IInv
  OBVIOUS
<1> USE ThreadsAssumption, BoundsAssumption DEF Init, Threads
<1>1. TypeOK
  <2>1. 1 \in Clients
    BY DEF Clients
  <2>2. (/\ state \in States /\ qr \in Clients \cup {NoQR}
         /\ device \in Clients /\ mu \in Threads \cup {Free}
         /\ cancelFn \in Clients \cup {None} /\ taken = None
         /\ drops \in 0..MaxDrops)
    BY <2>1 DEF States, NoQR, None
  <2>3. (\A t \in Threads : pc[t] \in Locked <=> mu = t)
    BY DEF Locked
  <2>4. (/\ events \in [Clients -> Seq({"Connected", "Disconnected", "LoggedOut",
                                      "PairSuccess"})]
         /\ items \in [Clients -> Seq({"code", "success", "timeout", "error"})])
    OBVIOUS
  <2>5. row \in BOOLEAN
    OBVIOUS
  <2> QED
    BY <2>1, <2>2, <2>3, <2>4, <2>5 DEF TypeOK
<1>2. \A g \in Clients : ~Alive(g)
  BY DEF Alive
<1>3. StartIsFirst /\ NoneAfterWait
  BY <1>2 DEF StartIsFirst, NoneAfterWait
<1>4. ConsumersHaveChannels /\ ShownIsMade
  BY <1>2 DEF ConsumersHaveChannels, ShownIsMade, NoQR
<1> QED
  BY <1>1, <1>2, <1>3, <1>4 DEF IInv, OneConsumer, ConsumerCanBeEnded

LEMMA BootPreserves ==
  ASSUME IInv, Boot
  PROVE  IInv'
<1> USE ThreadsAssumption, BoundsAssumption DEF Boot, Threads
<1>1. TypeOK'
  <2>1. 1 \in Clients
    BY DEF Clients
  <2>2. (/\ state \in States /\ qr \in Clients \cup {NoQR}
         /\ device \in Clients /\ mu \in Threads \cup {Free}
         /\ cancelFn \in Clients \cup {None} /\ taken = None
         /\ drops \in 0..MaxDrops)'
    BY <2>1 DEF States, NoQR, None
  <2>3. (\A t \in Threads : pc[t] \in Locked <=> mu = t)'
    BY DEF Locked
  <2>4. (/\ events \in [Clients -> Seq({"Connected", "Disconnected", "LoggedOut",
                                      "PairSuccess"})]
         /\ items \in [Clients -> Seq({"code", "success", "timeout", "error"})])'
    OBVIOUS
  <2>5. row' \in BOOLEAN
    BY DEF IInv, TypeOK
  <2> QED
    BY <2>1, <2>2, <2>3, <2>4, <2>5 DEF TypeOK
<1>2. \A g \in Clients : ~Alive(g)'
  BY DEF Alive
<1>3. StartIsFirst' /\ NoneAfterWait'
  BY <1>2 DEF StartIsFirst, NoneAfterWait
<1>4. ConsumersHaveChannels' /\ ShownIsMade'
  BY <1>2 DEF ConsumersHaveChannels, ShownIsMade, NoQR
<1> QED
  BY <1>1, <1>2, <1>3, <1>4 DEF IInv, OneConsumer, ConsumerCanBeEnded

(* The event handlers, the consumers and the library are quiet. *)
LEMMA QuietPreserves ==
  ASSUME IInv, TypeOK', Quiet, ShownIsMade'
  PROVE  IInv'
<1> USE DEF IInv, Quiet
<1>1. StartIsFirst' /\ NoneAfterWait'
  BY DEF StartIsFirst, NoneAfterWait
<1>2. ConsumersHaveChannels' /\ OneConsumer'
  BY DEF ConsumersHaveChannels, OneConsumer
<1>3. ConsumerCanBeEnded'
  BY DEF ConsumerCanBeEnded
<1> QED
  BY <1>1, <1>2, <1>3

LEMMA CallbackPreserves ==
  ASSUME IInv, NEW g \in Clients, Callback(g)
  PROVE  IInv'
<1> USE TypeParts DEF IInv, control, library
<1>1. CASE Deliver(g)
  <2>1. Quiet /\ ShownIsMade'
    BY <1>1 DEF Deliver, Quiet, Alive, ShownIsMade
  <2>2. \A e \in {"Connected", "LoggedOut", "PairSuccess"} : ShownFor(e) \in States
    BY DEF ShownFor, States
  <2>3. Head(events[g]) \in Event /\ Tail(events[g]) \in Seq(Event)
    <3>1. events[g] \in Seq(Event) /\ events[g] # << >>
      BY <1>1 DEF Deliver, LibraryType
    <3> QED
      BY <3>1
  <2>4. state' \in States /\ flaws' \subseteq flaws
        /\ handler' \in [Clients -> {"idle", "clear", "blip"}]
    <3>1. CASE Head(events[g]) = "Disconnected"
      BY <1>1, <3>1 DEF Deliver, ShownType
    <3>2. CASE Head(events[g]) # "Disconnected"
      <4>1. state' = ShownFor(Head(events[g])) /\ flaws' \subseteq flaws
            /\ handler' = [handler EXCEPT ![g] = "clear"]
        BY <1>1, <3>2 DEF Deliver
      <4>2. state' \in States
        BY <2>2, <2>3, <3>2, <4>1 DEF Event
      <4> QED
        BY <4>1, <4>2 DEF ShownType
    <3> QED
      BY <3>1, <3>2
  <2>5. ShownType'
    BY <1>1, <2>4 DEF Deliver, ShownType
  <2>6. ControlType' /\ LibraryType'
    BY <1>1, <2>3 DEF Deliver, ControlType, LibraryType
  <2> QED
    BY <2>1, <2>5, <2>6, TypePartsNext, QuietPreserves
<1>2. CASE ClearQR(g)
  <2>1. Quiet /\ ShownIsMade'
    BY <1>2 DEF ClearQR, Quiet, Alive, ShownIsMade, NoQR, ControlType, Clients
  <2>2. ControlType' /\ ShownType' /\ LibraryType'
    BY <1>2 DEF ClearQR, ControlType, ShownType, LibraryType
  <2> QED
    BY <2>1, <2>2, TypePartsNext, QuietPreserves
<1>3. CASE Blip(g)
  <2>1. Quiet /\ ShownIsMade'
    BY <1>3 DEF Blip, Quiet, Alive, ShownIsMade
  <2>2. ControlType' /\ ShownType' /\ LibraryType'
    BY <1>3 DEF Blip, ControlType, ShownType, LibraryType, States
  <2> QED
    BY <2>1, <2>2, TypePartsNext, QuietPreserves
<1> QED
  BY <1>1, <1>2, <1>3 DEF Callback

(* The code a consumer shows is one of the current client. *)
LEMMA ConsumePreserves ==
  ASSUME IInv, NEW g \in Clients, Consume(g)
  PROVE  IInv'
<1> USE TypeParts DEF IInv, control, library
<1>1. CASE Receive(g)
  <2>1. g = device
    BY <1>1 DEF Receive, OneConsumer, Alive
  <2>2. Quiet
    BY <1>1 DEF Receive, Quiet, Alive, ShownType
  <2>3. Tail(items[g]) \in Seq(Item)
    BY <1>1 DEF Receive, LibraryType
  <2>4. qr' \in {g, qr, NoQR}
    BY <1>1, Zenon DEF Receive
  <2>5. ShownIsMade'
    BY <1>1, <2>1, <2>4 DEF Receive, ShownIsMade, ControlType, Clients, NoQR
  <2>6. ControlType' /\ LibraryType'
    BY <1>1, <2>3 DEF Receive, ControlType, LibraryType
  <2>7. consumer' \in [Clients -> {"none", "receive", "store", "done"}]
    BY <1>1 DEF Receive, ShownType
  <2>8. ShownType'
    BY <1>1, <2>4, <2>7 DEF Receive, ShownType
  <2> QED
    BY <2>2, <2>5, <2>6, <2>8, TypePartsNext, QuietPreserves
<1>2. CASE StoreAwaiting(g)
  <2>1. Quiet /\ ShownIsMade'
    BY <1>2 DEF StoreAwaiting, Quiet, Alive, ShownIsMade, ShownType
  <2>2. ControlType' /\ ShownType' /\ LibraryType'
    BY <1>2 DEF StoreAwaiting, ControlType, ShownType, LibraryType, States
  <2> QED
    BY <2>1, <2>2, TypePartsNext, QuietPreserves
<1>3. CASE EndConsumer(g)
  <2>1. Quiet /\ ShownIsMade'
    BY <1>3 DEF EndConsumer, Quiet, Alive, ShownIsMade, ShownType
  <2>2. ControlType' /\ ShownType' /\ LibraryType'
    BY <1>3 DEF EndConsumer, ControlType, ShownType, LibraryType
  <2> QED
    BY <2>1, <2>2, TypePartsNext, QuietPreserves
<1> QED
  BY <1>1, <1>2, <1>3 DEF Consume

(* The library only closes channels, and appends to queues. *)
LEMMA EnvironmentPreserves ==
  ASSUME IInv, NEW g \in Clients, Environment(g)
  PROVE  IInv'
<1> USE TypeParts DEF IInv
<1>1. /\ UNCHANGED <<device, mu, cancelFn, taken, pc, state, qr, handler, consumer, flaws>>
      /\ \A f \in Clients : channel'[f] = channel[f] \/ channel'[f] = "closed"
  BY DEF Environment, OfferCode, EndOffer, NoticeCancel, Scan, LogIn, Unlink, Drop,
         Own, control, Close, LibraryType
<1>2. Quiet /\ ShownIsMade' /\ ControlType' /\ ShownType'
  BY <1>1 DEF Quiet, Alive, ShownIsMade, ControlType, ShownType
<1>3. \A e \in Event : Append(events[g], e) \in Seq(Event)
  BY DEF LibraryType
<1>4. \A i \in Item : Append(items[g], i) \in Seq(Item)
  BY DEF LibraryType
<1>5. ASSUME NEW i \in Item, Close(g, i)
      PROVE  /\ channel' \in [Clients -> {"none", "open", "cancelled", "closed"}]
             /\ items' \in [Clients -> Seq(Item)]
  BY <1>4, <1>5 DEF Close, LibraryType
<1>6. ASSUME NEW e \in Event, Raise(g, e)
      PROVE  events' \in [Clients -> Seq(Event)]
  BY <1>3, <1>6 DEF Raise, LibraryType
<1>7. LibraryType'
  <2>1. CASE OfferCode(g)
    BY <1>4, <2>1 DEF OfferCode, Own, LibraryType, Item
  <2>2. CASE EndOffer(g)
    <3>1. /\ channel' \in [Clients -> {"none", "open", "cancelled", "closed"}]
          /\ items' \in [Clients -> Seq(Item)]
      BY <1>5, <2>2 DEF EndOffer, Item
    <3> QED
      BY <2>2, <3>1 DEF EndOffer, Own, LibraryType
  <2>3. CASE NoticeCancel(g)
    BY <2>3 DEF NoticeCancel, Own, LibraryType
  <2>4. CASE Scan(g)
    <3>1. /\ channel' \in [Clients -> {"none", "open", "cancelled", "closed"}]
          /\ items' \in [Clients -> Seq(Item)]
      BY <1>5, <2>4 DEF Scan, Item
    <3>2. events' \in [Clients -> Seq(Event)]
      BY <1>6, <2>4 DEF Scan, Event
    <3> QED
      BY <2>4, <3>1, <3>2 DEF Scan, LibraryType
  <2>5. CASE LogIn(g)
    <3>1. events' \in [Clients -> Seq(Event)]
      BY <1>6, <2>5 DEF LogIn, Event
    <3> QED
      BY <2>5, <3>1 DEF LogIn, Own, LibraryType
  <2>6. CASE Unlink(g)
    <3>1. events' \in [Clients -> Seq(Event)]
      BY <1>6, <2>6 DEF Unlink, Event
    <3> QED
      BY <2>6, <3>1 DEF Unlink, LibraryType
  <2>7. CASE Drop(g)
    <3>1. events' \in [Clients -> Seq(Event)]
      BY <1>6, <2>7 DEF Drop, Event
    <3>2. drops' \in 0..MaxDrops
      BY <2>7, BoundsAssumption DEF Drop, LibraryType
    <3> QED
      BY <2>7, <3>1, <3>2 DEF Drop, Own, LibraryType
  <2> QED
    BY <2>1, <2>2, <2>3, <2>4, <2>5, <2>6, <2>7 DEF Environment
<1> QED
  BY <1>2, <1>7, TypePartsNext, QuietPreserves

-----------------------------------------------------------------------------
(* Control requests. *)

Label == Locked \cup {"idle", "start", "lock", "logout", "store_logged_out", "empty_qr",
                      "stop", "stop_cancel", "stop_hang_up", "stop_wait", "stop_store",
                      "stopped"}

(* A request that moves on takes the mutex, keeps it, gives it back or does
   without. *)
LEMMA MovesKeepMutex ==
  ASSUME ControlType, NEW t \in Threads, NEW l \in Label, Goto(t, l),
         \/ mu' = mu /\ (pc[t] \in Locked <=> l \in Locked)
         \/ mu = Free /\ mu' = t /\ l \in Locked
         \/ mu = t /\ mu' = Free /\ l \notin Locked
  PROVE  /\ mu' \in Threads \cup {Free}
         /\ pc' \in [Threads -> Label]
         /\ \A u \in Threads : pc'[u] \in Locked <=> mu' = u
<1> USE DEF ControlType, Goto
<1>1. mu' \in Threads \cup {Free} /\ pc' \in [Threads -> Label]
  BY DEF Label
<1>2. pc'[t] = l /\ \A u \in Threads \ {t} : pc'[u] = pc[u]
  OBVIOUS
<1>3. Free \notin Threads
  BY ThreadsAssumption DEF Threads
<1>4. \A u \in Threads : pc'[u] \in Locked <=> mu' = u
  <2>1. CASE mu' = mu /\ (pc[t] \in Locked <=> l \in Locked)
    BY <1>2, <2>1
  <2>2. CASE mu = Free /\ mu' = t /\ l \in Locked
    BY <1>2, <1>3, <2>2
  <2>3. CASE mu = t /\ mu' = Free /\ l \notin Locked
    BY <1>2, <1>3, <2>3
  <2> QED
    BY <2>1, <2>2, <2>3
<1> QED
  BY <1>1, <1>4

(* Of these, all but Stop in its window leave what Stop has taken alone. *)
LEMMA MovesKeepControl ==
  ASSUME ControlType, NEW t \in Threads, NEW l \in Label, Goto(t, l),
         pc[t] # "stop_cancel", UNCHANGED taken,
         device' \in Clients, cancelFn' \in Clients \cup {None},
         \/ mu' = mu /\ (pc[t] \in Locked <=> l \in Locked)
         \/ mu = Free /\ mu' = t /\ l \in Locked
         \/ mu = t /\ mu' = Free /\ l \notin Locked
  PROVE  ControlType'
<1>1. taken' # None => pc'[App] = "stop_cancel"
  BY DEF ControlType, Goto
<1> QED
  BY <1>1, MovesKeepMutex DEF ControlType, Label

(* A request that moves on and starts no consumer. *)
LEMMA MovesKeepOrder ==
  ASSUME IInv, NEW t \in Threads, NEW l \in Label \ {"start"}, Goto(t, l),
         pc[t] # "idle",
         \A g \in Clients : Alive(g)' => Alive(g),
         l \in {"renew", "arm"} => \A g \in Clients : ~Alive(g)
  PROVE  StartIsFirst' /\ NoneAfterWait'
<1> USE TypeParts DEF IInv, Goto, ControlType
<1>1. pc'[t] = l /\ \A u \in Threads \ {t} : pc'[u] = pc[u]
  OBVIOUS
<1>2. StartIsFirst'
  <2> SUFFICES ASSUME NEW u \in Threads, pc'[u] = "start"
               PROVE  /\ u = App
                      /\ \A c \in Callers : pc'[c] = "idle"
                      /\ \A g \in Clients : ~Alive(g)'
    BY DEF StartIsFirst
  <2>1. u # t /\ pc[u] = "start"
    BY <1>1
  <2>2. u = App /\ t \in Callers /\ pc[t] = "idle"
    BY <2>1 DEF StartIsFirst, Threads
  <2> QED
    BY <2>2
<1>3. NoneAfterWait'
  BY <1>1 DEF NoneAfterWait
<1> QED
  BY <1>2, <1>3

(* A request that leaves the consumers, the channels, the client and the
   cancel function alone. *)
LEMMA MovesKeepChannels ==
  ASSUME IInv, UNCHANGED <<device, cancelFn, taken, consumer, channel, qr>>
  PROVE  ConsumersHaveChannels' /\ ShownIsMade' /\ OneConsumer' /\ ConsumerCanBeEnded'
BY DEF IInv, ConsumersHaveChannels, ShownIsMade, OneConsumer, ConsumerCanBeEnded, Alive

LEMMA RequestPreserves ==
  ASSUME IInv, NEW t \in Threads, Request(t)
  PROVE  IInv'
<1> USE TypeParts DEF IInv, Request, library
<1>1. PICK l \in {"logout", "lock"} : Goto(t, l)
  OBVIOUS
<1>2. l \in Label /\ l \notin Locked /\ pc[t] \notin Locked /\ UNCHANGED mu
  BY DEF Label, Locked
<1>3. ControlType'
  BY <1>1, <1>2, MovesKeepControl DEF ControlType
<1>4. ShownType' /\ LibraryType'
  BY DEF ShownType, LibraryType
<1>5. pc'[t] = l /\ \A u \in Threads \ {t} : pc'[u] = pc[u]
  BY <1>1 DEF Goto, ControlType
<1>6. StartIsFirst' /\ NoneAfterWait'
  <2>1. App \in Threads /\ t # App
    BY ThreadsAssumption DEF Threads
  <2>2. \A u \in Threads : pc'[u] # "start"
    BY <1>1, <1>5, <2>1 DEF StartIsFirst
  <2>3. \A g \in Clients : Alive(g)' <=> Alive(g)
    BY DEF Alive
  <2> QED
    BY <1>5, <2>2, <2>3 DEF StartIsFirst, NoneAfterWait
<1> QED
  BY <1>3, <1>4, <1>6, TypePartsNext, MovesKeepChannels

LEMMA BeginStopPreserves ==
  ASSUME IInv, NEW t \in Threads, BeginStop(t)
  PROVE  IInv'
<1> USE TypeParts DEF IInv, BeginStop, library
<1>1. "stop" \in Label /\ "stop" \notin Locked /\ pc[t] \notin Locked /\ UNCHANGED mu
  BY DEF Label, Locked
<1>2. ControlType'
  BY <1>1, MovesKeepControl DEF ControlType
<1>3. ShownType' /\ LibraryType'
  BY DEF ShownType, LibraryType
<1>4. pc'[t] = "stop" /\ \A u \in Threads \ {t} : pc'[u] = pc[u]
  BY DEF Goto, ControlType
<1>5. \A g \in Clients : Alive(g)' <=> Alive(g)
  BY DEF Alive
<1>6. StartIsFirst' /\ NoneAfterWait'
  BY <1>4, <1>5 DEF StartIsFirst, NoneAfterWait
<1> QED
  BY <1>2, <1>3, <1>6, TypePartsNext, MovesKeepChannels

(* The steps of a request before and after the change of client. *)
LEMMA LogoutPreserves ==
  ASSUME IInv, NEW t \in Threads,
         Logout(t) \/ StoreLoggedOut(t) \/ EmptyQR(t) \/ StoreStopped(t)
  PROVE  IInv'
<1> USE TypeParts DEF IInv, library, Logout, StoreLoggedOut, EmptyQR, StoreStopped
<1>1. PICK l \in {"idle", "store_logged_out", "empty_qr", "lock", "stopped"} : Goto(t, l)
  OBVIOUS
<1>2. l \in Label \ {"start", "renew", "arm"} /\ l \notin Locked /\ pc[t] \notin Locked
      /\ pc[t] # "idle" /\ UNCHANGED <<mu, device, cancelFn, taken, consumer, channel>>
  BY DEF Label, Locked
<1>3. ControlType'
  BY <1>1, <1>2, MovesKeepControl DEF ControlType
<1>4. qr' \in {qr, NoQR} /\ qr' <= device
  BY DEF ControlType, NoQR, Clients, ShownIsMade
<1>5. ShownType' /\ LibraryType'
  BY <1>4 DEF ShownType, LibraryType, States, ControlType
<1>6. StartIsFirst' /\ NoneAfterWait'
  BY <1>1, <1>2, MovesKeepOrder DEF Alive
<1>7. ConsumersHaveChannels' /\ ShownIsMade' /\ OneConsumer' /\ ConsumerCanBeEnded'
  BY <1>2, <1>4 DEF ConsumersHaveChannels, ShownIsMade, OneConsumer, ConsumerCanBeEnded, Alive
<1> QED
  BY <1>3, <1>5, <1>6, <1>7, TypePartsNext

LEMMA LockPreserves ==
  ASSUME IInv, NEW t \in Threads, Lock(t)
  PROVE  IInv'
<1> USE TypeParts DEF IInv, Lock, library
<1>1. PICK l \in {"arm", "cancel"} : Goto(t, l) /\ (l = "arm" => pc[t] = "start")
  OBVIOUS
<1>2. l \in Label \ {"start", "renew"} /\ l \in Locked /\ pc[t] # "idle"
  BY DEF Label, Locked
<1>3. ControlType'
  BY <1>1, <1>2, MovesKeepControl DEF ControlType
<1>4. ShownType' /\ LibraryType'
  BY DEF ShownType, LibraryType
<1>5. l = "arm" => \A g \in Clients : ~Alive(g)
  BY <1>1, ThreadsAssumption DEF StartIsFirst, ControlType, Threads
<1>6. StartIsFirst' /\ NoneAfterWait'
  BY <1>1, <1>2, <1>5, MovesKeepOrder DEF Alive
<1> QED
  BY <1>3, <1>4, <1>6, TypePartsNext, MovesKeepChannels

(* Calling a cancel function leaves its consumer a channel that ends. *)
LEMMA CancelledEnds ==
  ASSUME IInv, NEW f, channel' = Cancelled(f), UNCHANGED <<device, consumer, qr>>,
         \/ f = device
         \/ f = cancelFn /\ UNCHANGED taken
         \/ f = taken /\ UNCHANGED cancelFn
  PROVE  /\ ConsumersHaveChannels' /\ ShownIsMade' /\ OneConsumer' /\ ConsumerCanBeEnded'
         /\ channel' \in [Clients -> {"none", "open", "cancelled", "closed"}]
<1> USE DEF IInv
<1>1. \A g \in Clients : Alive(g)' <=> Alive(g)
  BY DEF Alive
<1>2. /\ channel' \in [Clients -> {"none", "open", "cancelled", "closed"}]
      /\ \A g \in Clients : channel[g] \in {"none", "open", "cancelled", "closed"}
  BY TypeParts DEF Cancelled, LibraryType
<1>3. \A g \in Clients : channel'[g] = channel[g] \/ channel'[g] = "cancelled"
  BY DEF Cancelled
<1>4. ConsumersHaveChannels' /\ ShownIsMade' /\ OneConsumer'
  BY <1>1, <1>3 DEF ConsumersHaveChannels, ShownIsMade, OneConsumer
<1>5. ASSUME NEW g \in Clients, Alive(g)
      PROVE  channel'[g] \in {"closed", "cancelled"} \/ g \in {cancelFn', taken'}
  <2>1. g = f \/ channel[g] \in {"closed", "cancelled"} \/ g \in {cancelFn', taken'}
    BY <1>5 DEF OneConsumer, ConsumerCanBeEnded
  <2>2. channel[g] # "none"
    BY <1>5 DEF ConsumersHaveChannels
  <2> QED
    BY <1>2, <2>1, <2>2 DEF Cancelled
<1> QED
  BY <1>1, <1>2, <1>4, <1>5 DEF ConsumerCanBeEnded

LEMMA CancelPreserves ==
  ASSUME IInv, NEW t \in Threads, Cancel(t)
  PROVE  IInv'
<1> USE TypeParts DEF IInv, Cancel
<1>1. "hang_up" \in Label \ {"start", "renew", "arm"}
      /\ (pc[t] \in Locked <=> "hang_up" \in Locked) /\ pc[t] # "idle"
  BY DEF Label, Locked
<1>2. ControlType'
  BY <1>1, MovesKeepControl DEF ControlType
<1>3. /\ ConsumersHaveChannels' /\ ShownIsMade' /\ OneConsumer' /\ ConsumerCanBeEnded'
      /\ channel' \in [Clients -> {"none", "open", "cancelled", "closed"}]
  BY CancelledEnds
<1>4. ShownType' /\ LibraryType'
  BY <1>3 DEF ShownType, LibraryType
<1>5. StartIsFirst' /\ NoneAfterWait'
  BY <1>1, MovesKeepOrder DEF Alive
<1> QED
  BY <1>2, <1>3, <1>4, <1>5, TypePartsNext

(* What Stop takes it has until it calls it: nothing is lost between. *)
LEMMA TakeCancelPreserves ==
  ASSUME IInv, NEW t \in Threads, TakeCancel(t)
  PROVE  IInv'
<1> USE TypeParts DEF IInv, TakeCancel, library
<1>1. "stop_cancel" \in Label \ {"start", "renew", "arm"}
      /\ (pc[t] \in Locked <=> "stop_cancel" \in Locked) /\ pc[t] # "idle"
  BY DEF Label, Locked
<1>2. taken = None /\ pc'[App] = "stop_cancel"
  BY DEF ControlType, Goto
<1>3. ControlType'
  BY <1>1, <1>2, MovesKeepMutex DEF ControlType, Label
<1>4. ShownType' /\ LibraryType'
  BY DEF ShownType, LibraryType
<1>5. StartIsFirst' /\ NoneAfterWait'
  BY <1>1, MovesKeepOrder DEF Alive
<1>6. ConsumersHaveChannels' /\ ShownIsMade' /\ OneConsumer'
  BY DEF ConsumersHaveChannels, ShownIsMade, OneConsumer, Alive
<1>7. ConsumerCanBeEnded'
  BY <1>2 DEF ConsumerCanBeEnded, Alive, None, Clients
<1> QED
  BY <1>3, <1>4, <1>5, <1>6, <1>7, TypePartsNext

LEMMA CallCancelPreserves ==
  ASSUME IInv, NEW t \in Threads, CallCancel(t)
  PROVE  IInv'
<1> USE TypeParts DEF IInv, CallCancel
<1>1. "stop_hang_up" \in Label \ {"start", "renew", "arm"}
      /\ (pc[t] \in Locked <=> "stop_hang_up" \in Locked) /\ pc[t] # "idle"
  BY DEF Label, Locked
<1>2. ControlType'
  BY <1>1, MovesKeepMutex DEF ControlType, Label
<1>3. /\ ConsumersHaveChannels' /\ ShownIsMade' /\ OneConsumer' /\ ConsumerCanBeEnded'
      /\ channel' \in [Clients -> {"none", "open", "cancelled", "closed"}]
  BY CancelledEnds
<1>4. ShownType' /\ LibraryType'
  BY <1>3 DEF ShownType, LibraryType
<1>5. StartIsFirst' /\ NoneAfterWait'
  BY <1>1, MovesKeepOrder DEF Alive
<1> QED
  BY <1>2, <1>3, <1>4, <1>5, TypePartsNext

LEMMA HangUpPreserves ==
  ASSUME IInv, NEW t \in Threads, HangUp(t)
  PROVE  IInv'
<1> USE TypeParts DEF IInv, HangUp
<1>1. PICK l \in {"wait", "stop_wait"} :
        Goto(t, l) /\ pc[t] = (IF l = "wait" THEN "hang_up" ELSE "stop_hang_up")
  OBVIOUS
<1>2. l \in Label \ {"start", "renew", "arm"} /\ (pc[t] \in Locked <=> l \in Locked)
      /\ pc[t] # "idle"
  BY <1>1 DEF Label, Locked
<1>3. ControlType'
  BY <1>1, <1>2, MovesKeepControl DEF ControlType
<1>4. ShownType' /\ LibraryType'
  BY DEF ShownType, LibraryType
<1>5. StartIsFirst' /\ NoneAfterWait'
  BY <1>1, <1>2, MovesKeepOrder DEF Alive
<1> QED
  BY <1>3, <1>4, <1>5, TypePartsNext, MovesKeepChannels

LEMMA WaitPreserves ==
  ASSUME IInv, NEW t \in Threads, Wait(t)
  PROVE  IInv'
<1> USE TypeParts DEF IInv, Wait, library
<1>1. PICK l \in {"renew", "stop_store"} :
        Goto(t, l) /\ pc[t] = (IF l = "renew" THEN "wait" ELSE "stop_wait")
  OBVIOUS
<1>2. l \in Label \ {"start"} /\ (pc[t] \in Locked <=> l \in Locked) /\ pc[t] # "idle"
  BY <1>1 DEF Label, Locked
<1>3. ControlType'
  BY <1>1, <1>2, MovesKeepControl DEF ControlType
<1>4. ShownType' /\ LibraryType'
  BY DEF ShownType, LibraryType
<1>5. StartIsFirst' /\ NoneAfterWait'
  BY <1>1, <1>2, MovesKeepOrder DEF Alive, Waited
<1> QED
  BY <1>3, <1>4, <1>5, TypePartsNext, MovesKeepChannels

LEMMA ClientsAreNumbers ==
  ASSUME IInv
  PROVE  device \in Nat /\ qr \in Nat /\ qr <= device
<1>1. device \in Clients /\ qr \in Clients \cup {NoQR} /\ qr <= device
  BY TypeParts DEF IInv, ControlType, ShownType, ShownIsMade
<1> QED
  BY <1>1 DEF Clients, NoQR

LEMMA RenewPreserves ==
  ASSUME IInv, NEW t \in Threads, Renew(t)
  PROVE  IInv'
<1> USE TypeParts DEF IInv, Renew
<1>1. "arm" \in Label \ {"start"} /\ (pc[t] \in Locked <=> "arm" \in Locked)
      /\ pc[t] # "idle"
  BY DEF Label, Locked
<1>2. \A g \in Clients : ~Alive(g) /\ ~Alive(g)'
  BY DEF NoneAfterWait, Alive
<1>3. device' = device + 1 /\ device < MaxClients /\ UNCHANGED qr
  OBVIOUS
<1> HIDE DEF Renew
<1>4. device' \in Clients /\ qr' <= device'
  BY <1>3, ClientsAreNumbers, BoundsAssumption DEF Clients
<1>5. ControlType'
  BY <1>1, <1>4, MovesKeepControl DEF Renew, ControlType
<1>6. ShownType'
  BY DEF Renew, ShownType
<1>7. LibraryType'
  BY <1>4 DEF Renew, LibraryType
<1>8. StartIsFirst' /\ NoneAfterWait'
  BY <1>1, <1>2, MovesKeepOrder DEF Renew
<1> QED
  BY <1>2, <1>4, <1>5, <1>6, <1>7, <1>8, TypePartsNext
     DEF ShownIsMade, ConsumersHaveChannels, OneConsumer, ConsumerCanBeEnded

LEMMA GiveUpPreserves ==
  ASSUME IInv, NEW t \in Threads, GiveUp(t)
  PROVE  IInv'
<1> USE TypeParts DEF IInv, GiveUp, Return, library
<1>1. "idle" \in Label \ {"start", "renew", "arm"} /\ "idle" \notin Locked
      /\ pc[t] \in Locked /\ pc[t] # "idle"
  BY DEF Label, Locked
<1>2. mu = t
  BY <1>1 DEF ControlType
<1>3. ControlType'
  BY <1>1, <1>2, MovesKeepControl DEF ControlType
<1>4. ShownType' /\ LibraryType'
  BY DEF ShownType, LibraryType
<1>5. StartIsFirst' /\ NoneAfterWait'
  BY <1>1, MovesKeepOrder DEF Alive
<1> QED
  BY <1>3, <1>4, <1>5, TypePartsNext, MovesKeepChannels

(* The one step that starts a consumer: no other is at work, and no other
   request holds the mutex. *)
LEMMA ArmPreserves ==
  ASSUME IInv, NEW t \in Threads, Arm(t)
  PROVE  IInv'
<1> USE TypeParts DEF IInv, Arm
<1>1. "dial" \in Label /\ (pc[t] \in Locked <=> "dial" \in Locked) /\ pc[t] # "idle"
  BY DEF Label, Locked
<1>2. \A g \in Clients : ~Alive(g)
  BY DEF NoneAfterWait
<1>3. ControlType'
  BY <1>1, MovesKeepControl DEF ControlType
<1>4. device \in Clients
  BY DEF ControlType
<1>5. ShownType'
  BY <1>4 DEF ShownType, States, Mended
<1>6. LibraryType'
  BY <1>4 DEF LibraryType
<1>7. \A g \in Clients : Alive(g)' => g = device /\ channel'[g] = "open"
  BY <1>2, <1>4 DEF Alive, ShownType, LibraryType
<1>8. pc'[t] = "dial" /\ \A u \in Threads \ {t} : pc'[u] = pc[u] /\ pc[u] \notin Locked
  BY <1>1 DEF Goto, ControlType
<1>9. NoneAfterWait'
  BY <1>8 DEF NoneAfterWait, Locked
<1>10. StartIsFirst'
  <2> SUFFICES ASSUME NEW u \in Threads, pc'[u] = "start"
               PROVE  FALSE
    BY DEF StartIsFirst
  <2>1. u # t /\ pc[u] = "start"
    BY <1>8
  <2>2. t \in Callers /\ pc[t] = "idle"
    BY <2>1 DEF StartIsFirst, Threads
  <2> QED
    BY <2>2
<1> QED
  BY <1>3, <1>5, <1>6, <1>7, <1>9, <1>10, TypePartsNext
     DEF ConsumersHaveChannels, OneConsumer, ConsumerCanBeEnded, ShownIsMade

LEMMA DialPreserves ==
  ASSUME IInv, NEW t \in Threads, Dial(t) \/ DialFails(t)
  PROVE  IInv'
<1> USE TypeParts DEF IInv, Dial, DialFails, Return
<1>1. "idle" \in Label \ {"start", "renew", "arm"} /\ "idle" \notin Locked
      /\ pc[t] \in Locked /\ pc[t] # "idle"
  BY DEF Label, Locked
<1>2. mu = t
  BY <1>1 DEF ControlType
<1>3. ControlType'
  BY <1>1, <1>2, MovesKeepControl DEF ControlType
<1>4. StartIsFirst' /\ NoneAfterWait'
  BY <1>1, MovesKeepOrder DEF Alive
<1>5. ShownType'
  BY DEF ShownType, States
<1>6. CASE Dial(t)
  <2>1. LibraryType'
    BY <1>6 DEF LibraryType
  <2> QED
    BY <1>3, <1>4, <1>5, <1>6, <2>1, TypePartsNext, MovesKeepChannels
<1>7. CASE DialFails(t)
  <2>1. /\ ConsumersHaveChannels' /\ ShownIsMade' /\ OneConsumer' /\ ConsumerCanBeEnded'
        /\ channel' \in [Clients -> {"none", "open", "cancelled", "closed"}]
    BY <1>7, CancelledEnds DEF Abandoned
  <2>2. LibraryType'
    BY <1>7, <2>1 DEF LibraryType
  <2> QED
    BY <1>3, <1>4, <1>5, <2>1, <2>2, TypePartsNext
<1> QED
  BY <1>6, <1>7

LEMMA StutterPreserves ==
  ASSUME IInv, UNCHANGED vars
  PROVE  IInv'
<1> USE TypeParts DEF IInv, vars, control, library
<1>1. ControlType' /\ ShownType' /\ LibraryType'
  BY DEF ControlType, ShownType, LibraryType
<1>2. Quiet /\ ShownIsMade'
  BY DEF Quiet, Alive, ShownIsMade
<1> QED
  BY <1>1, <1>2, TypePartsNext, QuietPreserves

LEMMA NextPreserves == IInv /\ [Next]_vars => IInv'
<1> SUFFICES ASSUME IInv, [Next]_vars
             PROVE  IInv'
  OBVIOUS
<1>1. CASE Boot
  BY <1>1, BootPreserves
<1>2. ASSUME NEW t \in Threads, Request(t) \/ BeginStop(t) \/ Control(t)
      PROVE  IInv'
  BY <1>2, RequestPreserves, BeginStopPreserves, LogoutPreserves, LockPreserves,
     CancelPreserves, TakeCancelPreserves, CallCancelPreserves, HangUpPreserves,
     WaitPreserves, RenewPreserves, GiveUpPreserves,
     ArmPreserves, DialPreserves DEF Control
<1>3. ASSUME NEW g \in Clients, Callback(g) \/ Consume(g) \/ Environment(g)
      PROVE  IInv'
  BY <1>3, CallbackPreserves, ConsumePreserves, EnvironmentPreserves
<1>4. CASE UNCHANGED vars
  BY <1>4, StutterPreserves
<1> QED
  BY <1>1, <1>2, <1>3, <1>4 DEF Next

LEMMA Invariance == Spec => []IInv
  BY InvInit, NextPreserves, PTL DEF Spec

(* Types, and that the mutex is held by the one request between its Lock and
   its return. *)
THEOREM TypeCorrect == Spec => []TypeOK
<1>1. IInv => TypeOK
  BY DEF IInv
<1> QED
  BY <1>1, Invariance, PTL

(* Two QR consumers are never at work together, and none for a client that has
   been replaced: the wait group of Reconnect. *)
THEOREM ConsumersAreAlone == Spec => []OneConsumer
<1>1. IInv => OneConsumer
  BY DEF IInv
<1> QED
  BY <1>1, Invariance, PTL

(* The error paths of Start and Reconnect, and Stop, never lose the function
   that ends a consumer before they have called it. *)
THEOREM ConsumersCanBeEnded == Spec => []ConsumerCanBeEnded
<1>1. IInv => ConsumerCanBeEnded
  BY DEF IInv
<1> QED
  BY <1>1, Invariance, PTL

(* A code shown belongs to the current client, so the next one cannot belong
   to an older one. *)
THEOREM ShownCodesAdvance == Spec => CodesAdvance
<1>1. ASSUME IInv, [Next]_vars
      PROVE  [qr' # NoQR => qr' >= qr]_vars
  <2> SUFFICES ASSUME Next, qr' # NoQR
               PROVE  qr' >= qr
    BY <1>1 DEF vars
  <2> USE <1>1, TypeParts DEF IInv
  <2>1. qr \in Nat /\ qr <= device /\ device \in Nat
    BY ClientsAreNumbers
  <2>2. CASE UNCHANGED qr
    BY <2>1, <2>2
  <2>3. ASSUME NEW g \in Clients, Receive(g), qr' = g
        PROVE  qr' >= qr
    BY <2>1, <2>3 DEF Receive, OneConsumer, Alive
  <2>4. UNCHANGED qr \/ \E g \in Clients : Receive(g) /\ qr' = g
    <3>1. ASSUME NEW t \in Threads, Request(t) \/ BeginStop(t) \/ Control(t)
          PROVE  UNCHANGED qr
      BY <3>1 DEF Request, BeginStop, Control, Logout, StoreLoggedOut, EmptyQR, Lock,
           Cancel, TakeCancel, CallCancel, HangUp, Wait, Renew, GiveUp, Arm, Dial,
           DialFails, StoreStopped
    <3>2. ASSUME NEW g \in Clients, Callback(g) \/ Environment(g)
          PROVE  UNCHANGED qr
      BY <3>2 DEF Callback, Deliver, ClearQR, Blip, Environment, OfferCode, EndOffer,
           NoticeCancel, Scan, LogIn, Unlink, Drop, Own
    <3>3. ASSUME NEW g \in Clients, Consume(g)
          PROVE  UNCHANGED qr \/ (Receive(g) /\ qr' = g)
      <4>1. CASE Receive(g)
        <5>1. qr' \in {g, qr, NoQR}
          BY <4>1, Zenon DEF Receive
        <5> QED
          BY <4>1, <5>1
      <4>2. CASE StoreAwaiting(g) \/ EndConsumer(g)
        BY <4>2 DEF StoreAwaiting, EndConsumer
      <4> QED
        BY <3>3, <4>1, <4>2 DEF Consume
    <3>4. ~Boot
      BY DEF Boot
    <3> QED
      BY <3>1, <3>2, <3>3, <3>4 DEF Next
  <2> QED
    BY <2>2, <2>3, <2>4
<1> QED
  BY <1>1, Invariance, PTL DEF Spec, CodesAdvance

-----------------------------------------------------------------------------
(* What is shown is true: the sequences of events. *)

Latest(q) == q[Len(q)]

(* A connection is lost only after a login. *)
Ordered(q) ==
  \A i \in 2..Len(q) : q[i] = "Disconnected" => q[i - 1] = "Connected"

LEMMA AppendedEvent ==
  ASSUME NEW q \in Seq(Event), NEW e \in Event
  PROVE  /\ Append(q, e) # << >>
         /\ Latest(Append(q, e)) = e
         /\ Head(Append(q, e)) = IF q = << >> THEN e ELSE Head(q)
         /\ /\ Ordered(q)
            /\ e = "Disconnected" => q = << >> \/ Latest(q) = "Connected"
            => Ordered(Append(q, e))
<1>1. Len(q) \in Nat /\ Len(Append(q, e)) = Len(q) + 1
  OBVIOUS
<1>2. \A i \in 1..Len(q) : Append(q, e)[i] = q[i]
  OBVIOUS
<1>3. Append(q, e)[Len(q) + 1] = e
  OBVIOUS
<1>4. Append(q, e) # << >> /\ (q = << >> <=> Len(q) = 0)
  BY <1>1, EmptySeq, AppendProperties
<1>5. Latest(Append(q, e)) = e
  BY <1>1, <1>3 DEF Latest
<1>6. Head(Append(q, e)) = IF q = << >> THEN e ELSE Head(q)
  <2>1. Head(Append(q, e)) = Append(q, e)[1]
    OBVIOUS
  <2>2. q # << >> => Head(q) = q[1] /\ 1 \in 1..Len(q)
    OBVIOUS
  <2> QED
    BY <1>1, <1>2, <1>3, <1>4, <2>1, <2>2
<1>7. ASSUME Ordered(q), e = "Disconnected" => q = << >> \/ Latest(q) = "Connected"
      PROVE  Ordered(Append(q, e))
  <2> SUFFICES ASSUME NEW i \in 2..Len(q) + 1, Append(q, e)[i] = "Disconnected"
               PROVE  Append(q, e)[i - 1] = "Connected"
    BY <1>1 DEF Ordered
  <2>1. i - 1 \in 1..Len(q) /\ Append(q, e)[i - 1] = q[i - 1]
    BY <1>1, <1>2
  <2>2. CASE i = Len(q) + 1
    BY <1>1, <1>3, <1>4, <1>7, <2>1, <2>2 DEF Latest
  <2>3. CASE i \in 2..Len(q)
    BY <1>1, <1>2, <1>7, <2>1, <2>3 DEF Ordered
  <2> QED
    BY <1>1, <2>2, <2>3
<1> QED
  BY <1>4, <1>5, <1>6, <1>7

LEMMA DeliveredEvent ==
  ASSUME NEW q \in Seq(Event), q # << >>
  PROVE  /\ Head(q) \in Event
         /\ Tail(q) = << >> => Latest(q) = Head(q)
         /\ Tail(q) # << >> => Latest(Tail(q)) = Latest(q)
         /\ Ordered(q) => Ordered(Tail(q))
         /\ Ordered(q) /\ Tail(q) # << >> /\ Head(Tail(q)) = "Disconnected"
              => Head(q) = "Connected"
<1>1. Len(q) \in Nat \ {0} /\ Len(Tail(q)) = Len(q) - 1 /\ Head(q) = q[1]
      /\ Head(q) \in Event
  OBVIOUS
<1>2. \A i \in 1..Len(q) - 1 : Tail(q)[i] = q[i + 1]
  OBVIOUS
<1>3. Tail(q) = << >> <=> Len(q) = 1
  <2>1. Tail(q) \in Seq(Event)
    OBVIOUS
  <2>2. Tail(q) # << >> => Len(Tail(q)) # 0
    BY <2>1, EmptySeq
  <2>3. Tail(q) = << >> => Len(Tail(q)) = 0
    BY EmptySeq
  <2> QED
    BY <1>1, <2>2, <2>3
<1>4. Tail(q) = << >> => Latest(q) = Head(q)
  BY <1>1, <1>3 DEF Latest
<1>5. Tail(q) # << >> => Latest(Tail(q)) = Latest(q)
  BY <1>1, <1>2, <1>3 DEF Latest
<1>6. Ordered(q) => Ordered(Tail(q))
  <2> SUFFICES ASSUME Ordered(q), NEW i \in 2..Len(q) - 1, Tail(q)[i] = "Disconnected"
               PROVE  Tail(q)[i - 1] = "Connected"
    BY <1>1 DEF Ordered
  <2>1. Tail(q)[i] = q[i + 1] /\ Tail(q)[i - 1] = q[i]
    BY <1>1, <1>2
  <2>2. i + 1 \in 2..Len(q) /\ (i + 1) - 1 = i
    BY <1>1
  <2> QED
    BY <2>1, <2>2 DEF Ordered
<1>7. Ordered(q) /\ Tail(q) # << >> /\ Head(Tail(q)) = "Disconnected"
        => Head(q) = "Connected"
  <2> SUFFICES ASSUME Ordered(q), Tail(q) # << >>, Head(Tail(q)) = "Disconnected"
               PROVE  q[1] = "Connected"
    BY <1>1
  <2>1. 2 \in 2..Len(q) /\ 2 - 1 = 1
    BY <1>1, <1>3
  <2>2. Head(Tail(q)) = q[2]
    <3>1. Tail(q) \in Seq(Event) /\ Tail(q) # << >>
      OBVIOUS
    <3>2. Head(Tail(q)) = Tail(q)[1]
      BY <3>1
    <3> QED
      BY <1>1, <1>2, <1>3, <3>2
  <2> QED
    BY <2>1, <2>2 DEF Ordered
<1> QED
  BY <1>1, <1>4, <1>5, <1>6, <1>7

-----------------------------------------------------------------------------
(* The invariant. *)

(* Nothing is left of client g, or nothing has begun. *)
Fresh(g) ==
  Silent(g) /\ items[g] = << >> /\ channel[g] = "none" /\ consumer[g] = "none"

NewAreFresh == \A g \in Clients : g > device => Fresh(g)

FreshAtArm == \A t \in Threads : pc[t] \in {"start", "arm"} => Fresh(device)

OldAreSilent == "old client" \notin flaws => \A g \in Clients \ {device} : Silent(g)

(* No request is between its first store and the arming of a client. *)
Steady == \A t \in Threads : pc[t] \in {"idle", "logout", "dial"}

Untroubled == flaws \subseteq {"late code"}

Dialing == \E t \in Threads : pc[t] = "dial"

(* A client that has been armed and has yet to dial. *)
AtDial ==
  /\ Silent(device) /\ items[device] = << >> /\ consumer[device] # "store"
  /\ paired[device] => channel[device] = "none"
  /\ state = IF paired[device] THEN "connecting" ELSE "awaiting_qr"

(* A client without a device: a code is on its way, or the dial failed. *)
Unscanned ==
  /\ events[device] = << >> /\ handler[device] = "idle"
  /\ link[device] \in {"off", "up", "offer"}
  /\ \/ state = "awaiting_qr"
     \/ /\ state = "disconnected" /\ link[device] = "off"
        /\ items[device] = << >> /\ consumer[device] # "store"

(* The last event of a client whose link is l, and the states shown for it. *)
Raised(l) ==
  CASE l = "in"   -> {"Connected"}
    [] l = "lost" -> {"PairSuccess", "Disconnected"}
    [] l = "off"  -> {"LoggedOut"}
    [] OTHER      -> {}

ShownAt(l) ==
  CASE l = "in"            -> {"connected"}
    [] l \in {"up", "lost"} -> {"connecting"}
    [] OTHER               -> {"logged_out", "disconnected"}

(* With the events q still to be delivered, the last of them is what became of
   the link l; with none, the state s shows it, or the handler h is about to.  *)
Told(q, h, l, s, f) ==
  /\ q # << >> => Latest(q) \in Raised(l)
  /\ q = << >> /\ h = "blip" => l = "lost"
  /\ q = << >> /\ h # "blip" /\ f = {} => s \in ShownAt(l)
  /\ q # << >> /\ Head(q) = "Disconnected" /\ f = {} => s \in {"connected", "connecting"}
  /\ Ordered(q)

(* A client with a device, whose channel offers nothing any more. *)
Scanned ==
  /\ link[device] # "offer"
  /\ link[device] = "up" => channel[device] # "open"
  /\ Told(events[device], handler[device], link[device], state, flaws)

Expected ==
  IF Dialing THEN AtDial ELSE IF paired[device] THEN Scanned ELSE Unscanned

Agreed == Steady /\ Untroubled => Expected

ShownInv == NewAreFresh /\ FreshAtArm /\ OldAreSilent /\ Agreed

-----------------------------------------------------------------------------
(* A step of one client leaves the others alone. *)

ClientMoves(g) == Callback(g) \/ Consume(g) \/ Environment(g)

Same(h) ==
  /\ link'[h] = link[h] /\ events'[h] = events[h] /\ handler'[h] = handler[h]
  /\ items'[h] = items[h] /\ channel'[h] = channel[h]
  /\ consumer'[h] = consumer[h] /\ paired'[h] = paired[h]

LEMMA OnlyItsOwn ==
  ASSUME TypeOK, NEW g \in Clients, ClientMoves(g)
  PROVE  /\ UNCHANGED <<device, pc>>
         /\ \A h \in Clients \ {g} : Same(h)
         /\ flaws \ {"late code"} \subseteq flaws'
<1> USE TypeParts DEF library, control, Own
<1>0. /\ link \in [Clients -> {"off", "up", "offer", "in", "lost"}]
      /\ events \in [Clients -> Seq(Event)] /\ items \in [Clients -> Seq(Item)]
      /\ channel \in [Clients -> {"none", "open", "cancelled", "closed"}]
      /\ paired \in [Clients -> BOOLEAN]
      /\ handler \in [Clients -> {"idle", "clear", "blip"}]
      /\ consumer \in [Clients -> {"none", "receive", "store", "done"}]
  BY DEF LibraryType, ShownType
<1>1. CASE Callback(g)
  BY <1>0, <1>1 DEF Callback, Deliver, ClearQR, Blip, Same
<1>2. CASE Consume(g)
  BY <1>0, <1>2 DEF Consume, Receive, StoreAwaiting, EndConsumer, Same
<1>3. CASE Environment(g)
  <2>1. UNCHANGED <<device, pc, flaws, handler, consumer>>
    BY <1>3 DEF Environment, OfferCode, EndOffer, NoticeCancel, Scan, LogIn, Unlink, Drop
  <2>2. CASE OfferCode(g) \/ NoticeCancel(g)
    BY <1>0, <2>1, <2>2 DEF OfferCode, NoticeCancel, Same
  <2>3. CASE EndOffer(g)
    BY <1>0, <2>1, <2>3 DEF EndOffer, Close, Same
  <2>4. CASE Scan(g)
    BY <1>0, <2>1, <2>4 DEF Scan, Close, Raise, Same
  <2>5. CASE LogIn(g) \/ Unlink(g) \/ Drop(g)
    BY <1>0, <2>1, <2>5 DEF LogIn, Unlink, Drop, Raise, Same
  <2> QED
    BY <1>3, <2>1, <2>2, <2>3, <2>4, <2>5 DEF Environment
<1> QED
  BY <1>1, <1>2, <1>3 DEF ClientMoves

LEMMA FreshRests ==
  ASSUME NEW g \in Clients, Fresh(g)
  PROVE  ~ClientMoves(g)
<1> USE DEF Fresh, Silent
<1>1. ~Callback(g)
  BY DEF Callback, Deliver, ClearQR, Blip
<1>2. ~Consume(g)
  BY DEF Consume, Receive, StoreAwaiting, EndConsumer
<1>3. ~Environment(g)
  BY DEF Environment, OfferCode, EndOffer, NoticeCancel, Scan, LogIn, Unlink, Drop
<1> QED
  BY <1>1, <1>2, <1>3 DEF ClientMoves

LEMMA SilentMoves ==
  ASSUME NEW g \in Clients, Silent(g), ~Alive(g), ClientMoves(g)
  PROVE  NoticeCancel(g)
<1> USE DEF Silent
<1>1. ~Callback(g)
  BY DEF Callback, Deliver, ClearQR, Blip
<1>2. ~Consume(g)
  BY DEF Consume, Receive, StoreAwaiting, EndConsumer, Alive
<1>3. Environment(g) => NoticeCancel(g)
  BY DEF Environment, OfferCode, EndOffer, Scan, LogIn, Unlink, Drop
<1> QED
  BY <1>1, <1>2, <1>3 DEF ClientMoves

LEMMA ClientKeepsOrder ==
  ASSUME IInv, ShownInv, NEW g \in Clients, ClientMoves(g)
  PROVE  NewAreFresh' /\ FreshAtArm' /\ OldAreSilent'
<1> USE DEF IInv, ShownInv
<1>1. /\ UNCHANGED <<device, pc>>
      /\ \A h \in Clients \ {g} : Same(h)
      /\ flaws \ {"late code"} \subseteq flaws'
  BY OnlyItsOwn
<1>2. \A h \in Clients : Fresh(h) => Fresh(h)'
  BY <1>1, FreshRests DEF Same, Fresh, Silent
<1>3. device \in Clients
  BY DEF TypeOK
<1>4. NewAreFresh' /\ FreshAtArm'
  BY <1>1, <1>2, <1>3 DEF NewAreFresh, FreshAtArm
<1>5. ASSUME "old client" \notin flaws', NEW h \in Clients \ {device'}
      PROVE  Silent(h)'
  <2>1. h # device /\ Silent(h) /\ ~Alive(h)
    BY <1>1, <1>5 DEF OldAreSilent, OneConsumer
  <2>2. CASE h # g
    BY <1>1, <2>1, <2>2 DEF Same, Silent
  <2>3. CASE h = g
    BY <2>1, <2>3, SilentMoves DEF NoticeCancel, Own, Silent
  <2> QED
    BY <2>2, <2>3
<1>6. OldAreSilent'
  BY <1>5 DEF OldAreSilent
<1> QED
  BY <1>4, <1>6

(* What Expected looks at beside the requests. *)
Seen ==
  /\ UNCHANGED <<device, state, flaws>>
  /\ link'[device'] = link[device] /\ events'[device'] = events[device]
  /\ handler'[device'] = handler[device] /\ items'[device'] = items[device]
  /\ channel'[device'] = channel[device]
  /\ consumer'[device'] = consumer[device] /\ paired'[device'] = paired[device]

LEMMA SeenAlike ==
  ASSUME Seen, Dialing' <=> Dialing, Expected
  PROVE  Expected'
<1>1. CASE Dialing
  BY <1>1 DEF Expected, Seen, AtDial, Silent
<1>2. CASE ~Dialing /\ paired[device]
  <2>1. Scanned'
    BY <1>2 DEF Expected, Scanned, Seen
  <2> QED
    BY <1>2, <2>1 DEF Expected, Seen
<1>3. CASE ~Dialing /\ ~paired[device]
  BY <1>3 DEF Expected, Seen, Unscanned
<1> QED
  BY <1>1, <1>2, <1>3

LEMMA AgreedApart ==
  ASSUME IInv, ShownInv, NEW g \in Clients \ {device}, ClientMoves(g)
  PROVE  Agreed'
<1> USE DEF IInv, ShownInv
<1>1. /\ UNCHANGED <<device, pc>>
      /\ \A h \in Clients \ {g} : Same(h)
      /\ flaws \ {"late code"} \subseteq flaws'
  BY OnlyItsOwn
<1> SUFFICES ASSUME Steady', Untroubled'
             PROVE  Expected'
  BY DEF Agreed
<1>2. Steady /\ Untroubled
  BY <1>1 DEF Steady, Untroubled
<1>3. NoticeCancel(g)
  BY <1>2, SilentMoves DEF Untroubled, OldAreSilent, OneConsumer
<1>4. device \in Clients \ {g}
  BY DEF TypeOK
<1>5. Seen
  BY <1>1, <1>3, <1>4 DEF Seen, Same, NoticeCancel, Own
<1>6. Dialing' <=> Dialing
  BY <1>1 DEF Dialing
<1> QED
  BY <1>2, <1>5, <1>6, SeenAlike DEF Agreed

(* What the current client does before it has dialled. *)
LEMMA AtDialStays ==
  ASSUME IInv, AtDial, ClientMoves(device)
  PROVE  AtDial'
<1> USE DEF IInv, AtDial
<1>1. device \in Clients
  BY DEF TypeOK
<1>2. UNCHANGED device
  BY <1>1, OnlyItsOwn
<1>3. NoticeCancel(device) \/ EndConsumer(device)
  <2>1. ~Callback(device)
    BY DEF Callback, Deliver, ClearQR, Blip, Silent
  <2>2. ~Receive(device) /\ ~StoreAwaiting(device)
    BY DEF Receive, StoreAwaiting
  <2>3. Environment(device) => NoticeCancel(device)
    BY DEF Environment, OfferCode, EndOffer, Scan, LogIn, Unlink, Drop, Silent
  <2> QED
    BY <2>1, <2>2, <2>3 DEF ClientMoves, Consume
<1>4. CASE NoticeCancel(device)
  BY <1>1, <1>2, <1>4 DEF NoticeCancel, Own, Silent
<1>5. CASE EndConsumer(device)
  <2>1. consumer \in [Clients -> {"none", "receive", "store", "done"}]
    BY TypeParts DEF ShownType
  <2> QED
    BY <1>1, <1>2, <1>5, <2>1 DEF EndConsumer, Silent, library
<1> QED
  BY <1>3, <1>4, <1>5

(* The current client without a device: either it stays so, or a code is
   scanned, which leaves one event to deliver. *)
LEMMA UnscannedMoves ==
  ASSUME TypeOK, ~paired[device], Unscanned, ClientMoves(device)
  PROVE  IF paired'[device'] THEN Scanned' ELSE Unscanned'
<1> DEFINE d == device
<1>0. /\ d \in Clients
      /\ link \in [Clients -> {"off", "up", "offer", "in", "lost"}]
      /\ events \in [Clients -> Seq(Event)] /\ items \in [Clients -> Seq(Item)]
      /\ channel \in [Clients -> {"none", "open", "cancelled", "closed"}]
      /\ paired \in [Clients -> BOOLEAN]
      /\ handler \in [Clients -> {"idle", "clear", "blip"}]
      /\ consumer \in [Clients -> {"none", "receive", "store", "done"}]
  BY TypeParts DEF ControlType, LibraryType, ShownType
<1>1. events[d] = << >> /\ handler[d] = "idle" /\ link[d] \notin {"in", "lost"}
  BY DEF Unscanned
<1>2. ~Callback(d) /\ ~LogIn(d) /\ ~Unlink(d) /\ ~Drop(d)
  BY <1>1 DEF Callback, Deliver, ClearQR, Blip, LogIn, Unlink, Drop
<1>3. CASE Receive(d)
  <2>1. /\ UNCHANGED <<device, paired, link, events, handler, state>>
        /\ items[d] # << >>
    BY <1>3 DEF Receive, control
  <2> QED
    BY <1>0, <2>1 DEF Unscanned
<1>4. CASE StoreAwaiting(d)
  BY <1>0, <1>4 DEF StoreAwaiting, Unscanned, library
<1>5. CASE EndConsumer(d)
  BY <1>0, <1>5 DEF EndConsumer, Unscanned, library
<1>6. CASE NoticeCancel(d)
  BY <1>0, <1>6 DEF NoticeCancel, Unscanned, Own
<1>7. CASE OfferCode(d)
  <2>1. /\ UNCHANGED <<device, state, paired, events, handler>>
        /\ link'[d] = "offer" /\ link[d] # "off"
    BY <1>0, <1>7 DEF OfferCode, Own
  <2> QED
    BY <1>0, <2>1 DEF Unscanned
<1>8. CASE EndOffer(d)
  <2>1. /\ UNCHANGED <<device, state, paired, events, handler>>
        /\ link'[d] = "off" /\ link[d] # "off"
    BY <1>0, <1>8 DEF EndOffer, Own
  <2> QED
    BY <1>0, <2>1 DEF Unscanned
<1>9. CASE Scan(d)
  <2>1. /\ UNCHANGED <<device, handler>>
        /\ paired'[d] /\ link'[d] = "lost" /\ events'[d] = Append(events[d], "PairSuccess")
    BY <1>0, <1>9 DEF Scan, Raise
  <2>2. events[d] \in Seq(Event) /\ "PairSuccess" \in Event
    BY <1>0 DEF Event
  <2>3. Ordered(events[d])
    BY <1>1 DEF Ordered
  <2>4. /\ events'[d] # << >> /\ Latest(events'[d]) = "PairSuccess"
        /\ Head(events'[d]) = "PairSuccess" /\ Ordered(events'[d])
    BY <1>1, <2>1, <2>2, <2>3, AppendedEvent
  <2>5. Told(events'[d], handler'[d], link'[d], state', flaws')
    BY <2>1, <2>4 DEF Told, Raised
  <2> QED
    BY <2>1, <2>5 DEF Scanned
<1> QED
  BY <1>2, <1>3, <1>4, <1>5, <1>6, <1>7, <1>8, <1>9 DEF ClientMoves, Consume, Environment

(* An event of the current client is raised, whatever it was told before. *)
LEMMA RaisedIsTold ==
  ASSUME NEW q \in Seq(Event), NEW e \in Event, NEW h, NEW l, NEW m, NEW s, NEW f,
         Told(q, h, l, s, f), e \in Raised(m),
         e = "Disconnected" => l \in {"up", "in"}
  PROVE  Told(Append(q, e), h, m, s, f)
<1>1. e = "Disconnected" /\ q # << >> => Latest(q) = "Connected"
  BY DEF Told, Raised
<1>2. /\ Append(q, e) # << >> /\ Latest(Append(q, e)) = e
      /\ Head(Append(q, e)) = IF q = << >> THEN e ELSE Head(q)
      /\ Ordered(Append(q, e))
  BY <1>1, AppendedEvent DEF Told
<1>3. ASSUME Head(Append(q, e)) = "Disconnected", f = {}
      PROVE  s \in {"connected", "connecting"}
  <2>1. CASE q = << >>
    BY <1>2, <1>3, <2>1 DEF Told, ShownAt
  <2>2. CASE q # << >>
    BY <1>2, <1>3, <2>2 DEF Told
  <2> QED
    BY <2>1, <2>2
<1> QED
  BY <1>2, <1>3 DEF Told

LEMMA DeliveredIsTold ==
  ASSUME IInv, paired[device], Scanned, Deliver(device)
  PROVE  Told(Tail(events[device]), handler'[device], link[device], state', flaws')
<1> DEFINE q == events[device]
           e == Head(q)
<1>0. /\ device \in Clients /\ q \in Seq(Event) /\ q # << >>
      /\ handler \in [Clients -> {"idle", "clear", "blip"}]
      /\ Told(q, handler[device], link[device], state, flaws)
  BY TypeParts DEF IInv, ControlType, LibraryType, ShownType, Deliver, Scanned
<1>1. /\ e \in Event
      /\ Tail(q) = << >> => Latest(q) = e
      /\ Tail(q) # << >> => Latest(Tail(q)) = Latest(q)
      /\ Ordered(Tail(q))
      /\ Tail(q) # << >> /\ Head(Tail(q)) = "Disconnected" => e = "Connected"
  BY <1>0, DeliveredEvent DEF Told
<1>2. Tail(q) # << >> => Latest(Tail(q)) \in Raised(link[device])
  BY <1>0, <1>1 DEF Told
<1>3. Tail(q) = << >> => e \in Raised(link[device])
  BY <1>0, <1>1 DEF Told
<1>4. CASE e = "Disconnected"
  <2>1. /\ UNCHANGED <<state, flaws>>
        /\ handler'[device] = IF state = "connected" THEN "blip" ELSE "idle"
    BY <1>0, <1>4 DEF Deliver
  <2>2. Tail(q) = << >> => link[device] = "lost"
    BY <1>3, <1>4 DEF Raised
  <2>3. flaws = {} => state \in {"connected", "connecting"}
    BY <1>0, <1>4 DEF Told
  <2>4. "connecting" \in ShownAt("lost")
    BY DEF ShownAt
  <2> QED
    BY <1>1, <1>2, <1>4, <2>1, <2>2, <2>3, <2>4 DEF Told
<1>5. CASE e # "Disconnected"
  <2>1. /\ handler'[device] = "clear" /\ state' = ShownFor(e)
        /\ flaws' = IF e = "Connected" THEN flaws \ {"late code"} ELSE flaws
    BY <1>0, <1>5 DEF Deliver
  <2>2. Tail(q) = << >> => state' \in ShownAt(link[device])
    BY <1>1, <1>3, <1>5, <2>1 DEF Raised, ShownAt, ShownFor, Event
  <2>3. e = "Connected" => state' = "connected"
    BY <2>1 DEF ShownFor
  <2> QED
    BY <1>1, <1>2, <2>1, <2>2, <2>3 DEF Told
<1> QED
  BY <1>4, <1>5

LEMMA ScannedMoves ==
  ASSUME IInv, paired[device], Scanned, ClientMoves(device)
  PROVE  paired'[device'] /\ Scanned'
<1> DEFINE d == device
           q == events[d]
<1>0. /\ d \in Clients
      /\ link \in [Clients -> {"off", "up", "offer", "in", "lost"}]
      /\ events \in [Clients -> Seq(Event)] /\ items \in [Clients -> Seq(Item)]
      /\ channel \in [Clients -> {"none", "open", "cancelled", "closed"}]
      /\ paired \in [Clients -> BOOLEAN]
      /\ handler \in [Clients -> {"idle", "clear", "blip"}]
      /\ consumer \in [Clients -> {"none", "receive", "store", "done"}]
  BY TypeParts DEF IInv, ControlType, LibraryType, ShownType
<1>1. /\ link[d] # "offer" /\ (link[d] = "up" => channel[d] # "open")
      /\ Told(q, handler[d], link[d], state, flaws)
  BY DEF Scanned
<1>2. ~OfferCode(d) /\ ~EndOffer(d) /\ ~Scan(d)
  BY <1>1 DEF OfferCode, EndOffer, Scan
<1>3. CASE Deliver(d)
  <2>1. Told(Tail(q), handler'[d], link[d], state', flaws')
    BY <1>3, DeliveredIsTold
  <2>2. UNCHANGED <<device, paired, link, channel>> /\ events'[d] = Tail(q)
    BY <1>0, <1>3 DEF Deliver
  <2> QED
    BY <1>1, <2>1, <2>2 DEF Scanned
<1>4. CASE ClearQR(d)
  <2>1. /\ UNCHANGED <<device, paired, link, channel, events, state, flaws>>
        /\ handler'[d] = "idle" /\ handler[d] # "blip"
    BY <1>0, <1>4 DEF ClearQR, library
  <2>2. Told(q, "idle", link[d], state, flaws)
    BY <1>1, <2>1 DEF Told
  <2> QED
    BY <1>1, <2>1, <2>2 DEF Scanned
<1>5. CASE Blip(d)
  <2>1. /\ UNCHANGED <<device, paired, link, channel, events, flaws>>
        /\ handler'[d] = "idle" /\ handler[d] = "blip" /\ state' = "connecting"
    BY <1>0, <1>5 DEF Blip, library
  <2>2. Told(q, "idle", link[d], "connecting", flaws)
    BY <1>1, <2>1 DEF Told, ShownAt
  <2> QED
    BY <1>1, <2>1, <2>2 DEF Scanned
<1>6. CASE Receive(d) \/ EndConsumer(d)
  <2>1. UNCHANGED <<device, paired, link, channel, events, flaws, handler, state>>
    BY <1>6 DEF Receive, EndConsumer, library
  <2> QED
    BY <1>1, <2>1 DEF Scanned
<1>7. CASE StoreAwaiting(d)
  <2>1. /\ UNCHANGED <<device, paired, link, channel, events, handler>>
        /\ flaws' = flaws \cup {"late code"}
    BY <1>7 DEF StoreAwaiting, library
  <2>2. Told(q, handler[d], link[d], state', flaws')
    BY <1>1, <2>1 DEF Told
  <2> QED
    BY <1>1, <2>1, <2>2 DEF Scanned
<1>8. CASE NoticeCancel(d)
  <2>1. /\ UNCHANGED <<device, paired, link, events, flaws, handler, state>>
        /\ channel'[d] = "closed"
    BY <1>0, <1>8 DEF NoticeCancel, Own
  <2> QED
    BY <1>1, <2>1 DEF Scanned
<1>9. ASSUME NEW e \in Event, NEW l \in {"off", "in", "lost"}, e \in Raised(l),
             e = "Disconnected" => link[d] \in {"up", "in"},
             UNCHANGED <<device, paired, channel, handler, state, flaws>>,
             link'[d] = l, events'[d] = Append(q, e)
      PROVE  paired'[device'] /\ Scanned'
  <2>1. Told(Append(q, e), handler[d], l, state, flaws)
    BY <1>0, <1>1, <1>9, RaisedIsTold
  <2> QED
    BY <1>9, <2>1 DEF Scanned
<1>10. CASE LogIn(d)
  <2>1. /\ UNCHANGED <<device, paired, channel, handler, state, flaws>>
        /\ link'[d] = (IF row THEN "in" ELSE "off")
        /\ events'[d] = Append(q, IF row THEN "Connected" ELSE "LoggedOut")
    BY <1>0, <1>10 DEF LogIn, Own, Raise
  <2> QED
    BY <1>9, <2>1 DEF Raised, Event
<1>11. CASE Unlink(d)
  <2>1. /\ UNCHANGED <<device, paired, channel, handler, state, flaws>>
        /\ link'[d] = "off" /\ events'[d] = Append(q, "LoggedOut")
    BY <1>0, <1>11 DEF Unlink, Raise
  <2> QED
    BY <1>9, <2>1 DEF Raised, Event
<1>12. CASE Drop(d)
  <2>1. /\ UNCHANGED <<device, paired, channel, handler, state, flaws>>
        /\ link'[d] = "lost" /\ events'[d] = Append(q, "Disconnected")
        /\ link[d] \in {"up", "in"}
    BY <1>0, <1>12 DEF Drop, Own, Raise
  <2> QED
    BY <1>9, <2>1 DEF Raised, Event
<1> QED
  BY <1>2, <1>3, <1>4, <1>5, <1>6, <1>7, <1>8, <1>10, <1>11, <1>12
     DEF ClientMoves, Callback, Consume, Environment

LEMMA ClientAgrees ==
  ASSUME IInv, ShownInv, NEW g \in Clients, ClientMoves(g)
  PROVE  Agreed'
<1> USE DEF IInv, ShownInv
<1> SUFFICES ASSUME g = device
             PROVE  Agreed'
  BY AgreedApart
<1>1. UNCHANGED <<device, pc>> /\ flaws \ {"late code"} \subseteq flaws'
  BY OnlyItsOwn
<1> SUFFICES ASSUME Steady', Untroubled'
             PROVE  Expected'
  BY DEF Agreed
<1>2. Expected
  BY <1>1 DEF Agreed, Steady, Untroubled
<1>3. Dialing' <=> Dialing
  BY <1>1 DEF Dialing
<1>4. CASE Dialing
  BY <1>2, <1>3, <1>4, AtDialStays DEF Expected
<1>5. CASE ~Dialing /\ paired[device]
  BY <1>2, <1>3, <1>5, ScannedMoves DEF Expected
<1>6. CASE ~Dialing /\ ~paired[device]
  BY <1>2, <1>3, <1>6, UnscannedMoves DEF Expected
<1> QED
  BY <1>4, <1>5, <1>6

-----------------------------------------------------------------------------
(* Control requests again. *)

LEMMA LaterIsOther ==
  ASSUME NEW g \in Clients, NEW h \in Clients, g > h
  PROVE  g # h
BY BoundsAssumption DEF Clients

(* A request that moves on, keeps the client and does nothing to those that are
   silent but, at most, to the current one when no other is about to arm it. *)
LEMMA MovesKeepFresh ==
  ASSUME IInv, ShownInv, NEW t \in Threads, NEW l \in Label \ {"start"}, Goto(t, l),
         l = "arm" => pc[t] = "start",
         UNCHANGED device, flaws \ {"late code", "gave up"} \subseteq flaws',
         \A g \in Clients \ {device} : (Fresh(g) => Fresh(g)') /\ (Silent(g) => Silent(g)'),
         \/ Fresh(device) => Fresh(device)'
         \/ \A u \in Threads : pc'[u] \notin {"start", "arm"}
  PROVE  NewAreFresh' /\ FreshAtArm' /\ OldAreSilent'
<1> USE DEF IInv, ShownInv
<1>1. pc'[t] = l /\ \A u \in Threads \ {t} : pc'[u] = pc[u]
  BY TypeParts DEF Goto, ControlType
<1>2. device \in Clients /\ device \in Nat
  BY TypeParts, ClientsAreNumbers DEF ControlType
<1>3. NewAreFresh'
  <2>1. \A g \in Clients : g > device => g \in Clients \ {device}
    BY <1>2, LaterIsOther
  <2> QED
    BY <2>1 DEF NewAreFresh
<1>4. OldAreSilent'
  BY DEF OldAreSilent
<1>5. FreshAtArm'
  BY <1>1 DEF FreshAtArm
<1> QED
  BY <1>3, <1>4, <1>5

(* Who arms or dials is alone: no other request is about to arm. *)
LEMMA AloneAtDial ==
  ASSUME IInv, NEW t \in Threads, pc[t] \in {"arm", "dial"}
  PROVE  \A u \in Threads \ {t} : pc[u] \notin Locked \cup {"start"}
<1> USE TypeParts DEF IInv, ControlType
<1>1. \A u \in Threads \ {t} : pc[u] \notin Locked
  BY DEF Locked
<1>2. \A u \in Threads \ {t} : pc[u] # "start"
  BY DEF StartIsFirst, Threads
<1> QED
  BY <1>1, <1>2

LEMMA NotSteady ==
  ASSUME IInv, NEW t \in Threads, NEW l \in Label \ {"idle", "logout", "dial"}, Goto(t, l)
  PROVE  Agreed'
<1>1. pc'[t] = l
  BY TypeParts DEF IInv, Goto, ControlType
<1> QED
  BY <1>1 DEF Agreed, Steady

(* A request between two points at which nothing is expected of it. *)
LEMMA StillSteady ==
  ASSUME IInv, ShownInv, NEW t \in Threads, NEW l \in {"idle", "logout"}, Goto(t, l),
         pc[t] \in {"idle", "logout"},
         UNCHANGED <<device, state, flaws, handler, consumer, library>>
  PROVE  Agreed'
<1>1. pc'[t] = l /\ \A u \in Threads \ {t} : pc'[u] = pc[u]
  BY TypeParts DEF IInv, Goto, ControlType
<1> SUFFICES ASSUME Steady', Untroubled'
             PROVE  Expected'
  BY DEF Agreed
<1>2. Steady /\ Untroubled
  BY <1>1 DEF Steady, Untroubled
<1>3. Dialing' <=> Dialing
  BY <1>1 DEF Dialing
<1>4. Seen
  BY DEF Seen, library
<1> QED
  BY <1>2, <1>3, <1>4, SeenAlike DEF ShownInv, Agreed

LEMMA RequestShown ==
  ASSUME IInv, ShownInv, NEW t \in Threads, Request(t) \/ BeginStop(t)
  PROVE  ShownInv'
<1>1. PICK l \in {"logout", "lock", "stop"} : Goto(t, l)
  BY DEF Request, BeginStop
<1>2. /\ UNCHANGED <<device, state, flaws, handler, consumer, library>>
      /\ pc[t] = "idle"
  BY DEF Request, BeginStop
<1>3. l \in Label \ {"start", "arm"}
  BY DEF Label
<1>4. NewAreFresh' /\ FreshAtArm' /\ OldAreSilent'
  BY <1>1, <1>2, <1>3, MovesKeepFresh DEF Fresh, Silent, library
<1>5. CASE l = "logout"
  BY <1>1, <1>2, <1>5, StillSteady, <1>4 DEF ShownInv
<1>6. CASE l # "logout"
  BY <1>1, <1>3, <1>6, NotSteady, <1>4 DEF ShownInv
<1> QED
  BY <1>5, <1>6

LEMMA LogoutShown ==
  ASSUME IInv, ShownInv, NEW t \in Threads, Logout(t)
  PROVE  ShownInv'
<1>1. UNCHANGED <<device, state, flaws, handler, consumer, events, items, channel, paired>>
      /\ pc[t] = "logout"
  BY DEF Logout
<1>2. CASE Goto(t, "idle") /\ UNCHANGED link
  <2>1. "idle" \in Label \ {"start", "arm"}
    BY DEF Label
  <2>2. NewAreFresh' /\ FreshAtArm' /\ OldAreSilent'
    BY <1>1, <1>2, <2>1, MovesKeepFresh DEF Fresh, Silent
  <2> QED
    BY <1>1, <1>2, <2>2, StillSteady DEF ShownInv, library
<1>3. CASE Goto(t, "store_logged_out") /\ link' = [link EXCEPT ![device] = "off"]
  <2>1. "store_logged_out" \in Label \ {"start", "arm", "idle", "logout", "dial"}
    BY DEF Label
  <2>2. \A g \in Clients : (Fresh(g) => Fresh(g)') /\ (Silent(g) => Silent(g)')
    BY <1>1, <1>3, TypeParts DEF Fresh, Silent, IInv, LibraryType
  <2>3. device \in Clients
    BY DEF IInv, TypeOK
  <2>4. NewAreFresh' /\ FreshAtArm' /\ OldAreSilent'
    BY <1>1, <1>3, <2>1, <2>2, <2>3, MovesKeepFresh
  <2> QED
    BY <1>3, <2>1, <2>4, NotSteady DEF ShownInv
<1> QED
  BY <1>2, <1>3 DEF Logout

(* The steps of Reconnect and Stop before the client is replaced or the state
   stored for good: what is expected has to wait. *)
LEMMA WayShown ==
  ASSUME IInv, ShownInv, NEW t \in Threads,
         \/ StoreLoggedOut(t) \/ EmptyQR(t) \/ Lock(t) \/ Cancel(t)
         \/ TakeCancel(t) \/ CallCancel(t) \/ HangUp(t)
         \/ Wait(t) \/ StoreStopped(t)
  PROVE  ShownInv'
<1>1. PICK l \in Label \ {"start", "idle", "logout", "dial"} :
        Goto(t, l) /\ (l = "arm" => pc[t] = "start")
  <2>1. ASSUME NEW m \in {"empty_qr", "lock", "arm", "cancel", "hang_up", "stop_cancel",
                         "stop_hang_up", "wait", "stop_wait", "renew", "stop_store",
                         "stopped"}
        PROVE  m \in Label \ {"start", "idle", "logout", "dial"}
    BY DEF Label, Locked
  <2> QED
    BY <2>1 DEF StoreLoggedOut, EmptyQR, Lock, Cancel, TakeCancel, CallCancel, HangUp,
         Wait, StoreStopped
<1>2. UNCHANGED <<device, flaws, handler, consumer, events, items>>
  BY DEF StoreLoggedOut, EmptyQR, Lock, Cancel, TakeCancel, CallCancel, HangUp, Wait,
     StoreStopped, library
<1>3. \A g \in Clients : channel[g] = "none" => channel'[g] = "none"
  BY DEF StoreLoggedOut, EmptyQR, Lock, Cancel, TakeCancel, CallCancel, HangUp, Wait,
     StoreStopped, library, Cancelled
<1>4. \A g \in Clients : link[g] = "off" => link'[g] = "off"
  BY TypeParts DEF StoreLoggedOut, EmptyQR, Lock, Cancel, TakeCancel, CallCancel, HangUp,
     Wait, StoreStopped, library, IInv, LibraryType
<1>5. \A g \in Clients : (Fresh(g) => Fresh(g)') /\ (Silent(g) => Silent(g)')
  BY <1>2, <1>3, <1>4 DEF Fresh, Silent
<1>6. device \in Clients
  BY DEF IInv, TypeOK
<1>7. NewAreFresh' /\ FreshAtArm' /\ OldAreSilent'
  BY <1>1, <1>2, <1>5, <1>6, MovesKeepFresh
<1> QED
  BY <1>1, <1>7, NotSteady DEF ShownInv

LEMMA RenewShown ==
  ASSUME IInv, ShownInv, NEW t \in Threads, Renew(t)
  PROVE  ShownInv'
<1> USE DEF ShownInv
<1>1. /\ device' = device + 1 /\ device < MaxClients /\ Goto(t, "arm")
      /\ UNCHANGED <<link, events, handler, items, channel, consumer>>
      /\ flaws' = IF Silent(device) THEN flaws ELSE flaws \cup {"old client"}
  BY DEF Renew
<1>2. device' \in Clients /\ device \in Clients /\ device \in Nat /\ device' > device
  <2>1. device \in Clients /\ device \in Nat
    BY TypeParts, ClientsAreNumbers DEF IInv, ControlType
  <2>2. device' = device + 1 /\ device < MaxClients
    BY <1>1
  <2>3. device' \in Clients /\ device' > device
    BY <2>1, <2>2, BoundsAssumption DEF Clients
  <2> QED
    BY <2>1, <2>3
<1>3. \A g \in Clients : Fresh(g)' <=> Fresh(g)
  BY <1>1 DEF Fresh, Silent
<1>4. \A g \in Clients : Silent(g)' <=> Silent(g)
  BY <1>1 DEF Silent
<1>5. \A g \in Clients : g >= device' => Fresh(g)
  <2>1. \A g \in Clients : g >= device' => g > device
    <3>1. device' = device + 1
      BY <1>1
    <3> QED
      BY <1>2, <3>1 DEF Clients
  <2> QED
    BY <2>1 DEF NewAreFresh
<1>6. NewAreFresh' /\ FreshAtArm'
  <2>1. NewAreFresh'
    BY <1>2, <1>3, <1>5 DEF NewAreFresh, Clients
  <2>2. \A g \in Clients : g = device' => Fresh(g)'
    BY <1>2, <1>3, <1>5 DEF Clients
  <2>3. Fresh(device)'
    BY <1>2, <2>2 DEF Fresh, Silent
  <2> QED
    BY <2>1, <2>3 DEF FreshAtArm
<1>7. OldAreSilent'
  <2> SUFFICES ASSUME "old client" \notin flaws', NEW g \in Clients \ {device'}
               PROVE  Silent(g)'
    BY DEF OldAreSilent
  <2>1. Silent(device) /\ "old client" \notin flaws
    BY <1>1
  <2> QED
    BY <1>4, <2>1 DEF OldAreSilent
<1>8. Agreed'
  <2>1. "arm" \in Label \ {"idle", "logout", "dial"}
    BY DEF Label, Locked
  <2> QED
    BY <1>1, <2>1, NotSteady
<1> QED
  BY <1>6, <1>7, <1>8

LEMMA GiveUpShown ==
  ASSUME IInv, ShownInv, NEW t \in Threads, GiveUp(t)
  PROVE  ShownInv'
<1>1. /\ Goto(t, "idle") /\ flaws' = flaws \cup {"gave up"}
      /\ UNCHANGED <<device, link, events, handler, items, channel, consumer>>
  BY DEF GiveUp, Return, library
<1>2. "idle" \in Label \ {"start", "arm"}
  BY DEF Label
<1>3. NewAreFresh' /\ FreshAtArm' /\ OldAreSilent'
  BY <1>1, <1>2, MovesKeepFresh DEF Fresh, Silent
<1>4. ~Untroubled'
  BY <1>1 DEF Untroubled
<1> QED
  BY <1>3, <1>4 DEF ShownInv, Agreed

LEMMA ArmShown ==
  ASSUME IInv, ShownInv, NEW t \in Threads, Arm(t)
  PROVE  ShownInv'
<1>1. /\ pc[t] = "arm" /\ Goto(t, "dial") /\ flaws' = Mended
      /\ UNCHANGED <<device, link, events, handler, items, paired>>
      /\ state' = IF paired[device] THEN "connecting" ELSE "awaiting_qr"
  BY DEF Arm
<1>2. "dial" \in Label \ {"start", "arm"} /\ device \in Clients
  BY DEF Label, Locked, IInv, TypeOK
<1>3. pc'[t] = "dial" /\ \A u \in Threads \ {t} : pc'[u] = pc[u]
  BY <1>1, TypeParts DEF IInv, Goto, ControlType
<1>4. \A u \in Threads : pc'[u] \notin {"start", "arm"}
  BY <1>1, <1>3, AloneAtDial DEF Locked
<1>5. /\ channel \in [Clients -> {"none", "open", "cancelled", "closed"}]
      /\ consumer \in [Clients -> {"none", "receive", "store", "done"}]
  BY TypeParts DEF IInv, LibraryType, ShownType
<1>6. \A g \in Clients \ {device} : channel'[g] = channel[g] /\ consumer'[g] = consumer[g]
  BY <1>5 DEF Arm
<1>7. NewAreFresh' /\ FreshAtArm' /\ OldAreSilent'
  <2>1. \A g \in Clients \ {device} : (Fresh(g) => Fresh(g)') /\ (Silent(g) => Silent(g)')
    BY <1>1, <1>6 DEF Fresh, Silent
  <2>2. flaws \ {"late code", "gave up"} \subseteq flaws'
    BY <1>1 DEF Mended
  <2> QED
    BY <1>1, <1>2, <1>4, <2>1, <2>2, MovesKeepFresh
<1>8. Fresh(device)
  BY <1>1 DEF ShownInv, FreshAtArm
<1>9. consumer'[device] # "store" /\ (paired[device] => channel'[device] = "none")
  BY <1>2, <1>5, <1>8 DEF Arm, Fresh
<1>10. AtDial'
  BY <1>1, <1>8, <1>9 DEF AtDial, Fresh, Silent
<1>11. Dialing'
  BY <1>3 DEF Dialing
<1> QED
  BY <1>7, <1>10, <1>11 DEF ShownInv, Agreed, Expected

LEMMA DialShown ==
  ASSUME IInv, ShownInv, NEW t \in Threads, Dial(t) \/ DialFails(t)
  PROVE  ShownInv'
<1>1. /\ pc[t] = "dial" /\ Goto(t, "idle")
      /\ UNCHANGED <<device, events, handler, items, consumer, paired, flaws>>
  BY DEF Dial, DialFails, Return
<1>2. "idle" \in Label \ {"start", "arm"} /\ device \in Clients
  BY DEF Label, IInv, TypeOK
<1>3. pc'[t] = "idle" /\ \A u \in Threads \ {t} : pc'[u] = pc[u] /\ pc[u] \notin Locked \cup {"start"}
  BY <1>1, AloneAtDial, TypeParts DEF IInv, Goto, ControlType
<1>4. \A u \in Threads : pc'[u] \notin {"start", "arm"}
  BY <1>3 DEF Locked
<1>5. /\ link \in [Clients -> {"off", "up", "offer", "in", "lost"}]
      /\ channel \in [Clients -> {"none", "open", "cancelled", "closed"}]
  BY TypeParts DEF IInv, LibraryType
<1>6. \A g \in Clients \ {device} :
        link'[g] = link[g] /\ (channel[g] = "none" => channel'[g] = "none")
  BY <1>5 DEF Dial, DialFails, Abandoned, Cancelled
<1>7. NewAreFresh' /\ FreshAtArm' /\ OldAreSilent'
  <2>1. \A g \in Clients \ {device} : (Fresh(g) => Fresh(g)') /\ (Silent(g) => Silent(g)')
    BY <1>1, <1>6 DEF Fresh, Silent
  <2> QED
    BY <1>1, <1>2, <1>4, <2>1, MovesKeepFresh
<1>8. ASSUME Steady', Untroubled'
      PROVE  Expected'
  <2>1. Steady /\ Untroubled /\ Dialing
    BY <1>1, <1>3, <1>8 DEF Steady, Untroubled, Dialing
  <2>2. ~Dialing'
    BY <1>3 DEF Dialing, Locked
  <2>3. AtDial
    BY <2>1 DEF ShownInv, Agreed, Expected
  <2>4. events[device] = << >> /\ handler[device] = "idle" /\ link[device] = "off"
    BY <2>3 DEF AtDial, Silent
  <2>5. Ordered(<< >>)
    BY DEF Ordered
  <2>6. CASE Dial(t)
    <3>1. link'[device] = "up" /\ UNCHANGED <<state, channel>>
      BY <1>2, <1>5, <2>6 DEF Dial
    <3>2. CASE paired[device]
      BY <1>1, <2>2, <2>3, <2>4, <2>5, <3>1, <3>2
         DEF Expected, Scanned, Told, AtDial, ShownAt
    <3>3. CASE ~paired[device]
      BY <1>1, <2>2, <2>3, <2>4, <3>1, <3>3 DEF Expected, Unscanned, AtDial
    <3> QED
      BY <3>2, <3>3
  <2>7. CASE DialFails(t)
    <3>1. UNCHANGED link /\ state' = "disconnected"
      BY <2>7 DEF DialFails
    <3>2. CASE paired[device]
      BY <1>1, <2>2, <2>4, <2>5, <3>1, <3>2 DEF Expected, Scanned, Told, ShownAt
    <3>3. CASE ~paired[device]
      BY <1>1, <2>2, <2>3, <2>4, <3>1, <3>3 DEF Expected, Unscanned, AtDial
    <3> QED
      BY <3>2, <3>3
  <2> QED
    BY <2>6, <2>7
<1> QED
  BY <1>7, <1>8 DEF ShownInv, Agreed

(* Where a process begins, every client is fresh. *)
LEMMA AllFresh ==
  ASSUME \A g \in Clients : Fresh(g), device \in Clients,
         \E t \in Threads : pc[t] = "start"
  PROVE  ShownInv
BY DEF ShownInv, NewAreFresh, FreshAtArm, OldAreSilent, Agreed, Steady, Fresh

LEMMA InitShown == Init => ShownInv
<1> SUFFICES ASSUME Init
             PROVE  ShownInv
  OBVIOUS
<1>1. \A g \in Clients : Fresh(g)
  BY DEF Init, Fresh, Silent
<1>2. device \in Clients
  BY InvInit DEF IInv, TypeOK
<1>3. App \in Threads /\ pc[App] = "start"
  BY DEF Init, Threads
<1> QED
  BY <1>1, <1>2, <1>3, AllFresh

LEMMA BootShown ==
  ASSUME IInv, Boot
  PROVE  ShownInv'
<1>1. \A g \in Clients : Fresh(g)'
  BY DEF Boot, Fresh, Silent
<1>2. device' \in Clients
  BY BootPreserves DEF IInv, TypeOK
<1>3. App \in Threads /\ pc'[App] = "start"
  BY DEF Boot, Threads
<1> QED
  BY <1>1, <1>2, <1>3
     DEF ShownInv, NewAreFresh, FreshAtArm, OldAreSilent, Agreed, Steady, Fresh

LEMMA StutterShown ==
  ASSUME ShownInv, UNCHANGED vars
  PROVE  ShownInv'
<1> USE DEF vars, control, library
<1>1. NewAreFresh' /\ FreshAtArm' /\ OldAreSilent'
  BY DEF ShownInv, NewAreFresh, FreshAtArm, OldAreSilent, Fresh, Silent
<1>2. Seen /\ (Dialing' <=> Dialing) /\ (Steady' => Steady) /\ (Untroubled' => Untroubled)
  BY DEF Seen, Dialing, Steady, Untroubled
<1> QED
  BY <1>1, <1>2, SeenAlike DEF ShownInv, Agreed

LEMMA NextShown == IInv /\ ShownInv /\ [Next]_vars => ShownInv'
<1> SUFFICES ASSUME IInv, ShownInv, [Next]_vars
             PROVE  ShownInv'
  OBVIOUS
<1>1. CASE Boot
  BY <1>1, BootShown
<1>2. ASSUME NEW t \in Threads, Request(t) \/ BeginStop(t) \/ Control(t)
      PROVE  ShownInv'
  BY <1>2, RequestShown, LogoutShown, WayShown, RenewShown, GiveUpShown, ArmShown,
     DialShown DEF Control
<1>3. ASSUME NEW g \in Clients, Callback(g) \/ Consume(g) \/ Environment(g)
      PROVE  ShownInv'
  BY <1>3, ClientKeepsOrder, ClientAgrees DEF ShownInv, ClientMoves
<1>4. CASE UNCHANGED vars
  BY <1>4, StutterShown
<1> QED
  BY <1>1, <1>2, <1>3, <1>4 DEF Next

(* When nothing is left to deliver and nothing went wrong, the state shown is
   that of the current client's connection, in both directions for
   "connected": handleEvent and consumeQRChannel against Reconnect and Logout. *)
THEOREM ShownIsTrueHolds == Spec => []ShownIsTrue
<1>1. Spec => []ShownInv
  BY InitShown, NextShown, Invariance, PTL DEF Spec
<1>2. ASSUME IInv, ShownInv
      PROVE  ShownIsTrue
  <2> SUFFICES ASSUME Settled, flaws = {}
               PROVE  /\ state = "connected" <=> link[device] = "in"
                      /\ state = "awaiting_qr" => ~paired[device]
                      /\ state = "connecting"  => link[device] \in {"up", "lost"}
                      /\ state \in {"logged_out", "disconnected"} => link[device] = "off"
    BY DEF ShownIsTrue
  <2>1. device \in Clients /\ link[device] \in {"off", "up", "offer", "in", "lost"}
        /\ handler[device] = "idle" /\ events[device] = << >>
    BY <1>2 DEF IInv, TypeOK, Settled
  <2>2. Steady /\ Untroubled /\ ~Dialing
    BY DEF Settled, Steady, Untroubled, Dialing
  <2>3. IF paired[device] THEN Scanned ELSE Unscanned
    BY <1>2, <2>2 DEF ShownInv, Agreed, Expected
  <2>4. CASE paired[device]
    <3>1. link[device] # "offer" /\ state \in ShownAt(link[device])
      BY <2>1, <2>3, <2>4 DEF Scanned, Told
    <3> QED
      BY <2>1, <2>4, <3>1 DEF ShownAt
  <2>5. CASE ~paired[device]
    BY <2>1, <2>3, <2>5 DEF Unscanned
  <2> QED
    BY <2>4, <2>5
<1> QED
  BY <1>1, <1>2, Invariance, PTL

=============================================================================
