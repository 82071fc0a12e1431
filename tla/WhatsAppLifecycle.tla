-------------------------- MODULE WhatsAppLifecycle --------------------------
(***************************************************************************)
(* The life of the WhatsApp client (tallywa/internal/whatsapp/meow.go):    *)
(* pairing by QR code, login, loss of the connection, logout, and the      *)
(* control requests Start, Stop, Logout and Reconnect.                     *)
(*                                                                         *)
(* The state and the QR code shown to the user are two atomics, written    *)
(* without a lock by four kinds of goroutine: the control requests, of     *)
(* which Start and Reconnect hold a mutex, the event handler each client   *)
(* of the library calls, and the consumer of its QR channel.  A step here  *)
(* is one store to an atomic, one call of the library, or what happens     *)
(* between two of them.                                                    *)
(*                                                                         *)
(* Reconnect replaces the library's client.  Clients are numbered in the   *)
(* order they are made; the library delivers the events of a client, and   *)
(* the items of its QR channel, each in order.  What the library, the      *)
(* phone and WhatsApp do is environment.                                   *)
(*                                                                         *)
(* Definitions named Wrong... are mutated forms, see Outbox.               *)
(***************************************************************************)
EXTENDS Naturals, Sequences

CONSTANTS
  Callers,      (* HTTP handlers of control requests                       *)
  App,          (* the goroutine that calls Start and Stop                 *)
  Free,         (* nobody holds the mutex                                  *)
  MaxClients,   (* bound: clients made by one process                      *)
  MaxItems,     (* bound: items waiting on one QR channel                  *)
  MaxDrops      (* bound: connections lost by one process                  *)

ASSUME ThreadsAssumption == App \notin Callers /\ Free \notin Callers \cup {App}

ASSUME BoundsAssumption ==
  MaxClients \in Nat \ {0} /\ MaxItems \in Nat /\ MaxDrops \in Nat

Threads == Callers \cup {App}
Clients == 1..MaxClients
NoQR    == 0
None    == 0

States == {"disconnected", "connecting", "awaiting_qr", "connected", "logged_out"}

VARIABLES
  row,        (* the session database has a paired device                  *)
  (* MeowClient. *)
  state,      (* what the tray shows                                       *)
  qr,         (* the client whose code is shown, or NoQR                   *)
  device,     (* the current client                                        *)
  mu,         (* who holds the mutex                                       *)
  cancelFn,   (* the client whose QR channel cancelFn cancels, or None     *)
  taken,      (* the same of the function Stop has taken and not yet called *)
  pc,         (* where a control request is                                *)
  handler,    (* handler[g]: where the event handler of client g is        *)
  consumer,   (* consumer[g]: where consumeQRChannel of client g is        *)
  (* The library. *)
  paired,     (* paired[g]: the device of client g has an ID               *)
  link,       (* link[g]: "off", "up" (socket), "offer" (socket, a QR code
                 was offered), "in" (logged in) or "lost" (dialling again) *)
  events,     (* events[g]: events the library has still to deliver        *)
  channel,    (* channel[g]: the QR channel, "none", "open", "cancelled"
                 (the library has still to notice) or "closed"             *)
  items,      (* items[g]: items on the QR channel                         *)
  drops,      (* connections lost                                          *)
  (* History. *)
  flaws       (* known causes for showing a wrong state                    *)

control == <<mu, cancelFn, taken, pc>>
library == <<paired, link, events, channel, items>>
vars    == <<row, state, qr, device, control, handler, consumer, library, drops, flaws>>

-----------------------------------------------------------------------------
(* NewMeowClient: one client, paired if the database has a device. *)
Init ==
  /\ row \in BOOLEAN
  /\ state     = "disconnected"
  /\ qr        = NoQR
  /\ device    = 1
  /\ mu        = Free
  /\ cancelFn  = None
  /\ taken     = None
  /\ pc        = [t \in Threads |-> IF t = App THEN "start" ELSE "idle"]
  /\ handler   = [g \in Clients |-> "idle"]
  /\ consumer  = [g \in Clients |-> "none"]
  /\ paired    = [g \in Clients |-> g = 1 /\ row]
  /\ link      = [g \in Clients |-> "off"]
  /\ events    = [g \in Clients |-> << >>]
  /\ channel   = [g \in Clients |-> "none"]
  /\ items     = [g \in Clients |-> << >>]
  /\ drops     = 0
  /\ flaws     = {}

(* The process dies, or is told to (handleServiceRestart), and starts again. *)
Boot ==
  /\ state'     = "disconnected"
  /\ qr'        = NoQR
  /\ device'    = 1
  /\ mu'        = Free
  /\ cancelFn'  = None
  /\ taken'     = None
  /\ pc'        = [t \in Threads |-> IF t = App THEN "start" ELSE "idle"]
  /\ handler'   = [g \in Clients |-> "idle"]
  /\ consumer'  = [g \in Clients |-> "none"]
  /\ paired'    = [g \in Clients |-> g = 1 /\ row]
  /\ link'      = [g \in Clients |-> "off"]
  /\ events'    = [g \in Clients |-> << >>]
  /\ channel'   = [g \in Clients |-> "none"]
  /\ items'     = [g \in Clients |-> << >>]
  /\ drops'     = 0
  /\ flaws'     = {}
  /\ UNCHANGED row

-----------------------------------------------------------------------------
(* Control requests. *)

Goto(t, l) == pc' = [pc EXCEPT ![t] = l]

WrongReturn(t, l) == Goto(t, l) /\ UNCHANGED mu

(* The return from Start or Reconnect: the mutex is unlocked. *)
Return(t, l) == Goto(t, l) /\ mu' = Free

(* A click: Logout, which is followed by Reconnect, or Reconnect.  The HTTP
   server runs from the end of Start to the beginning of Stop.  The bound on
   clients: when none is left, no request begins, and those that have begun
   give up. *)
Request(t) ==
  /\ t \in Callers
  /\ pc[t] = "idle"
  /\ pc[App] = "idle"
  /\ device < MaxClients
  /\ \E l \in {"logout", "lock"} : Goto(t, l)
  /\ UNCHANGED <<row, state, qr, device, mu, cancelFn, taken, handler, consumer,
                 library, drops, flaws>>

(* The library's Logout, which needs a logged-in client and deletes the
   device; when it fails, so does the request, and nothing follows. *)
Logout(t) ==
  /\ pc[t] = "logout"
  /\ \/ /\ link[device] = "in"
        /\ row'  = FALSE
        /\ link' = [link EXCEPT ![device] = "off"]
        /\ Goto(t, "store_logged_out")
     \/ Goto(t, "idle") /\ UNCHANGED <<row, link>>
  /\ UNCHANGED <<state, qr, device, mu, cancelFn, taken, handler, consumer, paired,
                 events, channel, items, drops, flaws>>

StoreLoggedOut(t) ==
  /\ pc[t] = "store_logged_out"
  /\ state' = "logged_out"
  /\ Goto(t, "empty_qr")
  /\ UNCHANGED <<row, qr, device, mu, cancelFn, taken, handler, consumer, library,
                 drops, flaws>>

EmptyQR(t) ==
  /\ pc[t] = "empty_qr"
  /\ qr' = NoQR
  /\ Goto(t, "lock")
  /\ UNCHANGED <<row, state, device, mu, cancelFn, taken, handler, consumer,
                 library, drops, flaws>>

(* Start, and Reconnect, from its first line to the waiting. *)
Lock(t) ==
  /\ mu = Free
  /\ mu' = t
  /\ \/ pc[t] = "start" /\ Goto(t, "arm")
     \/ pc[t] = "lock"  /\ Goto(t, "cancel")
  /\ UNCHANGED <<row, state, qr, device, cancelFn, taken, handler, consumer,
                 library, drops, flaws>>

WrongCancelled(f) == channel

(* The channels after f, a cancel function or none, has been called. *)
Cancelled(f) ==
  [g \in Clients |-> IF g = f /\ channel[g] = "open" THEN "cancelled" ELSE channel[g]]

(* Reconnect cancels under the mutex. *)
Cancel(t) ==
  /\ pc[t] = "cancel"
  /\ channel'  = Cancelled(cancelFn)
  /\ cancelFn' = None
  /\ Goto(t, "hang_up")
  /\ UNCHANGED <<row, state, qr, device, mu, taken, handler, consumer, paired, link,
                 events, items, drops, flaws>>

(* Stop takes the function under the mutex, and calls it when it has given the
   mutex back. *)
TakeCancel(t) ==
  /\ t = App
  /\ pc[t] = "stop"
  /\ mu = Free
  /\ taken'    = cancelFn
  /\ cancelFn' = None
  /\ Goto(t, "stop_cancel")
  /\ UNCHANGED <<row, state, qr, device, mu, handler, consumer, library, drops, flaws>>

CallCancel(t) ==
  /\ pc[t] = "stop_cancel"
  /\ channel' = Cancelled(taken)
  /\ taken'   = None
  /\ Goto(t, "stop_hang_up")
  /\ UNCHANGED <<row, state, qr, device, mu, cancelFn, handler, consumer, paired, link,
                 events, items, drops, flaws>>

Connected == {"up", "offer", "in"}

(* Disconnect, if IsConnected: a client that is dialling again is left to it.
   The library raises no event for a Disconnect it was asked for. *)
HangUp(t) ==
  /\ \/ pc[t] = "hang_up" /\ Goto(t, "wait")
     \/ pc[t] = "stop_hang_up" /\ Goto(t, "stop_wait")
  /\ link' = IF link[device] \in Connected THEN [link EXCEPT ![device] = "off"]
                                              ELSE link
  /\ UNCHANGED <<row, state, qr, device, mu, cancelFn, taken, handler, consumer,
                 paired, events, channel, items, drops, flaws>>

Alive(g) == consumer[g] \in {"receive", "store"}

WrongWaited == TRUE

(* The wait group: every consumer started so far has ended. *)
Waited == \A g \in Clients : ~Alive(g)

Wait(t) ==
  /\ Waited
  /\ \/ pc[t] = "wait" /\ Goto(t, "renew")
     \/ pc[t] = "stop_wait" /\ Goto(t, "stop_store")
  /\ UNCHANGED <<row, state, qr, device, mu, cancelFn, taken, handler, consumer,
                 library, drops, flaws>>

Silent(g) == link[g] = "off" /\ events[g] = << >> /\ handler[g] = "idle"

(* The device comes from the database, a new client is built around it.
   Nothing is done about the client it replaces. *)
Renew(t) ==
  /\ pc[t] = "renew"
  /\ device < MaxClients
  /\ device' = device + 1
  /\ paired' = [paired EXCEPT ![device'] = row]
  /\ flaws'  = IF Silent(device) THEN flaws ELSE flaws \cup {"old client"}
  /\ Goto(t, "arm")
  /\ UNCHANGED <<row, state, qr, mu, cancelFn, taken, handler, consumer, link,
                 events, channel, items, drops>>

(* An error of the database returns from Reconnect with the old client hung
   up and the state as it was; so does, later, one of GetQRChannel. *)
GiveUp(t) ==
  /\ \/ pc[t] = "renew"
     \/ pc[t] = "arm" /\ ~paired[device]
  /\ Return(t, "idle")
  /\ flaws' = flaws \cup {"gave up"}
  /\ UNCHANGED <<row, state, qr, device, cancelFn, taken, handler, consumer,
                 library, drops>>

(* The flaws a new client mends. *)
Mended == flaws \ {"late code", "gave up"}

(* An unpaired client gets a QR channel and a consumer for it. *)
Arm(t) ==
  /\ pc[t] = "arm"
  /\ cancelFn' = device
  /\ IF paired[device]
       THEN /\ state' = "connecting"
            /\ UNCHANGED <<channel, consumer>>
       ELSE /\ state'    = "awaiting_qr"
            /\ channel'  = [channel EXCEPT ![device] = "open"]
            /\ consumer' = [consumer EXCEPT ![device] = "receive"]
  /\ flaws' = Mended
  /\ Goto(t, "dial")
  /\ UNCHANGED <<row, qr, device, mu, taken, handler, paired, link, events, items,
                 drops>>

Dial(t) ==
  /\ pc[t] = "dial"
  /\ link' = [link EXCEPT ![device] = "up"]
  /\ Return(t, "idle")
  /\ UNCHANGED <<row, state, qr, device, cancelFn, taken, handler, consumer, paired,
                 events, channel, items, drops, flaws>>

WrongAbandoned == channel

Abandoned == Cancelled(device)

DialFails(t) ==
  /\ pc[t] = "dial"
  /\ channel'  = Abandoned
  /\ cancelFn' = None
  /\ state'    = "disconnected"
  /\ Return(t, "idle")
  /\ UNCHANGED <<row, qr, device, taken, handler, consumer, paired, link, events,
                 items, drops, flaws>>

(* Stop, at the end of the service: the HTTP server has been shut down, but
   that waits five seconds at most for the requests being handled. *)
BeginStop(t) ==
  /\ t = App
  /\ pc[t] = "idle"
  /\ Goto(t, "stop")
  /\ UNCHANGED <<row, state, qr, device, mu, cancelFn, taken, handler, consumer,
                 library, drops, flaws>>

StoreStopped(t) ==
  /\ pc[t] = "stop_store"
  /\ state' = "disconnected"
  /\ Goto(t, "stopped")
  /\ UNCHANGED <<row, qr, device, mu, cancelFn, taken, handler, consumer, library,
                 drops, flaws>>

(* What a control request does by itself once it has begun. *)
Control(t) ==
  \/ Logout(t)
  \/ StoreLoggedOut(t)
  \/ EmptyQR(t)
  \/ Lock(t)
  \/ Cancel(t)
  \/ TakeCancel(t)
  \/ CallCancel(t)
  \/ HangUp(t)
  \/ Wait(t)
  \/ Renew(t)
  \/ GiveUp(t)
  \/ Arm(t)
  \/ Dial(t)
  \/ DialFails(t)
  \/ StoreStopped(t)

-----------------------------------------------------------------------------
WrongShownFor(e) == IF e = "Connected" THEN "connected" ELSE "connecting"

(* handleEvent, called by client g: the store to the state, then, for most
   events, the one to the QR code; for a lost connection a look at the state
   and then a store. *)
ShownFor(e) ==
  CASE e = "Connected"   -> "connected"
    [] e = "LoggedOut"   -> "logged_out"
    [] e = "PairSuccess" -> "connecting"

Deliver(g) ==
  /\ handler[g] = "idle"
  /\ events[g] # << >>
  /\ LET e == Head(events[g]) IN
       IF e = "Disconnected"
         THEN /\ handler' = [handler EXCEPT ![g] = IF state = "connected" THEN "blip"
                                                                          ELSE "idle"]
              /\ UNCHANGED <<state, flaws>>
         ELSE /\ handler' = [handler EXCEPT ![g] = "clear"]
              /\ state'   = ShownFor(e)
              /\ flaws'   = IF e = "Connected" THEN flaws \ {"late code"} ELSE flaws
  /\ events' = [events EXCEPT ![g] = Tail(@)]
  /\ UNCHANGED <<row, qr, device, control, consumer, paired, link, channel, items, drops>>

ClearQR(g) ==
  /\ handler[g] = "clear"
  /\ qr'      = NoQR
  /\ handler' = [handler EXCEPT ![g] = "idle"]
  /\ UNCHANGED <<row, state, device, control, consumer, library, drops, flaws>>

Blip(g) ==
  /\ handler[g] = "blip"
  /\ state'   = "connecting"
  /\ handler' = [handler EXCEPT ![g] = "idle"]
  /\ UNCHANGED <<row, qr, device, control, consumer, library, drops, flaws>>

-----------------------------------------------------------------------------
(* consumeQRChannel of client g. *)

(* An item: a code is shown, a success, a timeout or an outdated client empties
   the slot, and the rest is logged. *)
Receive(g) ==
  /\ consumer[g] = "receive"
  /\ items[g] # << >>
  /\ LET i == Head(items[g]) IN
       /\ qr' = CASE i = "code" -> g [] i = "error" -> qr [] OTHER -> NoQR
       /\ consumer' = [consumer EXCEPT ![g] = IF i = "code" THEN "store" ELSE @]
  /\ items' = [items EXCEPT ![g] = Tail(@)]
  /\ UNCHANGED <<row, state, device, control, handler, paired, link, events, channel,
                 drops, flaws>>

(* The second store for a code, whatever has happened since the first. *)
StoreAwaiting(g) ==
  /\ consumer[g] = "store"
  /\ state'    = "awaiting_qr"
  /\ consumer' = [consumer EXCEPT ![g] = "receive"]
  /\ flaws'    = IF paired[g] THEN flaws \cup {"late code"} ELSE flaws
  /\ UNCHANGED <<row, qr, device, control, handler, library, drops>>

(* The channel is closed and empty: the goroutine ends and leaves the slot as
   it is. *)
EndConsumer(g) ==
  /\ consumer[g] = "receive"
  /\ items[g] = << >>
  /\ channel[g] = "closed"
  /\ consumer' = [consumer EXCEPT ![g] = "done"]
  /\ UNCHANGED <<row, state, qr, device, control, handler, library, drops, flaws>>

Consume(g) == Receive(g) \/ StoreAwaiting(g) \/ EndConsumer(g)

Callback(g) == Deliver(g) \/ ClearQR(g) \/ Blip(g)

-----------------------------------------------------------------------------
(* The library, the phone and WhatsApp. *)

Own == <<row, state, qr, device, control, handler, consumer, flaws>>

Raise(g, e) == events' = [events EXCEPT ![g] = Append(@, e)]

(* The last item of a channel closes it. *)
Close(g, i) ==
  IF channel[g] = "open"
    THEN /\ channel' = [channel EXCEPT ![g] = "closed"]
         /\ items'   = [items EXCEPT ![g] = Append(@, i)]
    ELSE UNCHANGED <<channel, items>>

OfferCode(g) ==
  /\ link[g] \in {"up", "offer"}
  /\ channel[g] = "open"
  /\ Len(items[g]) < MaxItems
  /\ link'  = [link EXCEPT ![g] = "offer"]
  /\ items' = [items EXCEPT ![g] = Append(@, "code")]
  /\ UNCHANGED <<Own, paired, events, channel, drops>>

(* The codes run out before the user has scanned one, or pairing fails. *)
EndOffer(g) ==
  /\ link[g] \in {"up", "offer"}
  /\ channel[g] = "open"
  /\ \E i \in {"timeout", "error"} : Close(g, i)
  /\ link' = [link EXCEPT ![g] = "off"]
  /\ UNCHANGED <<Own, paired, events, drops>>

(* A cancelled channel is closed without a last item. *)
NoticeCancel(g) ==
  /\ channel[g] = "cancelled"
  /\ channel' = [channel EXCEPT ![g] = "closed"]
  /\ UNCHANGED <<Own, paired, link, events, items, drops>>

(* The user scans a code; the library then dials again, as the new device. *)
Scan(g) ==
  /\ link[g] = "offer"
  /\ row'    = TRUE
  /\ paired' = [paired EXCEPT ![g] = TRUE]
  /\ link'   = [link EXCEPT ![g] = "lost"]
  /\ Raise(g, "PairSuccess")
  /\ Close(g, "success")
  /\ UNCHANGED <<state, qr, device, control, handler, consumer, drops, flaws>>

(* A paired client logs in while WhatsApp knows its device, else it is told
   that it is logged out. *)
LogIn(g) ==
  /\ link[g] \in {"up", "lost"}
  /\ paired[g]
  /\ link' = [link EXCEPT ![g] = IF row THEN "in" ELSE "off"]
  /\ Raise(g, IF row THEN "Connected" ELSE "LoggedOut")
  /\ UNCHANGED <<Own, paired, channel, items, drops>>

(* The phone unlinks the device: the library deletes it. *)
Unlink(g) ==
  /\ link[g] = "in"
  /\ row'  = FALSE
  /\ link' = [link EXCEPT ![g] = "off"]
  /\ Raise(g, "LoggedOut")
  /\ UNCHANGED <<state, qr, device, control, handler, consumer, paired, channel,
                 items, drops, flaws>>

(* The connection of a paired client is lost: it dials again by itself. *)
Drop(g) ==
  /\ link[g] \in {"up", "in"}
  /\ paired[g]
  /\ drops < MaxDrops
  /\ drops' = drops + 1
  /\ link'  = [link EXCEPT ![g] = "lost"]
  /\ Raise(g, "Disconnected")
  /\ UNCHANGED <<Own, paired, channel, items>>

Environment(g) ==
  \/ OfferCode(g)
  \/ EndOffer(g)
  \/ NoticeCancel(g)
  \/ Scan(g)
  \/ LogIn(g)
  \/ Unlink(g)
  \/ Drop(g)

Next ==
  \/ Boot
  \/ \E t \in Threads : Request(t) \/ BeginStop(t) \/ Control(t)
  \/ \E g \in Clients : Callback(g) \/ Consume(g) \/ Environment(g)

Spec == Init /\ [][Next]_vars

(* Goroutines run, a mutex that is free again and again is got in the end, a
   call of the library returns, and a cancelled channel is closed. *)
Fairness ==
  /\ \A t \in Threads : WF_vars(Control(t)) /\ SF_vars(Lock(t))
  /\ \A g \in Clients : WF_vars(Consume(g)) /\ WF_vars(NoticeCancel(g))

FairSpec == Spec /\ Fairness
-----------------------------------------------------------------------------
(* Properties. *)

(* Types; who holds the mutex: the request between its Lock and its return, of
   which there is one at most; and that Stop has a cancel function only until
   it has called it. *)
Locked == {"cancel", "hang_up", "wait", "renew", "arm", "dial"}

TypeOK ==
  /\ row       \in BOOLEAN
  /\ state     \in States
  /\ qr        \in Clients \cup {NoQR}
  /\ device    \in Clients
  /\ mu        \in Threads \cup {Free}
  /\ cancelFn  \in Clients \cup {None}
  /\ taken     \in Clients \cup {None}
  /\ taken # None => pc[App] = "stop_cancel"
  /\ pc        \in [Threads -> Locked \cup {"idle", "start", "lock", "logout",
                     "store_logged_out", "empty_qr", "stop", "stop_cancel",
                     "stop_hang_up", "stop_wait", "stop_store", "stopped"}]
  /\ \A t \in Threads : pc[t] \in Locked <=> mu = t
  /\ handler   \in [Clients -> {"idle", "clear", "blip"}]
  /\ consumer  \in [Clients -> {"none", "receive", "store", "done"}]
  /\ paired    \in [Clients -> BOOLEAN]
  /\ link      \in [Clients -> {"off", "up", "offer", "in", "lost"}]
  /\ events    \in [Clients -> Seq({"Connected", "Disconnected", "LoggedOut",
                                    "PairSuccess"})]
  /\ channel   \in [Clients -> {"none", "open", "cancelled", "closed"}]
  /\ items     \in [Clients -> Seq({"code", "success", "timeout", "error"})]
  /\ drops     \in 0..MaxDrops
  /\ flaws     \subseteq {"old client", "gave up", "late code"}

(* At most one QR consumer is at work, and only for the current client: no
   other one can write to the state or the QR code.
   (The wait group of Reconnect, before the client is replaced.) *)
OneConsumer == \A g \in Clients : Alive(g) => g = device

(* A consumer at work can be made to end by the next Reconnect or by Stop: its
   channel is closed or cancelled, or cancelFn is the function to do it with, or
   Stop has taken that and is about to call it.  Otherwise Reconnect would wait for
   the user, holding the mutex.
   (The error paths of Start and Reconnect, Stop taking cancelFn.) *)
ConsumerCanBeEnded ==
  \A g \in Clients :
    Alive(g) => channel[g] \in {"closed", "cancelled"} \/ g \in {cancelFn, taken}

(* Nothing is under way: what is shown now stays shown. *)
Settled ==
  /\ \A t \in Threads : pc[t] = "idle"
  /\ \A g \in Clients : events[g] = << >> /\ handler[g] = "idle"
  /\ \A g \in Clients : Alive(g) => consumer[g] = "receive" /\ items[g] = << >>

(* When everything has been delivered, what is shown is true of the current
   client, unless one of three things has happened: Reconnect replaced a
   client that was not silent, or gave up half-way, or the consumer stored
   the state of a code that had been scanned already.  A Reconnect that gets
   through mends the last two, a login the last.
   (handleEvent and consumeQRChannel against Reconnect and Logout.) *)
ShownIsTrue ==
  Settled /\ flaws = {} =>
    /\ state = "connected" <=> link[device] = "in"
    /\ state = "awaiting_qr" => ~paired[device]
    /\ state = "connecting"  => link[device] \in {"up", "lost"}
    /\ state \in {"logged_out", "disconnected"} => link[device] = "off"

(* A code shown is never replaced by one of an older client.
   (consumeQRChannel against Reconnect.) *)
CodesAdvance == [][qr' # NoQR => qr' >= qr]_vars

(* A control request returns, whatever the user and WhatsApp do: Reconnect
   does not wait for ever with the mutex held. *)
RequestsReturn == \A t \in Callers : pc[t] # "idle" ~> pc[t] = "idle"

-----------------------------------------------------------------------------
(* What a comment of the code says, and the code does not do. *)

(* meow.go, State: "awaiting_qr" means "not paired, QR is on offer". *)
AwaitingMeansOffered ==
  Settled /\ state = "awaiting_qr" =>
    ~paired[device] /\ (qr = device \/ channel[device] = "open")

=============================================================================
