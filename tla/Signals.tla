-------------------------------- MODULE Signals --------------------------------
(***************************************************************************)
(* The signals of libobs/callback/signal.c: one signal of one handler, its  *)
(* callbacks and the handler's global callbacks.  Callbacks run under a     *)
(* recursive mutex and may connect, disconnect, take themselves off, or     *)
(* signal again; the loop that calls them walks the array that they change. *)
(* Parameters, declarations and destroying a handler are not modelled.      *)
(* An operator whose comment says it is faulty is used by no action.        *)
(***************************************************************************)
EXTENDS Naturals, SequencesExt

CONSTANTS
    SignalThreads, SignalCallbacks, GlobalCallbacks,
    MaxCalls,      \* bound: calls of the functions below
    MaxNested,     \* bound: deliveries a thread is in
    SignalRaces    \* what callbacks may do, see below

(* "nested": a callback causes the signal that it was called for;            *)
(* "reconnect": what was disconnected is connected while it is still marked; *)
(* "global": a global callback disconnects one, or connects itself;          *)
(* "grow": a callback connects one and takes itself off afterwards, when the *)
(* array may have been moved.                                                *)
ASSUME SignalsAssumption ==
    /\ {MaxCalls, MaxNested} \subseteq Nat
    /\ SignalRaces \subseteq {"nested", "reconnect", "global", "grow"}

VARIABLES
    callbacks, signalling,    \* struct signal_info
    global_callbacks,         \* struct signal_handler
    deliveries,    \* the calls of signal_handler_signal each thread is in
    current,       \* current_signal_cb, current_global_cb: positions, or 0
    wanted,        \* history: what was connected and not disconnected since
    calls

signalVars == <<callbacks, signalling, global_callbacks, deliveries, current,
                wanted, calls>>

Arrays == {"signal", "global"}

SignalsInit ==
    /\ callbacks = <<>> /\ signalling = FALSE /\ global_callbacks = <<>>
    /\ deliveries = [t \in SignalThreads |-> <<>>]
    /\ current = [t \in SignalThreads |-> [a \in Arrays |-> 0]]
    /\ wanted = [a \in Arrays |-> {}] /\ calls = 0

\* Threads call from outside, or from the callback that is called last.
MayCall(t) ==
    /\ calls < MaxCalls /\ calls' = calls + 1
    /\ deliveries[t] # <<>> => Last(deliveries[t]).running

\* Each array has a recursive mutex.
Holds(t, a) == \E i \in DOMAIN deliveries[t] : deliveries[t][i].in = a
MayLock(t, a) == \A u \in SignalThreads \ {t} : ~Holds(u, a)

Want(a, c) == wanted' = [wanted EXCEPT ![a] = @ \cup {c}]

\* What is disconnected need not be called by the deliveries that are under way.
Unwant(a, c) ==
    /\ wanted' = [wanted EXCEPT ![a] = @ \ {c}]
    /\ deliveries' = [t \in SignalThreads |-> [i \in DOMAIN deliveries[t] |->
           IF deliveries[t][i].in = a
           THEN [deliveries[t][i] EXCEPT !.due = @ \ {c}]
           ELSE deliveries[t][i]]]

Position(c) == SelectInSeq(callbacks, LAMBDA cb : cb.callback = c)

\* da_find compares whole elements.
GlobalPosition(c) ==
    SelectInSeq(global_callbacks,
                LAMBDA cb : cb = [callback |-> c, signaling |-> 0,
                                  remove |-> FALSE])

\* The array without the elements at these positions.
Without(array, gone) ==
    LET kept[n \in 0 .. Len(array)] ==
            IF n = 0 THEN <<>>
            ELSE IF n \in gone THEN kept[n - 1]
            ELSE Append(kept[n - 1], array[n])
    IN  kept[Len(array)]

-----------------------------------------------------------------------------
(* Connecting and disconnecting                                             *)

\* The pointer to the current callback does not follow an array that grows.
Pushed(t, a) ==
    \/ UNCHANGED current
    \/ "grow" \in SignalRaces /\ current' = [current EXCEPT ![t][a] = 0]

\* signal_handler_connect
ConnectCallback(t, c) ==
    /\ MayCall(t) /\ MayLock(t, "signal") /\ Want("signal", c)
    /\ \/ Position(c) = 0 /\ Pushed(t, "signal")
          /\ callbacks' = Append(callbacks, [callback |-> c, remove |-> FALSE])
       \/ /\ Position(c) # 0 /\ UNCHANGED <<callbacks, current>>
          /\ ~callbacks[Position(c)].remove \/ "reconnect" \in SignalRaces
    /\ UNCHANGED <<signalling, global_callbacks, deliveries>>

\* Faulty: the callback leaves the array while it is walked.
DisconnectAtOnce(t, c) ==
    /\ MayCall(t) /\ MayLock(t, "signal") /\ Unwant("signal", c)
    /\ Position(c) # 0
    /\ callbacks' = RemoveAt(callbacks, Position(c))
    /\ UNCHANGED <<signalling, global_callbacks, current>>

\* signal_handler_disconnect
DisconnectCallback(t, c) ==
    /\ MayCall(t) /\ MayLock(t, "signal") /\ Unwant("signal", c)
    /\ Position(c) # 0
    /\ callbacks' = IF signalling
                    THEN [callbacks EXCEPT ![Position(c)].remove = TRUE]
                    ELSE RemoveAt(callbacks, Position(c))
    /\ UNCHANGED <<signalling, global_callbacks, current>>

\* signal_handler_connect_global
ConnectGlobal(t, c) ==
    /\ MayCall(t) /\ MayLock(t, "global") /\ Want("global", c)
    /\ \/ GlobalPosition(c) # 0 /\ UNCHANGED <<global_callbacks, current>>
       \/ /\ GlobalPosition(c) = 0 /\ Pushed(t, "global")
          /\ \/ "global" \in SignalRaces
             \/ \A i \in DOMAIN global_callbacks :
                    global_callbacks[i].callback # c
          /\ global_callbacks' = Append(global_callbacks,
                 [callback |-> c, signaling |-> 0, remove |-> FALSE])
    /\ UNCHANGED <<callbacks, signalling, deliveries>>

\* signal_handler_disconnect_global
DisconnectGlobal(t, c) ==
    /\ MayCall(t) /\ MayLock(t, "global") /\ Unwant("global", c)
    /\ c \in wanted["global"]
    /\ "global" \in SignalRaces \/ ~Holds(t, "global")
    /\ global_callbacks' = IF GlobalPosition(c) = 0 THEN global_callbacks
                           ELSE RemoveAt(global_callbacks, GlobalPosition(c))
    /\ UNCHANGED <<callbacks, signalling, current>>

\* signal_handler_remove_current
RemoveCurrent(t) ==
    /\ MayCall(t) /\ deliveries[t] # <<>>
    /\ LET delivery == Last(deliveries[t])
       IN  Unwant(delivery.in, Last(delivery.called))
    /\ \/ /\ current[t]["signal"] # 0
          /\ callbacks' = [callbacks EXCEPT ![current[t]["signal"]].remove = TRUE]
          /\ UNCHANGED global_callbacks
       \/ /\ current[t]["signal"] = 0 /\ current[t]["global"] # 0
          /\ global_callbacks' =
                 [global_callbacks EXCEPT ![current[t]["global"]].remove = TRUE]
          /\ UNCHANGED callbacks
       \/ /\ current[t] = [a \in Arrays |-> 0]
          /\ UNCHANGED <<callbacks, global_callbacks>>
    /\ UNCHANGED <<signalling, current>>

-----------------------------------------------------------------------------
(* signal_handler_signal                                                    *)

\* `due', history: the callbacks it must reach.
Delivery(a) == [in |-> a, next |-> 1, running |-> FALSE, called |-> <<>>,
                due |-> wanted[a]]

Replace(t, delivery) ==
    deliveries' = [deliveries EXCEPT ![t] = Front(@) \o <<delivery>>]

BeginSignal(t) ==
    /\ MayCall(t) /\ MayLock(t, "signal")
    /\ deliveries[t] # <<>> =>
           "nested" \in SignalRaces /\ Len(deliveries[t]) < MaxNested
    /\ signalling' = TRUE
    /\ deliveries' = [deliveries EXCEPT ![t] = Append(@, Delivery("signal"))]
    /\ UNCHANGED <<callbacks, global_callbacks, current, wanted>>

\* The delivery of t that goes on, between two callbacks.
Walking(t, a) ==
    /\ deliveries[t] # <<>>
    /\ Last(deliveries[t]).in = a /\ ~Last(deliveries[t]).running

\* The next callback of an array; one that is to be removed is passed over.
CallNext(t, a, array) ==
    LET delivery == Last(deliveries[t])
        i        == delivery.next
    IN  /\ Walking(t, a) /\ i <= Len(array)
        /\ IF array[i].remove
           THEN Replace(t, [delivery EXCEPT !.next = @ + 1]) /\ UNCHANGED current
           ELSE /\ Replace(t, [delivery EXCEPT !.next = @ + 1, !.running = TRUE,
                               !.called = Append(@, array[i].callback)])
                /\ current' = [current EXCEPT ![t][a] = i]

CallSignal(t) ==
    /\ CallNext(t, "signal", callbacks)
    /\ UNCHANGED <<callbacks, signalling, global_callbacks, wanted, calls>>

CallGlobal(t) ==
    /\ CallNext(t, "global", global_callbacks)
    /\ global_callbacks' = IF current' = current THEN global_callbacks
                           ELSE [global_callbacks EXCEPT
                                    ![current'[t]["global"]].signaling = @ + 1]
    /\ UNCHANGED <<callbacks, signalling, wanted, calls>>

\* A callback returns; a global one is counted down where it was.
Return(t) ==
    /\ deliveries[t] # <<>> /\ Last(deliveries[t]).running
    /\ LET delivery == Last(deliveries[t])
       IN  /\ Replace(t, [delivery EXCEPT !.running = FALSE])
           /\ current' = [current EXCEPT ![t][delivery.in] = 0]
           /\ global_callbacks' =
                  IF delivery.in = "signal" THEN global_callbacks
                  ELSE [global_callbacks EXCEPT
                           ![delivery.next - 1].signaling = @ - 1]
    /\ UNCHANGED <<callbacks, signalling, wanted, calls>>

\* What was marked is removed, and the mutex is given back.
EndSignal(t) ==
    /\ Walking(t, "signal") /\ Last(deliveries[t]).next > Len(callbacks)
    /\ callbacks' =
           Without(callbacks, {i \in DOMAIN callbacks : callbacks[i].remove})
    /\ signalling' = FALSE
    /\ Replace(t, [Last(deliveries[t]) EXCEPT !.in = "between"])
    /\ UNCHANGED <<global_callbacks, current, wanted, calls>>

BeginGlobal(t) ==
    /\ Walking(t, "between") /\ MayLock(t, "global")
    /\ Replace(t, Delivery("global"))
    /\ UNCHANGED <<callbacks, signalling, global_callbacks, current, wanted,
                   calls>>

EndGlobal(t) ==
    /\ Walking(t, "global") /\ Last(deliveries[t]).next > Len(global_callbacks)
    /\ LET cb(i) == global_callbacks[i]
           gone  == {i \in DOMAIN global_callbacks :
                         cb(i).remove /\ cb(i).signaling = 0}
       IN  global_callbacks' = Without(global_callbacks, gone)
    /\ deliveries' = [deliveries EXCEPT ![t] = Front(@)]
    /\ UNCHANGED <<callbacks, signalling, current, wanted, calls>>

-----------------------------------------------------------------------------

SignalCall(t) ==
    \/ \E c \in SignalCallbacks : ConnectCallback(t, c) \/ DisconnectCallback(t, c)
    \/ \E c \in GlobalCallbacks : ConnectGlobal(t, c) \/ DisconnectGlobal(t, c)
    \/ RemoveCurrent(t) \/ BeginSignal(t)

Deliver(t) ==
    \/ CallSignal(t) \/ CallGlobal(t) \/ Return(t)
    \/ EndSignal(t) \/ BeginGlobal(t) \/ EndGlobal(t)

SignalsNext == \E t \in SignalThreads : SignalCall(t) \/ Deliver(t)

SignalsSpec == SignalsInit /\ [][SignalsNext]_signalVars

-----------------------------------------------------------------------------
(* Properties                                                               *)

DeliveryType ==
    [in : Arrays \cup {"between"}, next : Nat, running : BOOLEAN,
     called : Seq(SignalCallbacks \cup GlobalCallbacks),
     due : SUBSET (SignalCallbacks \cup GlobalCallbacks)]

SignalsTypeOK ==
    /\ callbacks \in Seq([callback : SignalCallbacks, remove : BOOLEAN])
    /\ signalling \in BOOLEAN
    /\ global_callbacks \in Seq([callback : GlobalCallbacks, signaling : Nat,
                                 remove : BOOLEAN])
    /\ deliveries \in [SignalThreads -> Seq(DeliveryType)]
    /\ current \in [SignalThreads -> [Arrays -> Nat]]
    /\ wanted \in [Arrays -> SUBSET (SignalCallbacks \cup GlobalCallbacks)]
    /\ calls \in Nat

\* The callbacks of an array that were not taken off.
StillConnected(array) ==
    {array[i].callback : i \in {j \in DOMAIN array : ~array[j].remove}}

\* Whatever callbacks connect and disconnect while they are called, by several
\* threads: what is called is what was connected and not disconnected since, and
\* a delivery reaches each callback that stays connected, and none twice.
DeliveredOnce ==
    /\ StillConnected(callbacks) = wanted["signal"]
    /\ StillConnected(global_callbacks) = wanted["global"]
    /\ \A t \in SignalThreads : \A i \in DOMAIN deliveries[t] :
           LET delivery == deliveries[t][i]
           IN  /\ IsInjective(delivery.called)
               /\ delivery.in = "between"
                      => delivery.due \subseteq ToSet(delivery.called)
    /\ \A t \in SignalThreads :
           Walking(t, "global")
               /\ Last(deliveries[t]).next > Len(global_callbacks)
           => Last(deliveries[t]).due \subseteq ToSet(Last(deliveries[t]).called)
================================================================================
