----------------------------- MODULE OrderHistory -----------------------------
(***************************************************************************)
(* What an order leaves behind: the append-only log of order_events, from  *)
(* which the tracking page and the sender's screen tell the trip, and the  *)
(* emails queued on the way (handoffs, payments, tracking).  Both are      *)
(* written in the transaction of the status change they belong to.         *)
(*                                                                         *)
(* The log is kept as a set: a row is dated by the start of its            *)
(* transaction and ties are broken by a random id, so that the order of    *)
(* the page's entries is not the order of the events.                      *)
(***************************************************************************)
EXTENDS OrderViews

VARIABLES
  log,   \* the types of an order's order_events
  post   \* the emails queued about it, with the person they are for

historyVars == <<log, post>>

(* The ways of a parcel, status by status. *)
Trips ==
  LET out == <<NoOrder, "awaiting_drop_off", "parcel_received_at_origin", "rider_assigned",
               "in_transit">>
  IN  { out \o <<"arrived_at_destination", "ready_for_collection", "completed">>,
        out \o <<"return_initiated", "return_in_transit", "returned_to_origin",
                 "ready_for_sender_collection", "return_completed">> }

(* Mutant: a catch-up is one update, to where the courier says it is. *)
OnlyTheLast(s, t) == {t}

(* The statuses one transaction takes an order through: those of a         *)
(* catch-up, and of markReturning, are several.                            *)
Passed(s, t) ==
  LET trip == CHOOSE x \in Trips : \E i, j \in DOMAIN x : x[i] = s /\ x[j] = t
      place(u) == CHOOSE i \in DOMAIN trip : trip[i] = u
  IN  { trip[i] : i \in (place(s) + 1) .. place(t) }

(* The event each of OrdersService's moves appends. *)
EventOf(s) ==
  CASE s = "awaiting_drop_off" -> "order_placed"
    [] s = "in_transit"        -> "picked_up_by_rider"
    [] s = "completed"         -> "collected_by_receiver"
    [] s = "return_completed"  -> "collected_by_sender"
    [] OTHER -> s

Appended(s, t) ==
  IF s = t THEN {}
  ELSE IF <<s, t>> = <<"rider_assigned", "parcel_received_at_origin">> THEN {"courier_released"}
  ELSE { EventOf(u) : u \in Passed(s, t) }

(* The emails queued by the handler that makes each move. *)
ReceiverLetters(event) ==
  CASE event = "parcel_received_at_origin" -> {<<"receiver", "on_its_way">>}
    [] event = "ready_for_collection"      -> {<<"receiver", "collection_code">>}
    [] OTHER -> {}

ReturnLetters(event) ==
  CASE event = "return_initiated"            -> {<<"sender", "returning">>,
                                                 <<"receiver", "returning">>}
    [] event = "ready_for_sender_collection" -> {<<"sender", "collection_code">>}
    [] OTHER -> {}

(* With the confirmation that ConfirmPaymentIntentPaidService sends. *)
LettersOf(event) ==
  ReceiverLetters(event) \cup ReturnLetters(event)
    \cup { letter \in {<<"sender", "confirmed">>} : event = "order_placed" }

HistoryInit ==
  /\ Init
  /\ log = [o \in Orders |-> {}] /\ post = [o \in Orders |-> {}]

Record ==
  LET new(o) == Appended(status[o], status'[o])
  IN  /\ log' = [o \in Orders |-> log[o] \cup new(o)]
      /\ post' = [o \in Orders |-> post[o] \cup UNION { LettersOf(e) : e \in new(o) }]

HistoryNext == Next /\ Record

HistorySpec == HistoryInit /\ [][HistoryNext]_<<vars, historyVars>>

-----------------------------------------------------------------------------
(* The tracking page. *)

(* timelineEntryFor: what an event is called on the page, if anything. *)
TimelineEntries(event) ==
  CASE event = "courier_released" -> {}
    [] event = "order_placed" -> {"order_placed"}
    [] event \in {"parcel_received_at_origin", "rider_assigned"} -> {"at_origin_station"}
    [] event = "picked_up_by_rider" -> {"on_the_way"}
    [] event = "collected_by_receiver" -> {"collected"}
    [] event \in {"return_initiated", "return_in_transit"} -> {"returning_to_sender"}
    [] event \in {"returned_to_origin", "ready_for_sender_collection"} -> {"returned_to_sender"}
    [] event = "collected_by_sender" -> {"return_completed"}
    [] OTHER -> {event}

TimelineFor(o) == UNION { TimelineEntries(e) : e \in log[o] }

(* RETURN_PUBLIC_STATUSES: the page gives the origin's address and hours. *)
ReturnPublicStatuses == {"returning_to_sender", "returned_to_sender", "return_completed"}

CourierLabelFor(o) ==
  IF status[o] \in {"rider_assigned", "in_transit", "return_initiated", "return_in_transit"}
  THEN leg[o].provider ELSE NoProvider

(* Where a parcel that is at such a place has been, in the page's words. *)
Been(o) ==
  LET place == Place(o)
      out == {"order_placed", "at_origin_station"}
      road == out \cup {"on_the_way"}
      back == road \cup {"returning_to_sender"}
      there == road \cup {"arrived_at_destination"}
  IN  CASE place = "sender"       -> {"order_placed"}
        [] place = "origin"       -> out
        [] place = "courier_out"  -> road
        [] place = "destination"  ->
             IF shelf[o] = NoShelf THEN there ELSE there \cup {"ready_for_collection"}
        [] place = "receiver"     -> there \cup {"ready_for_collection", "collected"}
        [] place = "courier_back" -> back
        [] place = "origin_again" -> back \cup {"returned_to_sender"}
        [] place = "sender_again" -> back \cup {"returned_to_sender", "return_completed"}

(* The page tells the trip the parcel has made: its timeline has an entry  *)
(* for every place the shelf and the leg say it has been to and no other,  *)
(* however many reports were caught up with at once; it names a courier    *)
(* exactly while one has the job, and the origin's address exactly while   *)
(* the parcel is going there or lies there for the sender.                 *)
PageTellsTheTrip(o) ==
  /\ TimelineFor(o) = Been(o)
  /\ ToPublicStatus(status[o]) \in Been(o) \cup {"awaiting_drop_off"}
  /\ CourierLabelFor(o) =
       IF leg[o].status \in {"assigned", "picked_up", "returning"}
       THEN leg[o].provider ELSE NoProvider
  /\ ToPublicStatus(status[o]) \in ReturnPublicStatuses <=>
       Place(o) \in {"courier_back", "origin_again", "sender_again"}

(* "The receiver has no account": who waits for a parcel was sent the code *)
(* to collect it, the receiver hears nothing of a parcel that was never    *)
(* dropped off, and both sides are told of a return, nobody of one that    *)
(* does not happen (receiver-notification, return-notification).           *)
PeopleAreTold(o) ==
  /\ (\E letter \in post[o] : letter[1] = "receiver") <=> Place(o) # "sender"
  /\ shelf[o].node = Destination[o] => <<"receiver", "collection_code">> \in post[o]
  /\ Place(o) = "origin_again" /\ shelf[o] # NoShelf => <<"sender", "collection_code">> \in post[o]
  /\ \A person \in {"sender", "receiver"} :
       <<person, "returning">> \in post[o] <=>
         Place(o) \in {"courier_back", "origin_again", "sender_again"}

HistoryIsTrue == \A o \in Orders : status[o] # NoOrder => PageTellsTheTrip(o) /\ PeopleAreTold(o)
================================================================================
